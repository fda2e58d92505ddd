-------------------------- MODULE MCInstanceLists --------------------------
(***************************************************************************)
(* A small instance of InstanceLists for TLC.  The two lists only meet in  *)
(* the removal of the instance and in .minecraft, so a behaviour is        *)
(* followed only as long as one of them is left alone.                     *)
(***************************************************************************)
EXTENDS InstanceLists, TLC

Symmetry == Permutations(Loaders) \cup Permutations(Worlds)

OneListInUse ==
    \/ ~watchingSaves /\ edits = 2
    \/ ~watchingServerDat /\ serverEdits = 1
=============================================================================
