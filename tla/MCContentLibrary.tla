--------------------------- MODULE MCContentLibrary ---------------------------
(* Two tasks of one launcher, one of another. *)
EXTENDS ContentLibrary, TLC

CONSTANTS one, other, t1, t2, t3

MCOwner == (t1 :> one) @@ (t2 :> one) @@ (t3 :> other)
=============================================================================
