--------------------------- MODULE MCContentLoad ---------------------------
(* Small instances of ContentLoad for TLC. *)
EXTENDS ContentLoad, TLC

LoaderSymmetry == Permutations(Loaders)
=============================================================================
