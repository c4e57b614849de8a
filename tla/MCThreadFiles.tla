--------------------------- MODULE MCThreadFiles ---------------------------
(* Instances of ThreadFiles for TLC.                                       *)
EXTENDS ThreadFiles, TLC

ThreadSymmetry == Permutations(Threads)
=============================================================================
