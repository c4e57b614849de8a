----------------------------- MODULE MCAppQuit ------------------------------
(* Instances of AppQuit for TLC.                                           *)
EXTENDS AppQuit, TLC

SlugAndPathSymmetry == Permutations(Slugs) \cup Permutations(Paths)
=============================================================================
