----------------------------- MODULE MCChatRuns -----------------------------
(* Instances of ChatRuns for TLC.                                          *)
EXTENDS ChatRuns, TLC

ThreadSymmetry == Permutations(Threads)
=============================================================================
