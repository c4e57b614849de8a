----------------------------- MODULE MCDocFlush -----------------------------
(* Instances of DocFlush for TLC.                                          *)
EXTENDS DocFlush
=============================================================================
