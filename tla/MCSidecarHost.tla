---------------------------- MODULE MCSidecarHost ---------------------------
(* Instances of SidecarHost for TLC.                                       *)
EXTENDS SidecarHost, TLC

Interchangeable == Permutations(Inst) \cup Permutations(Cmds)
=============================================================================
