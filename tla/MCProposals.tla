---------------------------- MODULE MCProposals -----------------------------
(* Instances of Proposals for TLC.                                         *)
EXTENDS Proposals, TLC

Interchangeable == Permutations(Calls) \cup Permutations(Chats)
=============================================================================
