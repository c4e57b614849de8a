---------------------------- MODULE MCVaultSync -----------------------------
(* Instances of VaultSync for TLC.                                         *)
EXTENDS VaultSync, TLC

PathSymmetry == Permutations(Paths)
=============================================================================
