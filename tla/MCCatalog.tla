----------------------------- MODULE MCCatalog -----------------------------
(* Instances of Catalog for TLC: the vault as a grid of folders and names. *)
EXTENDS Catalog, TLC

Grid == Folders \X Names
CatalogSymmetry ==
    Permutations(Slugs) \cup Permutations(Folders) \cup Permutations(Names)
=============================================================================
