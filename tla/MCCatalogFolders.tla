--------------------------- MODULE MCCatalogFolders ---------------------------
(* Instances of CatalogFolders for TLC. *)
EXTENDS CatalogFolders, TLC

CatalogSymmetry == Permutations(Folders) \cup Permutations(Names) \cup Permutations(Features)
                     \cup Permutations(Callers)
==============================================================================
