----------------------------- MODULE MCCatalog -----------------------------
(***************************************************************************)
(* Instances of Catalog for TLC.                                           *)
(***************************************************************************)
EXTENDS Catalog, TLC

AllStatuses == SoftwareStatus
SomeStatuses == {"published", "archived"}
StableAndBeta == {"stable", "beta"}
Symmetry == Permutations(Workers) \cup Permutations(Versions)
=============================================================================
