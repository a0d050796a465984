-------------------------- MODULE MCPublicCatalog --------------------------
(***************************************************************************)
(* Instances of PublicCatalog for TLC.                                     *)
(***************************************************************************)
EXTENDS PublicCatalog, TLC

AnyStatus == SoftwareStatus
FewFileStatuses == {"ready", "published", "disabled"}
AnyVisibility == Visibility
Symmetry == Permutations(Slugs) \cup Permutations(LabelSlugs)
=============================================================================
