-------------------------- MODULE CatalogPolicies --------------------------
(***************************************************************************)
(* The pure policies of catalog entries and their releases: statuses, the  *)
(* two transition tables and the checks of transitions and of the current  *)
(* stable release.                                                         *)
(***************************************************************************)

ReleaseChannel == {"stable", "beta", "alpha", "nightly", "legacy"}
SoftwareStatus == {"draft", "published", "hidden", "archived", "disabled"}
ReleaseStatus == {"draft", "published", "archived", "disabled"}
Visibility == {"public", "unlisted", "private"}

SOFTWARE_TRANSITIONS == [s \in SoftwareStatus |->
    CASE s = "draft"     -> {"published", "hidden", "disabled"}
      [] s = "published" -> {"hidden", "archived", "disabled"}
      [] s = "hidden"    -> {"draft", "published", "archived", "disabled"}
      [] s = "archived"  -> {"published", "hidden", "disabled"}
      [] s = "disabled"  -> {"draft"}]

RELEASE_TRANSITIONS == [s \in ReleaseStatus |->
    CASE s = "draft"     -> {"published", "archived", "disabled"}
      [] s = "published" -> {"archived", "disabled"}
      [] s = "archived"  -> {"published", "disabled"}
      [] s = "disabled"  -> {"draft"}]

Live(s) == s.status \in {"published", "hidden"}

\* Mutant: the marker survives a transition.
StatusOnly(r, target) == [r EXCEPT !.status = target]

ApplyReleaseTransition(r, target) ==
    [r EXCEPT !.status = target, !.current = @ /\ target = "published"]

ReleaseTransitionAllowed(r, target, s) ==
    /\ target \in RELEASE_TRANSITIONS[r.status]
    /\ target = "published" => Live(s)

EnsureCurrentStableCandidate(r, s) ==
    r.channel = "stable" /\ r.status = "published" /\ Live(s)
=============================================================================
