---------------------------- MODULE FilePolicies ----------------------------
(***************************************************************************)
(* The pure policies of release files: statuses, the transition table, the *)
(* checks of a publication and a deletion, and where bytes are expected.   *)
(***************************************************************************)

FileStatus == {"quarantine", "ready", "rejected", "published", "disabled", "archived"}
ScannerStatus == {"clean", "infected", "error", "unavailable"}
StorageArea == {"quarantine", "software"}

FILE_TRANSITIONS == [s \in FileStatus |->
    CASE s = "quarantine" -> {"ready", "rejected", "disabled"}
      [] s = "ready"      -> {"published", "rejected", "disabled", "archived"}
      [] s = "published"  -> {"disabled", "archived"}
      [] s = "disabled"   -> {"ready", "archived"}
      [] s = "archived"   -> {"ready", "disabled"}
      [] s = "rejected"   -> {"quarantine"}]

\* apply_file_transition: a transition to the current status is a no-op; live says
\* that the release is published and its software published or hidden.
TransitionAllowed(row, target, live) ==
    \/ target = row.status
    \/ /\ target \in FILE_TRANSITIONS[row.status]
       /\ target \in {"ready", "published"} => row.scanner # "infected"
       /\ target = "published" => live

EnsurePublishReady(row, live) ==
    /\ row.status = "ready"
    /\ row.match
    /\ live
    /\ row.scanner \in {"clean", "unavailable"}

EnsureDeletable(row) == row.status # "published"

\* _area_allowed: where the bytes of a row with this status are expected.
AreaAllowed(status) ==
    CASE status = "published" -> {"software"}
      [] status \in {"quarantine", "ready", "rejected"} -> {"quarantine"}
      [] OTHER -> StorageArea

InitialStatus(scan) ==
    CASE scan.scanner = "infected" -> "rejected"
      [] scan.scanner # "infected" /\ (~scan.match \/ scan.scanner = "error") -> "quarantine"
      [] OTHER -> "ready"
=============================================================================
