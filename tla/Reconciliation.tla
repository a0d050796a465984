--------------------------- MODULE Reconciliation ---------------------------
(***************************************************************************)
(* What the commands of ReconciliationService have in common: each is a    *)
(* process of its own beside the live application, starts from one SELECT  *)
(* of all rows, and looks for files in quarantine and software.            *)
(***************************************************************************)
EXTENDS FileLifecycle, FiniteSetsExt

\* The operator admits no upload while orphan cleanup or checksum repair runs.
CONSTANT MaintenanceWindow

ASSUME WindowAssumption == MaintenanceWindow \in BOOLEAN

Uploading == \E w \in Workers : req[w].op = "upload"

\* inspect_stored_files: the areas where a file is.
Stored(p) == store[p] \cap StorageArea
=============================================================================
