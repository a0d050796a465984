--------------------------- MODULE OrphanCleanup ---------------------------
(***************************************************************************)
(* ReconciliationService.cleanup_orphans run from the CLI beside the live  *)
(* application: one SELECT of all paths, a walk over quarantine and then   *)
(* software, then staging and unlinking every file that was not in the     *)
(* SELECT.  Nothing is looked up again before a file is deleted.           *)
(***************************************************************************)
EXTENDS Reconciliation

VARIABLE cleaner    \* [pc, known, found, staged] of the CLI process

cvars == <<files, store, used, req, alarms, cleaner>>

IdleCleaner == [pc |-> "idle", known |-> {}, found |-> {}, staged |-> NoPath]

CInit == Init /\ cleaner = IdleCleaner

CTypeOK ==
    /\ TypeOK
    /\ cleaner \in [pc : {"idle", "walkQuarantine", "walkSoftware", "delete", "unlink"},
                    known : SUBSET Paths, found : SUBSET (Paths \X StorageArea),
                    staged : Paths \cup {NoPath}]

\* _metadata_snapshot
Snapshot ==
    /\ cleaner.pc = "idle"
    /\ MaintenanceWindow => ~Uploading
    /\ cleaner' = [cleaner EXCEPT !.pc = "walkQuarantine",
                                  !.known = {p \in Paths : Listed(p)}]
    /\ UNCHANGED vars

\* Mutant: what the walk finds is not compared with the snapshot.
UnknownUncompared(a) == {<<p, a>> : p \in {q \in Paths : a \in store[q]}}

\* _orphan_issues: the files of one area whose path is not a known one.
Unknown(a) == {<<p, a>> : p \in {q \in Paths \ cleaner.known : a \in store[q]}}

Walk(pc, a, next) ==
    /\ cleaner.pc = pc
    /\ cleaner' = [cleaner EXCEPT !.pc = next, !.found = @ \cup Unknown(a)]
    /\ UNCHANGED vars

\* stage_for_permanent_deletion of one reported file; one that is gone meanwhile, or
\* cannot be moved, counts as an error.
StageOrphan(p, a) ==
    /\ cleaner.pc = "delete"
    /\ <<p, a>> \in cleaner.found
    /\ \/ /\ a \in store[p]
          /\ store' = Renamed(p, a, "deletions")
          /\ \/ cleaner' = [cleaner EXCEPT !.pc = "unlink", !.staged = p,
                                           !.found = @ \ {<<p, a>>}]
             \/ /\ "fsync" \in Faults
                /\ cleaner' = [cleaner EXCEPT !.found = @ \ {<<p, a>>}]
       \/ /\ a \notin store[p] \/ "move" \in Faults
          /\ cleaner' = [cleaner EXCEPT !.found = @ \ {<<p, a>>}]
          /\ UNCHANGED store
    /\ UNCHANGED <<files, used, req, alarms>>

UnlinkOrphan ==
    /\ cleaner.pc = "unlink"
    /\ \/ store' = [store EXCEPT ![cleaner.staged] = @ \ {"deletions"}]
       \/ "unlink" \in Faults /\ UNCHANGED store
    /\ cleaner' = [cleaner EXCEPT !.pc = "delete", !.staged = NoPath]
    /\ UNCHANGED <<files, used, req, alarms>>

CleanerDone ==
    /\ cleaner.pc = "delete"
    /\ cleaner.found = {}
    /\ cleaner' = IdleCleaner
    /\ UNCHANGED vars

CleanerStep ==
    \/ Snapshot
    \/ Walk("walkQuarantine", "quarantine", "walkSoftware")
    \/ Walk("walkSoftware", "software", "delete")
    \/ \E p \in Paths, a \in StorageArea : StageOrphan(p, a)
    \/ UnlinkOrphan
    \/ CleanerDone

\* The application as in FileLifecycle; a crash of the container takes the CLI along.
ApplicationStep ==
    \/ /\ \E w \in Workers :
            \/ \E op \in Operation, i \in FileIds : Get(w, op, i)
            \/ WorkerStep(w)
       /\ UNCHANGED cleaner
    \/ /\ MaintenanceWindow => cleaner.pc = "idle"
       /\ \E w \in Workers, p \in Paths : UploadStart(w, p)
       /\ UNCHANGED cleaner
    \/ (\E p \in Paths : CleanupTemporary(p)) /\ UNCHANGED cleaner
    \/ Crash /\ cleaner' = IdleCleaner

CNext == CleanerStep \/ ApplicationStep

CSpec == CInit /\ [][CNext]_cvars

\* cleanup_orphans "deletes only unreferenced regular files": what it has staged is
\* named by no row when it is unlinked.
DeletesOnlyUnreferenced == cleaner.pc = "unlink" => ~Listed(cleaner.staged)
=============================================================================
