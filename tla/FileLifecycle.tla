--------------------------- MODULE FileLifecycle ---------------------------
(***************************************************************************)
(* The release-file lifecycle of Software Hub: rows of release_files in    *)
(* SQLite beside bytes in three private storage roots, changed by          *)
(* concurrent administrator requests (FileService, UploadService) and by   *)
(* the temporary-file cleaner.                                             *)
(*                                                                         *)
(* Every request is a sequence of steps that other requests interleave     *)
(* with: read the row, inspect the disk, check and rename a file, SELECT   *)
(* inside the transaction, then UPDATE/INSERT/DELETE and COMMIT.  The      *)
(* SELECT and the write are two steps: the SQLite driver opens the         *)
(* transaction only at the first write, and SQLite ignores FOR UPDATE.     *)
(***************************************************************************)
EXTENDS Naturals, FilePolicies

CONSTANTS
    Paths,        \* generated relative_storage_path values, one per upload
    NoPath,       \* the path of "no row"
    MaxFile,      \* bound: largest release_files row id
    Workers,      \* concurrent requests
    Ops,          \* the operations this instance exercises
    ScanResults,  \* outcomes [scanner, match] of validating an upload
    Faults        \* the failures that may happen

Area == StorageArea \cup {"temporary", "deletions"}

\* The operations whose transaction only sets the status, and the status each sets.
StatusOps == {"approve", "reject", "reopen", "publish", "disable", "archive", "restore_ready"}
DeleteOps == {"delete_metadata", "permanently_delete"}
Operation == StatusOps \cup DeleteOps \cup {"verify_integrity", "upload"}
FaultKind == {"db", "move", "fsync", "undo", "unlink", "crash"}

FileIds == 1..MaxFile

ASSUME FileAssumption ==
    /\ MaxFile \in Nat
    /\ NoPath \notin Paths
    /\ Ops \subseteq Operation
    /\ ScanResults \subseteq [scanner : ScannerStatus, match : BOOLEAN]
    /\ Faults \subseteq FaultKind

VARIABLES
    files,   \* release_files: row id -> row, NoRow where there is none
    store,   \* path -> the areas that hold a file of that name
    used,    \* paths already generated (uuid4: never generated again)
    req,     \* worker -> the request it is serving
    alarms   \* paths for which a CRITICAL compensation failure was logged

vars == <<files, store, used, req, alarms>>

-----------------------------------------------------------------------------
(* Rows and requests *)

Row == [path : Paths, status : FileStatus, scanner : ScannerStatus, match : BOOLEAN]
NoRow == [path |-> NoPath, status |-> "none", scanner |-> "none", match |-> FALSE]

\* pc: locate -> move -> replace -> read -> write -> unlink, and undo -> undoReplace
\* when the transaction fails; an upload goes stream -> move -> replace -> scan, and
\* cleanup when anything fails.
\* area: where the bytes were located; change: the transaction has a row to write.
Pc == {"idle", "locate", "move", "replace", "read", "write", "unlink", "undo",
       "undoReplace", "stream", "scan", "cleanup"}
Request == [pc : Pc, op : Operation \cup {"none"}, id : FileIds \cup {0},
            path : Paths \cup {NoPath}, area : Area \cup {"none"}, change : BOOLEAN]
IdleReq == [pc |-> "idle", op |-> "none", id |-> 0, path |-> NoPath,
            area |-> "none", change |-> FALSE]

Init ==
    /\ files = [i \in FileIds |-> NoRow]
    /\ store = [p \in Paths |-> {}]
    /\ used = {}
    /\ req = [w \in Workers |-> IdleReq]
    /\ alarms = {}

Active(w) == req[w].pc # "idle"
Become(w, r) == req' = [req EXCEPT ![w] = r]

-----------------------------------------------------------------------------
(* What each operation writes, and where it may start from *)

Target(op) ==
    CASE op = "approve"       -> "ready"
      [] op = "restore_ready" -> "ready"
      [] op = "reject"        -> "rejected"
      [] op = "reopen"        -> "quarantine"
      [] op = "publish"       -> "published"
      [] op = "disable"       -> "disabled"
      [] op = "archive"       -> "archived"
      [] OTHER                -> "none"

\* Only the area a review or a publication starts from is restricted.
AreaAccepted(op, area) ==
    op \in {"approve", "reject", "reopen", "publish"} => area = "quarantine"

-----------------------------------------------------------------------------
(* Scheduling: upload and deletion routes are coroutines that run their      *)
(* synchronous parts on the one event loop; the other routes run in threads. *)

OnLoop(r) ==
    \/ r.op \in DeleteOps
    \/ r.op = "upload" /\ r.pc \in {"move", "replace", "cleanup"}

LoopFree(w) == \A v \in Workers \ {w} : ~OnLoop(req[v])

-----------------------------------------------------------------------------
(* FileService: preflight *)

\* FileService.get and the checks on the row before the disk is touched.
Get(w, op, i) ==
    /\ ~Active(w)
    /\ op \in Ops \ {"upload"}
    /\ files[i] # NoRow
    /\ op \in DeleteOps => LoopFree(w) /\ EnsureDeletable(files[i])
    /\ op = "publish" => EnsurePublishReady(files[i], TRUE)
    /\ Become(w, [pc |-> "locate", op |-> op, id |-> i, path |-> files[i].path,
                  area |-> "none", change |-> FALSE])
    /\ UNCHANGED <<files, store, used, alarms>>

\* Mutant: a restored file is not moved back to quarantine.
MovesOnlyForward(op, area) == op \in {"publish", "permanently_delete"}

\* The operations that rename the located file before their transaction.
Moves(op, area) ==
    \/ op \in {"publish", "permanently_delete"}
    \/ op = "restore_ready" /\ area = "software"

\* inspect_stored_files / locate_stored_file: exactly one of the two areas.
Locate(w) ==
    LET r == req[w]
        found == store[r.path] \cap StorageArea
    IN  /\ r.pc = "locate"
        /\ \/ \E a \in found :
                /\ found = {a}
                /\ AreaAccepted(r.op, a)
                /\ Become(w, [r EXCEPT !.area = a,
                                       !.pc = IF Moves(r.op, a) THEN "move" ELSE "read"])
           \/ /\ r.op = "delete_metadata"
              /\ found = {}
              /\ Become(w, [r EXCEPT !.pc = "read"])
        /\ UNCHANGED <<files, store, used, alarms>>

\* The file is missing or ambiguous, in the wrong area, or its size or checksum differs.
Refuse(w) ==
    /\ req[w].pc = "locate"
    /\ Become(w, IdleReq)
    /\ UNCHANGED <<files, store, used, alarms>>

-----------------------------------------------------------------------------
(* atomic_move: check source and destination, then rename *)

MoveTo(op) ==
    CASE op = "publish" -> "software"
      [] op \in {"restore_ready", "upload"} -> "quarantine"
      [] OTHER -> "deletions"

Renamed(path, from, to) == [store EXCEPT ![path] = (@ \ {from}) \cup {to}]

\* A failed forward move raises outside the try block: no compensation, except that
\* an upload removes what it left behind.
MoveFailed(r) == IF r.op = "upload" THEN [r EXCEPT !.pc = "cleanup"] ELSE IdleReq

CheckMove(w) ==
    LET r == req[w]
        possible == r.area \in store[r.path] /\ MoveTo(r.op) \notin store[r.path]
    IN  /\ r.pc = "move"
        /\ \/ possible /\ Become(w, [r EXCEPT !.pc = "replace"])
           \/ (~possible \/ "move" \in Faults) /\ Become(w, MoveFailed(r))
        /\ UNCHANGED <<files, store, used, alarms>>

\* source.replace(destination); the error of the fsync after it leaves the file moved.
Replace(w) ==
    LET r == req[w]
        moved == IF r.op = "upload" THEN [r EXCEPT !.pc = "scan", !.area = "quarantine"]
                 ELSE [r EXCEPT !.pc = "read"]
    IN  /\ r.pc = "replace"
        /\ \/ /\ r.area \in store[r.path]
              /\ store' = Renamed(r.path, r.area, MoveTo(r.op))
              /\ \/ Become(w, moved)
                 \/ "fsync" \in Faults /\ Become(w, MoveFailed(r))
           \/ /\ r.area \notin store[r.path] \/ "move" \in Faults
              /\ UNCHANGED store
              /\ Become(w, MoveFailed(r))
        /\ UNCHANGED <<files, used, alarms>>

-----------------------------------------------------------------------------
(* FileService: the metadata transaction *)

\* What the transaction checks on the row it has read.
Accepts(r, row, live) ==
    /\ row # NoRow
    /\ r.op \in DeleteOps => EnsureDeletable(row)
    /\ r.op \in {"publish", "permanently_delete"} => row.path = r.path
    /\ r.op = "publish" => EnsurePublishReady(row, live)
    /\ r.op \in StatusOps => TransitionAllowed(row, Target(r.op), live)

\* Mutants: a failed transaction is not compensated; a permanent deletion goes on to
\* unlink although its transaction failed.
TxFailedNotUndone(r) == IdleReq
TxFailedUnlinks(r) ==
    CASE r.op = "permanently_delete" -> [r EXCEPT !.pc = "unlink"]
      [] r.op # "permanently_delete" /\ Moves(r.op, r.area) -> [r EXCEPT !.pc = "undo"]
      [] OTHER -> IdleReq

\* The transaction raised: whoever renamed a file renames it back.
TxFailed(r) == IF Moves(r.op, r.area) THEN [r EXCEPT !.pc = "undo"] ELSE IdleReq

\* The parent release and software change at any time, so each read may find them
\* live or not.
TxRead(w) ==
    LET r == req[w]
        row == files[r.id]
    IN  /\ r.pc = "read"
        /\ \E live \in BOOLEAN :
             \/ /\ Accepts(r, row, live)
                /\ Become(w, [r EXCEPT !.pc = "write",
                                       !.change = r.op \in StatusOps
                                                    /\ row.status # Target(r.op)])
             \/ ~Accepts(r, row, live) /\ Become(w, TxFailed(r))
        /\ UNCHANGED <<files, store, used, alarms>>

\* UPDATE of the status of the row with this id (nothing if it did not change), or
\* DELETE of that row, together with the audit event.
TxWrite(w) ==
    LET r == req[w]
    IN  /\ r.pc = "write"
        /\ \/ /\ r.op \notin DeleteOps
              /\ r.change => files[r.id] # NoRow
              /\ files' = IF r.change
                          THEN [files EXCEPT ![r.id].status = Target(r.op)]
                          ELSE files
              /\ Become(w, IdleReq)
           \/ /\ r.op \in DeleteOps
              /\ files' = [files EXCEPT ![r.id] = NoRow]
              /\ Become(w, IF r.op = "permanently_delete"
                           THEN [r EXCEPT !.pc = "unlink"] ELSE IdleReq)
           \/ /\ (r.change /\ files[r.id] = NoRow) \/ "db" \in Faults
              /\ UNCHANGED files
              /\ Become(w, TxFailed(r))
        /\ UNCHANGED <<store, used, alarms>>

-----------------------------------------------------------------------------
(* FileService: compensation and the end of a permanent deletion *)

\* _restore_move_after_failure, restore_staged_deletion: atomic_move the other way.
CheckUndo(w) ==
    LET r == req[w]
        possible == MoveTo(r.op) \in store[r.path] /\ r.area \notin store[r.path]
    IN  /\ r.pc = "undo"
        /\ \/ /\ possible
              /\ Become(w, [r EXCEPT !.pc = "undoReplace"])
              /\ UNCHANGED alarms
           \/ /\ ~possible \/ "undo" \in Faults
              /\ Become(w, IdleReq)
              /\ alarms' = alarms \cup {r.path}
        /\ UNCHANGED <<files, store, used>>

UndoReplace(w) ==
    LET r == req[w]
    IN  /\ r.pc = "undoReplace"
        /\ \/ /\ MoveTo(r.op) \in store[r.path]
              /\ store' = Renamed(r.path, MoveTo(r.op), r.area)
              /\ \/ UNCHANGED alarms
                 \/ "fsync" \in Faults /\ alarms' = alarms \cup {r.path}
           \/ /\ MoveTo(r.op) \notin store[r.path] \/ "undo" \in Faults
              /\ UNCHANGED store
              /\ alarms' = alarms \cup {r.path}
        /\ Become(w, IdleReq)
        /\ UNCHANGED <<files, used>>

\* unlink_staged_deletion, after the commit; a failure leaves the staged file.
Unlink(w) ==
    LET r == req[w]
    IN  /\ r.pc = "unlink"
        /\ \/ /\ store' = [store EXCEPT ![r.path] = @ \ {"deletions"}]
              /\ UNCHANGED alarms
           \/ /\ "unlink" \in Faults
              /\ UNCHANGED store
              /\ alarms' = alarms \cup {r.path}
        /\ Become(w, IdleReq)
        /\ UNCHANGED <<files, used>>

-----------------------------------------------------------------------------
(* UploadService *)

\* Mutant: the storage name is taken from the upload, so it may occur again.
UploadStartNamed(w, p) ==
    /\ ~Active(w)
    /\ "upload" \in Ops
    /\ used' = used \cup {p}
    /\ store' = [store EXCEPT ![p] = @ \cup {"temporary"}]
    /\ Become(w, [pc |-> "stream", op |-> "upload", id |-> 0, path |-> p,
                  area |-> "temporary", change |-> FALSE])
    /\ UNCHANGED <<files, alarms>>

\* plan_upload_paths and the O_EXCL creation of the temporary file.
UploadStart(w, p) ==
    /\ ~Active(w)
    /\ "upload" \in Ops
    /\ p \notin used
    /\ used' = used \cup {p}
    /\ store' = [store EXCEPT ![p] = @ \cup {"temporary"}]
    /\ Become(w, [pc |-> "stream", op |-> "upload", id |-> 0, path |-> p,
                  area |-> "temporary", change |-> FALSE])
    /\ UNCHANGED <<files, alarms>>

\* The copy has ended in its thread: signature and move run on the event loop.
Streamed(w) ==
    /\ req[w].pc = "stream"
    /\ LoopFree(w)
    /\ Become(w, [req[w] EXCEPT !.pc = "move"])
    /\ UNCHANGED <<files, store, used, alarms>>

\* Empty, too large or unwritable: _safe_unlink of the temporary file.
StreamFails(w) ==
    LET r == req[w]
    IN  /\ r.pc = "stream"
        /\ \/ store' = [store EXCEPT ![r.path] = @ \ {"temporary"}]
           \/ "unlink" \in Faults /\ UNCHANGED store
        /\ Become(w, IdleReq)
        /\ UNCHANGED <<files, used, alarms>>

\* The rowid SQLite gives a new row: one more than the largest in use.
IsNextId(i) ==
    /\ files[i] = NoRow
    /\ \A j \in FileIds : files[j] # NoRow => j < i
    /\ i > 1 => files[i - 1] # NoRow

\* The scan has ended: _persist_metadata inserts the row.
Persist(w, i, scan) ==
    LET r == req[w]
    IN  /\ r.pc = "scan"
        /\ LoopFree(w)
        /\ IsNextId(i)
        /\ files' = [files EXCEPT ![i] = [path |-> r.path, status |-> InitialStatus(scan),
                                          scanner |-> scan.scanner, match |-> scan.match]]
        /\ Become(w, IdleReq)
        /\ UNCHANGED <<store, used, alarms>>

\* The scanner raised, the form was invalid, the release is gone or the INSERT failed.
PersistFails(w) ==
    /\ req[w].pc = "scan"
    /\ LoopFree(w)
    /\ Become(w, [req[w] EXCEPT !.pc = "cleanup"])
    /\ UNCHANGED <<files, store, used, alarms>>

\* _cleanup_paths: the quarantine file is known only once the move has returned.
CleanupPaths(w) ==
    LET r == req[w]
        candidates == {"temporary"} \cup (IF r.area = "quarantine" THEN {"quarantine"} ELSE {})
    IN  /\ r.pc = "cleanup"
        /\ \E left \in SUBSET candidates :
             /\ left # {} => "unlink" \in Faults
             /\ store' = [store EXCEPT ![r.path] = @ \ (candidates \ left)]
        /\ Become(w, IdleReq)
        /\ UNCHANGED <<files, used, alarms>>

-----------------------------------------------------------------------------
(* Environment *)

\* cleanup_temporary_files removes a *.upload file of any age here, so also one whose
\* upload is still running.
CleanupTemporary(p) ==
    /\ "temporary" \in store[p]
    /\ store' = [store EXCEPT ![p] = @ \ {"temporary"}]
    /\ UNCHANGED <<files, used, req, alarms>>

\* The container stops: every request is forgotten, disk and database stay.
Crash ==
    /\ "crash" \in Faults
    /\ \E w \in Workers : Active(w)
    /\ req' = [w \in Workers |-> IdleReq]
    /\ UNCHANGED <<files, store, used, alarms>>

WorkerStep(w) ==
    \/ Locate(w) \/ Refuse(w) \/ CheckMove(w) \/ Replace(w)
    \/ TxRead(w) \/ TxWrite(w) \/ CheckUndo(w) \/ UndoReplace(w) \/ Unlink(w)
    \/ Streamed(w) \/ StreamFails(w) \/ PersistFails(w) \/ CleanupPaths(w)
    \/ \E i \in FileIds, scan \in ScanResults : Persist(w, i, scan)

Arrive(w) ==
    \/ \E op \in Operation, i \in FileIds : Get(w, op, i)
    \/ \E p \in Paths : UploadStart(w, p)

Next ==
    \/ \E w \in Workers : Arrive(w) \/ WorkerStep(w)
    \/ \E p \in Paths : CleanupTemporary(p)
    \/ Crash

Spec == Init /\ [][Next]_vars

\* A request that has begun is served to its end.
FairSpec == Spec /\ \A w \in Workers : WF_vars(WorkerStep(w))

-----------------------------------------------------------------------------
(* Properties *)

\* Every variable has its type: rows, areas per path, requests in flight.
TypeOK ==
    /\ files \in [FileIds -> Row \cup {NoRow}]
    /\ store \in [Paths -> SUBSET Area]
    /\ used \subseteq Paths
    /\ req \in [Workers -> Request]
    /\ alarms \subseteq Paths

Listed(p) == \E i \in FileIds : files[i].path = p

\* Metadata never outlives its bytes: whatever requests interleave, fail halfway or
\* crash, the file of a row is in quarantine, in software or still staged for a
\* deletion (permanently_delete unlinks and uploads clean up only what no row names).
RowHasBytes ==
    \A i \in FileIds : files[i] # NoRow =>
        store[files[i].path] \cap {"quarantine", "software", "deletions"} # {}

\* atomic_move checks that the destination is free some time before it renames over
\* it: when it renames, forward or back, the destination is still free.
NoClobber ==
    \A w \in Workers :
        /\ req[w].pc = "replace" /\ req[w].area \in store[req[w].path]
             => MoveTo(req[w].op) \notin store[req[w].path]
        /\ req[w].pc = "undoReplace" /\ MoveTo(req[w].op) \in store[req[w].path]
             => req[w].area \notin store[req[w].path]

Settled(p) == \A w \in Workers : req[w].path # p

\* Once no request works on a file, and unless a compensation failed loudly, its bytes
\* are in exactly one area and it is one that _area_allowed expects for its status.
PlacementOK ==
    \A i \in FileIds :
        files[i] # NoRow /\ Settled(files[i].path) /\ files[i].path \notin alarms
            => \E a \in AreaAllowed(files[i].status) : store[files[i].path] = {a}

\* A published row passed every check of _ensure_publish_ready that concerns the file
\* itself: its signature matched and the scanner found it clean or was unavailable.
PublishedApproved ==
    \A i \in FileIds : files[i].status = "published" =>
        files[i].match /\ files[i].scanner \in {"clean", "unavailable"}

\* No deletion removes the row of a published file (_ensure_deletable).
PublishedNeverDeleted ==
    [][\A i \in FileIds : files[i].status = "published" => files'[i] # NoRow]_vars

\* A file hidden in temporary/deletions does not stay there unnoticed: permanently_delete
\* restores it, unlinks it or logs a critical entry.
StagedSettles ==
    \A p \in Paths : ("deletions" \in store[p]) ~> ("deletions" \notin store[p] \/ p \in alarms)
=============================================================================
