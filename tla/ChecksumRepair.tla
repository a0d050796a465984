--------------------------- MODULE ChecksumRepair ---------------------------
(***************************************************************************)
(* ReconciliationService.recalculate_checksums run from the CLI beside the *)
(* live application: one SELECT of all rows, every file hashed outside a   *)
(* transaction, then one transaction that loads, hashes again and updates  *)
(* each row that differed.  To the state of FileLifecycle this adds the    *)
(* bytes of a file, the checksum in its row and the checksum a request     *)
(* read with the row.                                                      *)
(*                                                                         *)
(* A file is hashed and its mtime read in one step; contents differ only   *)
(* in their digest, never in size.                                         *)
(***************************************************************************)
EXTENDS Reconciliation

CONSTANTS
    Contents,           \* what a file may contain; a checksum is a content
    NoSum,              \* the checksum of "no row"
    MaxStamp,           \* bound: files written, by uploads and by rewriting
    QuietStorage        \* files are rewritten only while nothing reads them

ASSUME RepairAssumption ==
    /\ NoSum \notin Contents
    /\ MaxStamp \in Nat
    /\ QuietStorage \in BOOLEAN

VARIABLES
    bytes,   \* path -> [content, stamp]: what its file holds, and the mtime
    sums,    \* row id -> sha256 in the row
    want,    \* worker -> sha256 it will store or compare with
    repair,  \* the CLI process
    calm     \* ghost: rows untouched, with their files, since the snapshot

rvars == <<files, store, used, req, alarms, bytes, sums, want, repair, calm>>

Bytes == [content : Contents, stamp : 0..MaxStamp]
SnapshotRow == [id : FileIds, path : Paths, status : FileStatus, sum : Contents]
Change == [id : FileIds, content : Contents, stamp : 0..MaxStamp]

\* todo: rows of the snapshot to inspect; changes: mismatches to repair; loaded: the
\* change whose row is loaded; flushed: changes whose UPDATE is not yet committed.
IdleRepair == [pc |-> "idle", dry |-> TRUE, include |-> FALSE, todo |-> {},
               changes |-> {}, loaded |-> {}, flushed |-> {}]

RInit ==
    /\ Init
    /\ \E c \in Contents : bytes = [p \in Paths |-> [content |-> c, stamp |-> 0]]
    /\ sums = [i \in FileIds |-> NoSum]
    /\ want = [w \in Workers |-> NoSum]
    /\ repair = IdleRepair
    /\ calm = {}

\* Types of what recalculate_checksums and the mishaps add to the file lifecycle's state.
RTypeOK ==
    /\ TypeOK
    /\ bytes \in [Paths -> Bytes]
    /\ sums \in [FileIds -> Contents \cup {NoSum}]
    /\ \A i \in FileIds : sums[i] = NoSum <=> files[i] = NoRow
    /\ want \in [Workers -> Contents \cup {NoSum}]
    /\ repair.pc \in {"idle", "inspect", "load", "flush", "done"}
    /\ {repair.dry, repair.include} \subseteq BOOLEAN
    /\ repair.todo \subseteq SnapshotRow
    /\ repair.changes \cup repair.loaded \cup repair.flushed \subseteq Change
    /\ calm \subseteq FileIds

NextStamp == 1 + Max({bytes[p].stamp : p \in Paths})

\* SQLite admits one writer: the repair is it from its first UPDATE to its commit.
Locked == repair.flushed # {}

-----------------------------------------------------------------------------
(* recalculate_checksums *)

First(rows) == CHOOSE r \in rows : \A q \in rows : r.id <= q.id

\* _metadata_snapshot
TakeSnapshot(dry, include) ==
    /\ repair.pc = "idle"
    /\ MaintenanceWindow => ~Uploading
    /\ repair' = [IdleRepair EXCEPT !.pc = "inspect", !.dry = dry, !.include = include,
         !.todo = {[id |-> i, path |-> files[i].path, status |-> files[i].status,
                    sum |-> sums[i]] : i \in {j \in FileIds : files[j] # NoRow}}]
    /\ UNCHANGED <<bytes, sums, want>>

\* A file that is not in exactly one area is counted as an error and left alone, a
\* published one, by the status of the snapshot, is skipped.
ToRepair(row) ==
    /\ Cardinality(Stored(row.path)) = 1
    /\ bytes[row.path].content # row.sum
    /\ row.status = "published" => repair.include

Inspect ==
    LET row == First(repair.todo)
        change == [id |-> row.id, content |-> bytes[row.path].content,
                   stamp |-> bytes[row.path].stamp]
    IN  /\ repair.pc = "inspect"
        /\ repair.todo # {}
        /\ repair' = [repair EXCEPT !.todo = @ \ {row},
                        !.changes = IF ToRepair(row) THEN @ \cup {change} ELSE @]
        /\ UNCHANGED <<bytes, sums, want>>

Inspected ==
    /\ repair.pc = "inspect"
    /\ repair.todo = {}
    /\ repair' = [repair EXCEPT !.pc = IF repair.dry \/ repair.changes = {} THEN "done" ELSE "load"]
    /\ UNCHANGED <<bytes, sums, want>>

\* The row that now has the id, its file in one area, digest and mtime as inspected.
Unchanged(c) ==
    LET p == files[c.id].path
    IN  /\ files[c.id] # NoRow
        /\ Cardinality(Stored(p)) = 1
        /\ bytes[p] = [content |-> c.content, stamp |-> c.stamp]

\* Mutant: the first error ends the loop instead of the iteration.
LoadOrBreak ==
    LET c == First(repair.changes)
    IN  /\ repair.pc = "load"
        /\ repair.changes # {}
        /\ repair' = IF Unchanged(c)
                     THEN [repair EXCEPT !.changes = @ \ {c}, !.loaded = {c}, !.pc = "flush"]
                     ELSE [repair EXCEPT !.changes = {}]
        /\ UNCHANGED <<bytes, sums, want>>

\* session.get and the second look at the file; the status is not looked at again.
Load ==
    LET c == First(repair.changes)
    IN  /\ repair.pc = "load"
        /\ repair.changes # {}
        /\ repair' = IF Unchanged(c)
                     THEN [repair EXCEPT !.changes = @ \ {c}, !.loaded = {c}, !.pc = "flush"]
                     ELSE [repair EXCEPT !.changes = @ \ {c}]
        /\ UNCHANGED <<bytes, sums, want>>

\* append_audit_event flushes: UPDATE by id, which opens the transaction if it is the
\* first.  An UPDATE that matches no row raises and rolls everything back.
Flush ==
    /\ repair.pc = "flush"
    /\ \/ /\ \A c \in repair.loaded : files[c.id] # NoRow
          /\ repair' = [repair EXCEPT !.pc = "load", !.loaded = {}, !.flushed = @ \cup repair.loaded]
       \/ /\ (\E c \in repair.loaded : files[c.id] = NoRow) \/ "db" \in Faults
          /\ repair' = IdleRepair
    /\ UNCHANGED <<bytes, sums, want>>

Commit ==
    /\ repair.pc = "load"
    /\ repair.changes = {}
    /\ \/ /\ sums' = [i \in FileIds |->
                        IF \E c \in repair.flushed : c.id = i
                        THEN (CHOOSE c \in repair.flushed : c.id = i).content ELSE sums[i]]
          /\ repair' = [repair EXCEPT !.pc = "done", !.flushed = {}]
       \/ "db" \in Faults /\ repair' = IdleRepair /\ UNCHANGED sums
    /\ UNCHANGED <<bytes, want>>

RepairDone ==
    /\ repair.pc = "done"
    /\ repair' = IdleRepair
    /\ UNCHANGED <<bytes, sums, want>>

RepairStep ==
    \/ \E dry, include \in BOOLEAN : TakeSnapshot(dry, include)
    \/ Inspect \/ Inspected \/ Load \/ Flush \/ Commit \/ RepairDone

-----------------------------------------------------------------------------
(* The requests of FileLifecycle and what they do to checksums *)

\* Mutant: publication compares sizes only, as the other operations do.
VerifiesOnDemand(op) == op = "verify_integrity"

\* _verified_physical_file(verify_hash=True)
VerifiesHash(op) == op \in {"publish", "verify_integrity"}

\* A request forgets the checksum when it ends.
Forget(w) == want' = [want EXCEPT ![w] = IF req'[w] = IdleReq THEN NoSum ELSE @]

GetRow(w) ==
    /\ \E op \in Operation, i \in FileIds :
         Get(w, op, i) /\ want' = [want EXCEPT ![w] = sums[i]]
    /\ UNCHANGED <<bytes, sums>>

\* The digest is computed from the streamed chunks.
StreamUpload(w) ==
    /\ MaintenanceWindow => repair.pc = "idle"
    /\ NextStamp <= MaxStamp
    /\ \E p \in Paths, c \in Contents :
         /\ UploadStart(w, p)
         /\ bytes' = [bytes EXCEPT ![p] = [content |-> c, stamp |-> NextStamp]]
         /\ want' = [want EXCEPT ![w] = c]
    /\ UNCHANGED sums

LocateFile(w) ==
    /\ Locate(w)
    /\ VerifiesHash(req[w].op) => bytes[req[w].path].content = want[w]
    /\ Forget(w)
    /\ UNCHANGED <<bytes, sums>>

DiskStep(w) ==
    /\ \/ Refuse(w) \/ CheckMove(w) \/ Replace(w) \/ TxRead(w) \/ CheckUndo(w)
       \/ UndoReplace(w) \/ Unlink(w) \/ Streamed(w) \/ StreamFails(w)
       \/ PersistFails(w) \/ CleanupPaths(w)
    /\ Forget(w)
    /\ UNCHANGED <<bytes, sums>>

WriteRow(w) ==
    /\ ~Locked
    /\ \/ /\ TxWrite(w)
          /\ sums' = [i \in FileIds |-> IF files'[i] = NoRow THEN NoSum ELSE sums[i]]
       \/ \E i \in FileIds, scan \in ScanResults :
            Persist(w, i, scan) /\ sums' = [sums EXCEPT ![i] = want[w]]
    /\ Forget(w)
    /\ UNCHANGED bytes

\* The storage is rewritten behind the application's back, by a failing disk or an
\* operator.  Quiet: only while no repair runs and no request works on the file.
Rewrite(p) ==
    /\ Stored(p) # {}
    /\ NextStamp <= MaxStamp
    /\ QuietStorage => repair.pc = "idle" /\ \A w \in Workers : req[w].path # p
    /\ \E c \in Contents \ {bytes[p].content} :
         bytes' = [bytes EXCEPT ![p] = [content |-> c, stamp |-> NextStamp]]
    /\ UNCHANGED <<vars, sums, want, repair>>

StopAll ==
    /\ Crash
    /\ want' = [w \in Workers |-> NoSum]
    /\ repair' = IdleRepair
    /\ UNCHANGED <<bytes, sums>>

\* What happens to a row or its file ends the calm of that row.
StillCalm == {i \in calm : /\ files'[i] = files[i]
                           /\ store'[files[i].path] = store[files[i].path]
                           /\ bytes'[files[i].path] = bytes[files[i].path]}

RNext ==
    /\ \/ RepairStep /\ UNCHANGED vars
       \/ /\ \E w \in Workers : GetRow(w) \/ StreamUpload(w) \/ LocateFile(w)
                                  \/ DiskStep(w) \/ WriteRow(w)
          /\ UNCHANGED repair
       \/ (\E p \in Paths : CleanupTemporary(p)) /\ UNCHANGED <<bytes, sums, want, repair>>
       \/ \E p \in Paths : Rewrite(p)
       \/ StopAll
    /\ calm' = IF repair.pc = "idle" /\ repair'.pc = "inspect"
               THEN {r.id : r \in repair'.todo} ELSE StillCalm

RSpec == RInit /\ [][RNext]_rvars

-----------------------------------------------------------------------------
(* Properties *)

\* "Published files are protected": a repair that does not include published files
\* changes the checksum of none, not even of one published since its snapshot.
ProtectPublished ==
    [][\A i \in FileIds :
         ~repair.include /\ files[i].status = "published" /\ files'[i] = files[i]
           => sums'[i] = sums[i]]_rvars

\* What a publication commits is what it has verified: the checksum, if the row has one,
\* is that of the bytes, even if a repair rewrites it between the check and the commit.
PublishesVerified ==
    [][\A i \in FileIds :
         files[i].status # "published" /\ files'[i].status = "published" /\ sums[i] # NoSum
           => sums'[i] = bytes'[files[i].path].content]_rvars

\* "Large copies and hashes occur outside database transactions": while the repair holds
\* the write lock it has no file left to hash.
HashesOutsideTransaction == Locked => repair.pc # "load" \/ repair.changes = {}

\* A repair that ran to its end leaves no mismatch that it should have repaired on a row
\* that nobody touched meanwhile, whatever went wrong with other rows.
RepairsTheRest ==
    repair.pc = "done" /\ ~repair.dry =>
        \A i \in calm :
            \/ files[i].status = "published" /\ ~repair.include
            \/ Cardinality(Stored(files[i].path)) # 1
            \/ sums[i] = bytes[files[i].path].content
=============================================================================
