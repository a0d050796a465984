---------------------------- MODULE DiskReserve ----------------------------
(***************************************************************************)
(* The disk under the storage and backup roots, in units of bytes, and the *)
(* check every operation makes before it writes (ensure_free_space): the   *)
(* bytes it needs must be free and leave a reserve.  The check looks at    *)
(* what is free NOW, not at what operations already admitted will write.   *)
(*                                                                         *)
(* Uploads write while other requests run; a backup writes in a process of *)
(* its own; a crash leaves the bytes being written behind; the operator    *)
(* cleans up and starts the server again.  Which files these bytes belong  *)
(* to is the matter of FileLifecycle and Backups.                          *)
(***************************************************************************)
EXTENDS Integers, FiniteSets, Functions, SequencesExt

CONSTANTS
    Uploads,          \* upload requests that may run at once
    Capacity,         \* size of the disk under STORAGE_ROOT
    BackupCapacity,   \* size of the disk under BACKUP_ROOT, when that is another one
    SharedDisk,       \* whether the two roots may lie on one disk, of size Capacity
    Reserve,          \* STORAGE_MIN_FREE_BYTES
    BackupReserve,    \* BACKUP_MIN_FREE_BYTES
    MaxUpload,        \* MAX_UPLOAD_SIZE
    DatabaseSize,     \* the main file of the database
    MaxLog,           \* at most so much of its write-ahead log goes into the copy as well
    ManifestSize,     \* manifest, digest and configuration templates of a backup
    Keep,             \* BACKUP_RETENTION_COUNT
    MaxKills          \* bound: crashes of the server and killed backups

ASSUME SizeAssumption ==
    /\ {Capacity, BackupCapacity, Reserve, BackupReserve, MaxLog, MaxKills} \subseteq Nat
    /\ {MaxUpload, DatabaseSize, ManifestSize, Keep} \subseteq Nat \ {0}
    /\ SharedDisk \subseteq BOOLEAN
    /\ Reserve <= Capacity

\* A server holds so many requests at once.
ASSUME UploadAssumption == IsFiniteSet(Uploads) /\ Uploads # {}

VARIABLES
    shared,     \* the two roots lie on one disk
    up,         \* the server runs
    stored,     \* bytes of the files in quarantine and software, uploads under way aside
    upload,     \* per request: what it is writing
    deleting,   \* bytes staged by a permanent deletion that has not ended
    stale,      \* bytes of *.upload files whose request is gone
    residue,    \* bytes of staged deletions that were given up
    backups,    \* sizes of the published backups, oldest first
    backup,     \* the process that creates a backup
    lock,       \* the backup lock file exists
    debris,     \* bytes in hidden directories and in what a failed removal left of backups
    kills       \* crashes and kills so far

vars == <<shared, up, stored, upload, deleting, stale, residue, backups, backup, lock,
          debris, kills>>

storageVars == <<stored, upload, deleting, stale, residue>>
backupVars == <<backups, backup, lock, debris>>

DeleteOutcome == {"removed", "restored", "left"}

IdleUpload == [busy |-> FALSE, size |-> 0, done |-> 0]
IdleBackup == [pc |-> "idle", target |-> 0, done |-> 0, source |-> 0]

Init ==
    /\ shared \in SharedDisk
    /\ up = TRUE
    /\ stored = 0
    /\ upload = [u \in Uploads |-> IdleUpload]
    /\ deleting = 0
    /\ stale = 0
    /\ residue = 0
    /\ backups = <<>>
    /\ backup = IdleBackup
    /\ lock = FALSE
    /\ debris = 0
    /\ kills = 0

-----------------------------------------------------------------------------
(* Disk space. *)

Written(us) == SumFunctionOnSet([u \in Uploads |-> upload[u].done], us)
Settled == stored + deleting + stale + residue
OldBackups == debris + SumFunction(backups)
InBackups == OldBackups + backup.done

Free == Capacity - Settled - Written(Uploads) - (IF shared THEN InBackups ELSE 0)
BackupFree == IF shared THEN Free ELSE BackupCapacity - InBackups

\* Mutant: the reserve is forgotten.
EnsureRequiredOnly(free, required, reserve) == free >= required

\* ensure_free_space, with the two comparisons in one.
EnsureFree(free, required, reserve) == free >= required + reserve

\* StorageManager.initialize: at start-up, and before every storage command and backup.
Initialize == EnsureFree(Free, 0, Reserve)

\* The backup writes: the copy of the database first, then what the storage holds.
Copying == backup.pc \in {"database", "storage"}

-----------------------------------------------------------------------------
(* Requests of the server.  Deletions run on the event loop, one at a time. *)

\* An empty declared size counts as the largest one: "declared_size or max_upload_size".
Required(size) == IF size = 0 THEN MaxUpload ELSE size

AcceptUpload(u, size) ==
    /\ up
    /\ ~upload[u].busy
    /\ EnsureFree(Free, Required(size), Reserve)
    /\ upload' = [upload EXCEPT ![u] = [busy |-> TRUE, size |-> size, done |-> 0]]
    /\ UNCHANGED <<shared, up, stored, deleting, stale, residue, backupVars, kills>>

WriteChunk(u) ==
    /\ upload[u].busy
    /\ upload[u].done < upload[u].size
    /\ Free > 0
    /\ upload' = [upload EXCEPT ![u].done = @ + 1]
    /\ UNCHANGED <<shared, up, stored, deleting, stale, residue, backupVars, kills>>

\* What stays in quarantine, and what stays of the temporary file.
EndUpload(u, kept, left) ==
    /\ upload' = [upload EXCEPT ![u] = IdleUpload]
    /\ stored' = stored + kept
    /\ stale' = stale + left
    /\ UNCHANGED <<shared, up, deleting, residue, backupVars, kills>>

Complete(u) == upload[u].size > 0 /\ upload[u].done = upload[u].size

\* Scanned, moved into quarantine and recorded.
StoreUpload(u) ==
    /\ upload[u].busy
    /\ Complete(u)
    /\ EndUpload(u, upload[u].size, 0)

\* The disk is full, the file is empty or too large, or a later step fails: what was written
\* is unlinked, unless that fails too.  A complete file may be in quarantine by then.
FailUpload(u) ==
    /\ upload[u].busy
    /\ \/ EndUpload(u, 0, 0)
       \/ EndUpload(u, 0, upload[u].done)
       \/ Complete(u) /\ EndUpload(u, upload[u].done, 0)

\* permanently_delete moves the file below temporary/ ...
BeginDelete(size) ==
    /\ up
    /\ deleting = 0
    /\ size <= stored
    /\ stored' = stored - size
    /\ deleting' = size
    /\ UNCHANGED <<shared, up, upload, stale, residue, backupVars, kills>>

\* ... and unlinks it once the row is gone, or moves it back if that failed; when the
\* unlinking or the moving back fails, the bytes stay.
EndDelete(outcome) ==
    /\ deleting > 0
    /\ deleting' = 0
    /\ stored' = stored + (IF outcome = "restored" THEN deleting ELSE 0)
    /\ residue' = residue + (IF outcome = "left" THEN deleting ELSE 0)
    /\ UNCHANGED <<shared, up, upload, stale, backupVars, kills>>

-----------------------------------------------------------------------------
(* The server process and the storage command that cleans up. *)

\* An upload that was already being scanned leaves its file in quarantine, the others in
\* temporary storage.
Crash(scanned) ==
    /\ up
    /\ kills < MaxKills
    /\ \A u \in scanned : upload[u].done = upload[u].size
    /\ up' = FALSE
    /\ upload' = [u \in Uploads |-> IdleUpload]
    /\ stale' = stale + Written(Uploads \ scanned)
    /\ stored' = stored + Written(scanned)
    /\ deleting' = 0
    /\ residue' = residue + deleting
    /\ kills' = kills + 1
    /\ UNCHANGED <<shared, backupVars>>

Start ==
    /\ ~up
    /\ Initialize
    /\ up' = TRUE
    /\ UNCHANGED <<shared, storageVars, backupVars, kills>>

\* cleanup-temporary-files --apply, once the files are old enough.  Staged deletions are
\* not *.upload files: it passes over them.
CleanupTemporaryFiles ==
    /\ Initialize
    /\ stale > 0
    /\ stale' = 0
    /\ UNCHANGED <<shared, up, stored, upload, deleting, residue, backupVars, kills>>

-----------------------------------------------------------------------------
(* Backups. *)

\* create_backup initialises the storage before it asks for the lock.
StartBackup ==
    /\ backup.pc = "idle"
    /\ Initialize
    /\ backup' = [backup EXCEPT !.pc = "asking"]
    /\ UNCHANGED <<shared, up, storageVars, backups, lock, debris, kills>>

\* Mutant: the storage is not measured.
EstimateDatabase == DatabaseSize

\* The main file of the database and the files of the storage are measured, neither the log
\* that the copy takes in nor what is written about the backup.
EstimateSource == DatabaseSize + stored

\* Under the lock the source is measured; nobody stops it from growing afterwards: an upload
\* adds to it, and a deletion that fails puts back a file the measure did not see.
AdmitBackup ==
    /\ backup.pc = "asking"
    /\ ~lock
    /\ EnsureFree(BackupFree, EstimateSource, BackupReserve)
    /\ lock' = TRUE
    /\ \E log \in 0..MaxLog :
         backup' = [pc |-> "database", target |-> DatabaseSize + log, done |-> 0,
                    source |-> DatabaseSize + stored]
    /\ UNCHANGED <<shared, up, storageVars, backups, debris, kills>>

\* The database is copied, then what the storage holds by now, and the rest is written.
ListStorage ==
    /\ backup.pc = "database"
    /\ backup.done = backup.target
    /\ backup' = [backup EXCEPT !.pc = "storage", !.target = @ + stored + ManifestSize]
    /\ UNCHANGED <<shared, up, storageVars, backups, lock, debris, kills>>

CopyPiece ==
    /\ Copying
    /\ backup.done < backup.target
    /\ BackupFree > 0
    /\ backup' = [backup EXCEPT !.done = @ + 1]
    /\ UNCHANGED <<shared, up, storageVars, backups, lock, debris, kills>>

PublishBackup ==
    /\ backup.pc = "storage"
    /\ backup.done = backup.target
    /\ backups' = Append(backups, backup.done)
    /\ backup' = [IdleBackup EXCEPT !.pc = "retaining"]
    /\ UNCHANGED <<shared, up, storageVars, lock, debris, kills>>

\* cleanup-backups --apply: no storage command, so it runs below the reserve as well.
CleanupBackups ==
    /\ backup.pc = "idle"
    /\ ~lock
    /\ lock' = TRUE
    /\ backup' = [backup EXCEPT !.pc = "retaining"]
    /\ UNCHANGED <<shared, up, storageVars, backups, debris, kills>>

\* All but the newest.
Doomed == {i \in DOMAIN backups : i <= Len(backups) - Keep}

\* Retention removes one of them, or a part of it: what remains is no backup any more.  One
\* whose removal fails at once stays.
RemoveBackup(i) ==
    /\ backup.pc = "retaining"
    /\ i \in Doomed
    /\ backups' = RemoveAt(backups, i)
    /\ \E rest \in 0..backups[i] : debris' = debris + rest
    /\ UNCHANGED <<shared, up, storageVars, backup, lock, kills>>

EndRetention ==
    /\ backup.pc = "retaining"
    /\ backup' = IdleBackup
    /\ lock' = FALSE
    /\ UNCHANGED <<shared, up, storageVars, backups, debris, kills>>

\* Refused, or failed: the partial copy is removed as far as that goes (ignore_errors), and
\* the lock released if it was held.
FailBackup ==
    /\ backup.pc = "asking" \/ Copying
    /\ \E rest \in 0..backup.done : debris' = debris + rest
    /\ lock' = (lock /\ backup.pc = "asking")
    /\ backup' = IdleBackup
    /\ UNCHANGED <<shared, up, storageVars, backups, kills>>

\* A killed backup leaves its hidden directory and its lock; no command removes the former.
KillBackup ==
    /\ Copying \/ backup.pc = "retaining"
    /\ kills < MaxKills
    /\ debris' = debris + backup.done
    /\ backup' = IdleBackup
    /\ kills' = kills + 1
    /\ UNCHANGED <<shared, up, storageVars, backups, lock>>

\* The operator removes the lock of a backup that is gone.
RemoveStaleLock ==
    /\ lock
    /\ backup.pc \in {"idle", "asking"}
    /\ lock' = FALSE
    /\ UNCHANGED <<shared, up, storageVars, backups, backup, debris, kills>>

-----------------------------------------------------------------------------
BackupProgress ==
    \/ ListStorage
    \/ CopyPiece
    \/ PublishBackup
    \/ \E i \in DOMAIN backups : RemoveBackup(i)
    \/ EndRetention

Next ==
    \/ \E u \in Uploads :
          \/ \E size \in 0..MaxUpload : AcceptUpload(u, size)
          \/ WriteChunk(u)
          \/ StoreUpload(u)
          \/ FailUpload(u)
    \/ \E size \in 1..MaxUpload : BeginDelete(size)
    \/ \E outcome \in DeleteOutcome : EndDelete(outcome)
    \/ \E scanned \in SUBSET Uploads : Crash(scanned)
    \/ Start
    \/ CleanupTemporaryFiles
    \/ StartBackup
    \/ AdmitBackup
    \/ BackupProgress
    \/ FailBackup
    \/ KillBackup
    \/ RemoveStaleLock
    \/ CleanupBackups

Spec == Init /\ [][Next]_vars

\* What the schedule starts every night, the backup and the clean-up; a server that is down
\* is started again; a request or a backup that runs comes to its end.  Nobody is obliged to
\* delete a file, to make an upload, or to give the other commands.
Housekeeping ==
    /\ WF_vars(CleanupTemporaryFiles)
    /\ WF_vars(StartBackup)
    /\ WF_vars(Start)
    /\ WF_vars(AdmitBackup \/ BackupProgress \/ FailBackup)
    /\ \A u \in Uploads : WF_vars(WriteChunk(u) \/ StoreUpload(u) \/ FailUpload(u))
    /\ WF_vars(\E outcome \in DeleteOutcome : EndDelete(outcome))

FairSpec == Spec /\ Housekeeping

-----------------------------------------------------------------------------
(* Properties. *)

\* Types; and the disks are never asked for more than they have (_copy_stream, CopyPiece).
TypeOK ==
    /\ {shared, up} \subseteq BOOLEAN
    /\ {stored, deleting, stale, residue, debris} \subseteq Nat
    /\ upload \in [Uploads -> [busy : BOOLEAN, size : 0..MaxUpload, done : 0..MaxUpload]]
    /\ backups \in Seq(Nat)
    /\ backup.pc \in {"idle", "asking", "database", "storage", "retaining"}
    /\ {backup.done, backup.source} \subseteq Nat
    /\ backup.done <= backup.target
    /\ lock \in BOOLEAN
    /\ kills \in 0..MaxKills
    /\ Free >= 0
    /\ BackupFree >= 0

\* What uploads that were admitted beside one another take from the reserve at most: each was
\* checked against the free space without what the others had still to write.
Overlap == (Cardinality(Uploads) - 1) * MaxUpload

\* What the storage leaves of its disk once the uploads under way are complete.
Announced == SumFunctionOnSet([u \in Uploads |-> upload[u].size], Uploads)
Room == Capacity - Settled - Announced

\* "a reserve that must remain afterward" (ensure_free_space), one upload at a time; together
\* they take no more of it than all of them but one, whatever crashes and failures left
\* behind, and however often they did so.  Backups on the same disk are not counted.
UploadsLeaveReserve == Room >= Reserve - Overlap

\* A backup finds room for the database and the files there were when it was admitted, and
\* for its reserve, whatever killed backups and a failed retention left.  On a shared disk
\* the uploads beside it take theirs, or one that was admitted later has seen what it wrote.
BackupLeavesReserve ==
    Copying =>
        IF shared
        THEN \/ Room - OldBackups >= BackupReserve + backup.source - Overlap - MaxUpload
             \/ Room - OldBackups >= Reserve - Overlap
        ELSE BackupCapacity - OldBackups >= BackupReserve + backup.source

\* "Free space by applying reviewed retention and temporary cleanup": when retention has nothing
\* left to remove and abandoned uploads are what keeps the disk below its reserve, the
\* clean-up brings it back.
CleanupRestoresReserve ==
    (Doomed = {} /\ Free < Reserve /\ Free + stale >= Reserve) ~> Free >= Reserve
=============================================================================
