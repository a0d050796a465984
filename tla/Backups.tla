------------------------------ MODULE Backups ------------------------------
(***************************************************************************)
(* BackupService: create, retain and restore whole-site backups from the   *)
(* CLI, under one O_EXCL lock file.                                        *)
(*                                                                         *)
(* Contents are abstracted to generations: the application turns           *)
(* generation n of database and storage into n + 1.  A restore replaces    *)
(* storage, database and write-ahead log by renames, one step each;        *)
(* between any two of them it may fail, be interrupted or be killed.       *)
(***************************************************************************)
EXTENDS Naturals, FiniteSets

CONSTANTS
    Procs,        \* CLI processes
    MaxBackup,    \* bound: backups ever made
    MaxGen,       \* bound: generations of the live data
    Keep,         \* backup_retention_count
    CleanServer,  \* start with a copied backup and no live data
    Faults        \* the failures that may happen

FaultKind == {"step", "undo", "rmtree", "interrupt", "crash"}

ASSUME BackupAssumption ==
    /\ {MaxBackup, MaxGen, Keep} \subseteq Nat \ {0}
    /\ CleanServer \in BOOLEAN
    /\ Faults \subseteq FaultKind

VARIABLES
    live,      \* generations of the live paths; 0: absent or empty
    backups,   \* backup -> directory below backup_root
    made,      \* backups published so far, in the order of created_at
    lock,      \* the lock file exists
    proc,      \* what each process is doing, and the paths only it names
    left,      \* which wanted paths a process that is gone left behind as a rollback copy
    gen,       \* generations so far
    want,      \* what the live paths should hold: the last write or finished restore
    damaged    \* why a restore has not finished: no, killed, or undo (its compensation
               \* failed or was interrupted)

vars == <<live, backups, made, lock, proc, left, gen, want, damaged>>

Ids == 1..MaxBackup
Gens == 0..MaxGen
Partial == MaxGen + 1       \* a directory tree of which some files are gone
Trees == Gens \cup {Partial}

Paths == [db : Gens, wal : Gens, storage : Trees]
Backup == [state : {"none", "complete", "partial"}, db : Gens, storage : Trees]
NoBackup == [state |-> "none", db |-> 0, storage |-> 0]

\* making: create_backup is running, on its own or for the safety backup of a restore;
\* stage: the private copy being made; roll: the live paths moved aside.
RestorePc == {"stage", "storageAside", "storageIn", "mainAside", "walAside", "dbIn",
              "migrate"}
UndoPc == {"unlinkDb", "dbBack", "clearStorage", "storageBack"}
Pc == {"idle", "lock", "copyDb", "copyStorage", "publish", "list", "delete", "rmtree",
       "finally", "safetyDone", "release"} \cup RestorePc \cup UndoPc
Proc == [pc : Pc, op : {"none", "create", "retention", "restore"}, id : Ids \cup {0},
         making : BOOLEAN, stage : Paths, roll : Paths, doomed : SUBSET Ids,
         storageReplaced : BOOLEAN, databaseReplaced : BOOLEAN]

Nothing == [db |-> 0, wal |-> 0, storage |-> 0]
IdleProc == [pc |-> "idle", op |-> "none", id |-> 0, making |-> FALSE,
             stage |-> Nothing, roll |-> Nothing, doomed |-> {},
             storageReplaced |-> FALSE, databaseReplaced |-> FALSE]

First == [db |-> 1, wal |-> 0, storage |-> 1]

Init ==
    /\ live = IF CleanServer THEN Nothing ELSE First
    /\ backups = [b \in Ids |-> IF CleanServer /\ b = 1
                                THEN [state |-> "complete", db |-> 1, storage |-> 1]
                                ELSE NoBackup]
    /\ made = IF CleanServer THEN 1 ELSE 0
    /\ lock = FALSE
    /\ proc = [p \in Procs |-> IdleProc]
    /\ left = {}
    /\ gen = 1
    /\ want = live
    /\ damaged = "no"

Become(p, r) == proc' = [proc EXCEPT ![p] = r]
Goto(p, pc) == Become(p, [proc[p] EXCEPT !.pc = pc])
Complete(b) == backups[b].state = "complete"

-----------------------------------------------------------------------------
(* The application, and the commands *)

\* The application runs unless a restore does; it may leave a write-ahead log.
AppWrite ==
    /\ gen < MaxGen
    /\ live = want /\ live.db # 0
    /\ \A p \in Procs : proc[p].op # "restore"
    /\ gen' = gen + 1
    /\ \E wal \in {0, gen + 1} : live' = [db |-> gen + 1, wal |-> wal, storage |-> gen + 1]
    /\ want' = live'
    /\ left' = {}
    /\ UNCHANGED <<backups, made, lock, proc, damaged>>

StartCreate(p) ==
    /\ proc[p].pc = "idle"
    /\ made < MaxBackup
    /\ Become(p, [IdleProc EXCEPT !.pc = "lock", !.op = "create", !.making = TRUE])
    /\ UNCHANGED <<live, backups, made, lock, left, gen, want, damaged>>

StartRetention(p) ==
    /\ proc[p].pc = "idle"
    /\ Become(p, [IdleProc EXCEPT !.pc = "lock", !.op = "retention"])
    /\ UNCHANGED <<live, backups, made, lock, left, gen, want, damaged>>

\* Mutant: the directory is only looked up.
StartUnverified(p, b, safety) ==
    /\ proc[p].pc = "idle"
    /\ backups[b].state # "none"
    /\ safety => made < MaxBackup
    /\ Become(p, [IdleProc EXCEPT !.pc = "lock", !.op = "restore", !.id = b,
                                  !.making = safety])
    /\ UNCHANGED <<live, backups, made, lock, left, gen, want, damaged>>

\* verify_backup comes first, outside the lock.
StartRestore(p, b, safety) ==
    /\ proc[p].pc = "idle"
    /\ Complete(b)
    /\ safety => made < MaxBackup
    /\ Become(p, [IdleProc EXCEPT !.pc = "lock", !.op = "restore", !.id = b,
                                  !.making = safety])
    /\ UNCHANGED <<live, backups, made, lock, left, gen, want, damaged>>

-----------------------------------------------------------------------------
(* _operation_lock *)

AfterLock(r) ==
    CASE r.making -> "copyDb"
      [] ~r.making /\ r.op = "retention" -> "list"
      [] OTHER -> "stage"

Acquire(p) ==
    /\ proc[p].pc = "lock"
    /\ ~lock
    /\ lock' = TRUE
    /\ Goto(p, AfterLock(proc[p]))
    /\ UNCHANGED <<live, backups, made, left, gen, want, damaged>>

\* Mutant: the finally block unlinks the lock file of another process.
RefusedUnlinks(p) ==
    /\ proc[p].pc = "lock"
    /\ lock
    /\ lock' = FALSE
    /\ Become(p, IdleProc)
    /\ UNCHANGED <<live, backups, made, left, gen, want, damaged>>

\* "Another backup or restore operation is already running."
Refused(p) ==
    /\ proc[p].pc = "lock"
    /\ lock
    /\ Become(p, IdleProc)
    /\ UNCHANGED <<live, backups, made, lock, left, gen, want, damaged>>

\* Mutant: the safety backup leaves its lock to the restore.
ReleaseOnce(p) ==
    /\ proc[p].pc \in {"release", "safetyDone"}
    /\ lock' = (proc[p].pc = "safetyDone")
    /\ Become(p, IF proc[p].pc = "safetyDone"
                 THEN [proc[p] EXCEPT !.pc = "lock", !.making = FALSE] ELSE IdleProc)
    /\ UNCHANGED <<live, backups, made, left, gen, want, damaged>>

\* A restore whose safety backup is done goes on to take the lock again.
Release(p) ==
    /\ proc[p].pc \in {"release", "safetyDone"}
    /\ lock' = FALSE
    /\ Become(p, IF proc[p].pc = "safetyDone"
                 THEN [proc[p] EXCEPT !.pc = "lock", !.making = FALSE] ELSE IdleProc)
    /\ UNCHANGED <<live, backups, made, left, gen, want, damaged>>

-----------------------------------------------------------------------------
(* create_backup *)

\* The temporary directory is removed and the error raised, a safety backup's too.
CreateFails(p) ==
    /\ \/ proc[p].pc = "copyDb" /\ live.db = 0
       \/ proc[p].pc \in {"copyDb", "copyStorage", "publish"} /\ "step" \in Faults
    /\ Become(p, [proc[p] EXCEPT !.pc = "release", !.stage = Nothing])
    /\ UNCHANGED <<live, backups, made, lock, left, gen, want, damaged>>

\* _backup_sqlite: the online backup sees database and write-ahead log as one.
CopyDb(p) ==
    /\ proc[p].pc = "copyDb"
    /\ live.db # 0
    /\ Become(p, [proc[p] EXCEPT !.pc = "copyStorage", !.stage.db = live.db])
    /\ UNCHANGED <<live, backups, made, lock, left, gen, want, damaged>>

CopyStorage(p) ==
    /\ proc[p].pc = "copyStorage"
    /\ Become(p, [proc[p] EXCEPT !.pc = "publish", !.stage.storage = live.storage])
    /\ UNCHANGED <<live, backups, made, lock, left, gen, want, damaged>>

\* Manifest, verification and the rename; an fsync error after the rename is raised
\* although the backup is visible.
Publish(p) ==
    LET r == proc[p]
        done == IF r.op = "create" THEN "list" ELSE "safetyDone"
    IN  /\ r.pc = "publish"
        /\ made < MaxBackup
        /\ made' = made + 1
        /\ backups' = [backups EXCEPT ![made + 1] =
             [state |-> "complete", db |-> r.stage.db, storage |-> r.stage.storage]]
        /\ \E pc \in {done} \cup (IF "step" \in Faults THEN {"release"} ELSE {}) :
             Become(p, [r EXCEPT !.pc = pc, !.stage = Nothing])
        /\ UNCHANGED <<live, lock, left, gen, want, damaged>>

-----------------------------------------------------------------------------
(* apply_retention, on its own or at the end of create_backup *)

Newer(b) == {c \in Ids : c > b /\ Complete(c)}

\* Mutant: one backup too few is kept.
DoomedOneMore == {b \in Ids : Complete(b) /\ Cardinality(Newer(b)) + 1 >= Keep}

\* list_backups: every directory that verifies, newest first, without the first Keep.
Doomed == {b \in Ids : Complete(b) /\ Cardinality(Newer(b)) >= Keep}

ListBackups(p) ==
    /\ proc[p].pc = "list"
    /\ Become(p, [proc[p] EXCEPT !.pc = "delete", !.doomed = Doomed])
    /\ UNCHANGED <<live, backups, made, lock, left, gen, want, damaged>>

\* rmtree takes the next directory apart, then it is gone or rmtree gives up on it.
BeginDelete(p, b) ==
    /\ proc[p].pc = "delete"
    /\ b \in proc[p].doomed /\ \A c \in proc[p].doomed : c <= b
    /\ backups' = [backups EXCEPT ![b].state = "partial"]
    /\ Become(p, [proc[p] EXCEPT !.pc = "rmtree", !.id = b, !.doomed = @ \ {b}])
    /\ UNCHANGED <<live, made, lock, left, gen, want, damaged>>

EndDelete(p) ==
    /\ proc[p].pc = "rmtree"
    /\ \/ backups' = [backups EXCEPT ![proc[p].id] = NoBackup]
       \/ "rmtree" \in Faults /\ UNCHANGED backups
    /\ Goto(p, "delete")
    /\ UNCHANGED <<live, made, lock, left, gen, want, damaged>>

RetentionDone(p) ==
    /\ proc[p].pc = "delete"
    /\ proc[p].doomed = {}
    /\ Goto(p, "release")
    /\ UNCHANGED <<live, backups, made, lock, left, gen, want, damaged>>

-----------------------------------------------------------------------------
(* _restore_verified_backup *)

\* The copies beside the live paths; the database is checked, the storage is not
\* compared with the manifest again.  A directory that is gone is an error, one that
\* is partly gone may or may not be.
Stage(p) ==
    LET b == backups[proc[p].id]
        tree == IF b.state = "partial" THEN Partial ELSE b.storage
    IN  /\ proc[p].pc = "stage"
        /\ \/ /\ b.state # "none"
              /\ Become(p, [proc[p] EXCEPT !.pc = "storageAside", !.stage.db = b.db,
                                           !.stage.storage = tree])
           \/ b.state # "complete" /\ Goto(p, "unlinkDb")
        /\ UNCHANGED <<live, backups, made, lock, left, gen, want, damaged>>

StorageAside(p) ==
    /\ proc[p].pc = "storageAside"
    /\ live' = [live EXCEPT !.storage = 0]
    /\ Become(p, [proc[p] EXCEPT !.pc = "storageIn", !.roll.storage = live.storage])
    /\ UNCHANGED <<backups, made, lock, left, gen, want, damaged>>

StorageIn(p) ==
    /\ proc[p].pc = "storageIn"
    /\ live' = [live EXCEPT !.storage = proc[p].stage.storage]
    /\ Become(p, [proc[p] EXCEPT !.pc = "mainAside", !.stage.storage = 0,
                                 !.storageReplaced = TRUE])
    /\ UNCHANGED <<backups, made, lock, left, gen, want, damaged>>

\* _move_database_aside: the main file, then its write-ahead log.
MainAside(p) ==
    /\ proc[p].pc = "mainAside"
    /\ live' = [live EXCEPT !.db = 0]
    /\ Become(p, [proc[p] EXCEPT !.pc = "walAside", !.roll.db = live.db])
    /\ UNCHANGED <<backups, made, lock, left, gen, want, damaged>>

\* Mutant: only the main file is moved aside.
WalStays(p) ==
    /\ proc[p].pc = "walAside"
    /\ Goto(p, "dbIn")
    /\ UNCHANGED <<live, backups, made, lock, left, gen, want, damaged>>

WalAside(p) ==
    /\ proc[p].pc = "walAside"
    /\ live' = [live EXCEPT !.wal = 0]
    /\ Become(p, [proc[p] EXCEPT !.pc = "dbIn", !.roll.wal = live.wal])
    /\ UNCHANGED <<backups, made, lock, left, gen, want, damaged>>

DbIn(p) ==
    /\ proc[p].pc = "dbIn"
    /\ live' = [live EXCEPT !.db = proc[p].stage.db]
    /\ Become(p, [proc[p] EXCEPT !.pc = "migrate", !.stage.db = 0,
                                 !.databaseReplaced = TRUE])
    /\ UNCHANGED <<backups, made, lock, left, gen, want, damaged>>

\* Migration and integrity check succeed: the old paths are removed.  A migration, failed
\* or not, closes its connection, and SQLite then removes the log it wrote.
Migrate(p) ==
    /\ proc[p].pc = "migrate"
    /\ Become(p, [proc[p] EXCEPT !.pc = "finally", !.roll = Nothing])
    /\ want' = live
    /\ left' = {}
    /\ damaged' = "no"
    /\ UNCHANGED <<live, backups, made, lock, gen>>

-----------------------------------------------------------------------------
(* Its except and finally clauses *)

RestoreFails(p) ==
    /\ proc[p].pc \in RestorePc
    /\ "step" \in Faults
    /\ Goto(p, "unlinkDb")
    /\ UNCHANGED <<live, backups, made, lock, left, gen, want, damaged>>

\* An exception inside the except clause, or a KeyboardInterrupt, which it does not
\* catch: the finally clause is next.
UndoFails(p) ==
    /\ \/ proc[p].pc \in UndoPc \ {"clearStorage"} /\ "undo" \in Faults
       \/ proc[p].pc \in RestorePc \cup UndoPc /\ "interrupt" \in Faults
    /\ Goto(p, "finally")
    /\ damaged' = "undo"
    /\ UNCHANGED <<live, backups, made, lock, left, gen, want>>

UnlinkDb(p) ==
    /\ proc[p].pc = "unlinkDb"
    /\ live' = [live EXCEPT !.db = IF proc[p].databaseReplaced THEN 0 ELSE @]
    /\ Goto(p, "dbBack")
    /\ UNCHANGED <<backups, made, lock, left, gen, want, damaged>>

\* Mutant: the rollback directory of the database is not emptied.
DbStaysAside(p) ==
    /\ proc[p].pc = "dbBack"
    /\ Goto(p, "clearStorage")
    /\ UNCHANGED <<live, backups, made, lock, left, gen, want, damaged>>

\* _restore_database_rollback: the files of the rollback directory, in any order.
DbBack(p) ==
    LET r == proc[p]
    IN  /\ r.pc = "dbBack"
        /\ \/ /\ r.roll.db # 0
              /\ live' = [live EXCEPT !.db = r.roll.db]
              /\ Become(p, [r EXCEPT !.roll.db = 0])
           \/ /\ r.roll.wal # 0
              /\ live' = [live EXCEPT !.wal = r.roll.wal]
              /\ Become(p, [r EXCEPT !.roll.wal = 0])
           \/ /\ r.roll.db = 0 /\ r.roll.wal = 0
              /\ Goto(p, "clearStorage")
              /\ UNCHANGED live
        /\ UNCHANGED <<backups, made, lock, left, gen, want, damaged>>

\* rmtree of the restored storage ignores its errors, and so may leave a part of it.
ClearStorage(p) ==
    LET Clear(rest) == live' = [live EXCEPT !.storage =
                                  IF proc[p].storageReplaced THEN rest ELSE @]
    IN  /\ proc[p].pc = "clearStorage"
        /\ \/ Clear(0) /\ UNCHANGED damaged
           \/ /\ "undo" \in Faults /\ proc[p].storageReplaced
              /\ Clear(Partial) /\ damaged' = "undo"
        /\ Goto(p, "storageBack")
        /\ UNCHANGED <<backups, made, lock, left, gen, want>>

\* Mutant: the storage that was moved aside is left there.
StorageStaysAside(p) ==
    /\ proc[p].pc = "storageBack"
    /\ Goto(p, "finally")
    /\ UNCHANGED <<live, backups, made, lock, left, gen, want, damaged>>

\* A directory cannot be renamed onto one that still has files.
StorageBack(p) ==
    LET r == proc[p]
        moved == r.roll.storage # 0
    IN  /\ r.pc = "storageBack"
        /\ IF moved /\ live.storage # 0
           THEN /\ Goto(p, "finally")
                /\ damaged' = "undo"
                /\ UNCHANGED live
           ELSE /\ live' = [live EXCEPT !.storage = IF moved THEN r.roll.storage ELSE @]
                /\ Become(p, [r EXCEPT !.pc = "finally", !.roll.storage = 0])
                /\ UNCHANGED damaged
        /\ UNCHANGED <<backups, made, lock, left, gen, want>>

Copies(kinds, roll) == {k \in kinds : roll[k] # 0 /\ roll[k] = want[k]}

\* Stages and the database rollback are removed whatever happened; a storage
\* rollback stays.
Finally(p) ==
    /\ proc[p].pc = "finally"
    /\ left' = left \cup Copies({"storage"}, proc[p].roll)
    /\ Become(p, [proc[p] EXCEPT !.pc = "release", !.stage = Nothing, !.roll = Nothing])
    /\ UNCHANGED <<live, backups, made, lock, gen, want, damaged>>

-----------------------------------------------------------------------------

\* A process is killed: its files and its lock stay.
Crash(p) ==
    LET r == proc[p]
    IN  /\ "crash" \in Faults
        /\ r.pc # "idle"
        /\ left' = left \cup Copies({"db", "storage"}, r.roll)
        /\ damaged' = IF damaged = "no" /\ r.pc \in RestorePc \cup UndoPc
                      THEN "killed" ELSE damaged
        /\ Become(p, IdleProc)
        /\ UNCHANGED <<live, backups, made, lock, gen, want>>

\* The operator removes a stale lock once no process is alive.
RemoveStaleLock ==
    /\ lock
    /\ \A p \in Procs : proc[p].pc = "idle"
    /\ lock' = FALSE
    /\ UNCHANGED <<live, backups, made, proc, left, gen, want, damaged>>

ProcStep(p) ==
    \/ Acquire(p) \/ Refused(p) \/ Release(p)
    \/ CreateFails(p) \/ CopyDb(p) \/ CopyStorage(p) \/ Publish(p)
    \/ ListBackups(p) \/ EndDelete(p) \/ RetentionDone(p)
    \/ \E b \in Ids : BeginDelete(p, b)
    \/ Stage(p) \/ StorageAside(p) \/ StorageIn(p) \/ MainAside(p) \/ WalAside(p)
    \/ DbIn(p) \/ Migrate(p) \/ RestoreFails(p) \/ UndoFails(p) \/ UnlinkDb(p)
    \/ DbBack(p) \/ ClearStorage(p) \/ StorageBack(p) \/ Finally(p)

Next ==
    \/ AppWrite \/ RemoveStaleLock
    \/ \E p \in Procs :
         \/ StartCreate(p) \/ StartRetention(p) \/ ProcStep(p) \/ Crash(p)
         \/ \E b \in Ids, safety \in BOOLEAN : StartRestore(p, b, safety)

Spec == Init /\ [][Next]_vars

\* A command that was started runs to its end.
FairSpec == Spec /\ \A p \in Procs : WF_vars(ProcStep(p))

-----------------------------------------------------------------------------
(* Properties *)

\* Every variable has its type; the live database, unlike a tree of files, is never a
\* part of one.
TypeOK ==
    /\ live \in Paths /\ want \in Paths
    /\ backups \in [Ids -> Backup]
    /\ made \in 0..MaxBackup
    /\ lock \in BOOLEAN /\ damaged \in {"no", "killed", "undo"}
    /\ proc \in [Procs -> Proc]
    /\ left \subseteq {"db", "storage"}
    /\ gen \in 1..MaxGen

Locked(p) == proc[p].pc \notin {"idle", "lock"}

\* The lock file excludes: never do two commands copy, delete or restore at a time,
\* although each removes the file when it ends and crashes leave it behind.
LockExclusive == \A p, q \in Procs : Locked(p) /\ Locked(q) => p = q /\ lock

\* Retention never takes one of the Keep newest verified backups.
RetentionKeeps ==
    [][\A b \in Ids : Complete(b) /\ backups'[b].state # "complete"
         => Cardinality(Newer(b)) >= Keep]_vars

\* A live database never lies beside the write-ahead log of another one, which SQLite
\* would replay into it.
WalMatches == live.db # 0 /\ live.wal # 0 => live.wal = live.db

\* A restore that is over has either replaced database, log and storage or put all of
\* them back, whichever of its steps failed.
RestoreAllOrNothing ==
    (damaged = "no" /\ \A p \in Procs : proc[p].op # "restore" \/ ~Locked(p)) => live = want

StorageKept ==
    \/ want.storage \in {0, live.storage}
    \/ \E p \in Procs : proc[p].roll.storage = want.storage
    \/ "storage" \in left

DatabaseKept ==
    \/ want.db \in {0, live.db}
    \/ \E p \in Procs : proc[p].roll.db = want.db
    \/ "db" \in left

\* Until a restore has succeeded, what it replaces still exists, if there was anything: in
\* place, moved aside or left behind.  The storage survives whatever fails, the database
\* every kill, and every failure that the except clause could compensate.
DataSurvives == StorageKept /\ (damaged # "undo" => DatabaseKept)

\* The same for the database, whatever fails, if need be in a complete backup.
DatabaseSurvives == DatabaseKept \/ \E b \in Ids : Complete(b) /\ backups[b].db = want.db

\* No restore reports success with the storage of a backup that was taken apart, before
\* its verification or after.
RestoresWholeBackup == want.storage # Partial

\* A restore of a verified backup, alone and without faults, succeeds: it finds neither its
\* own lock nor the want of a database in its way, and comes to its end.
RestoreSucceeds ==
    \A p \in Procs, g \in 1..MaxGen :
        (proc[p].op = "restore" /\ backups[proc[p].id].db = g) ~> (want.db = g)
=============================================================================
