--------------------------- MODULE BackupSnapshot --------------------------
(***************************************************************************)
(* _populate_backup beside the live application: an online copy of the     *)
(* database, then a walk over the storage areas that lists a directory and *)
(* copies its files one by one.                                            *)
(***************************************************************************)
EXTENDS FileLifecycle, Sequences

VARIABLE backup     \* [pc, rows, todo, pending, got] of create_backup; ghost: sound, the
                    \* rows whose file was where it should be when the table was copied

bvars == <<files, store, used, req, alarms, backup>>

IdleBackup == [pc |-> "idle", rows |-> {}, sound |-> {}, todo |-> {}, pending |-> {},
               got |-> {}]

BInit == Init /\ backup = IdleBackup

\* Mutant: storage first.
StorageFirst == <<"storage", "database">>

\* The parts of a backup in the order _populate_backup takes them.
Order == <<"database", "storage">>

After(part) == IF part = Order[1] THEN Order[2] ELSE "done"

Begin ==
    /\ backup.pc = "idle"
    /\ backup' = [IdleBackup EXCEPT !.pc = Order[1], !.todo = StorageArea]
    /\ UNCHANGED vars

TableRows == {files[i] : i \in FileIds} \ {NoRow}

InOnePlace(row) == \E a \in AreaAllowed(row.status) : store[row.path] = {a}

BackupSqlite ==
    /\ backup.pc = "database"
    /\ backup' = [backup EXCEPT !.pc = After("database"),
                                !.rows = TableRows,
                                !.sound = {row \in TableRows : InOnePlace(row)}]
    /\ UNCHANGED vars

\* Temporary files, staged deletions among them, are excluded.
ListArea(a) ==
    /\ backup.pc = "storage"
    /\ backup.pending = {}
    /\ a \in backup.todo
    /\ backup' = [backup EXCEPT !.todo = @ \ {a},
                                !.pending = {<<p, a>> : p \in {q \in Paths : a \in store[q]}}]
    /\ UNCHANGED vars

\* A file that has left its place meanwhile fails the whole backup.
CopyFile(p, a) ==
    /\ backup.pc = "storage"
    /\ <<p, a>> \in backup.pending
    /\ backup' = IF a \in store[p]
                 THEN [backup EXCEPT !.pending = @ \ {<<p, a>>}, !.got = @ \cup {<<p, a>>}]
                 ELSE IdleBackup
    /\ UNCHANGED vars

StorageCopied ==
    /\ backup.pc = "storage"
    /\ backup.todo = {} /\ backup.pending = {}
    /\ backup' = [backup EXCEPT !.pc = After("storage")]
    /\ UNCHANGED vars

Finish ==
    /\ backup.pc = "done"
    /\ backup' = IdleBackup
    /\ UNCHANGED vars

BackupStep ==
    \/ Begin \/ BackupSqlite \/ StorageCopied \/ Finish
    \/ \E a \in StorageArea : ListArea(a) \/ \E p \in Paths : CopyFile(p, a)

BNext == BackupStep \/ (Next /\ UNCHANGED backup)

BSpec == BInit /\ [][BNext]_bvars

\* A backup is as consistent as the site was: the bytes of a row lie in it exactly once,
\* where the status of the row expects them, if they did so when _backup_sqlite copied the
\* table, however long the walk over the files took.
BackupConsistent ==
    backup.pc = "done" => \A row \in backup.sound :
        \E a \in AreaAllowed(row.status) :
            {b \in StorageArea : <<row.path, b>> \in backup.got} = {a}
=============================================================================
