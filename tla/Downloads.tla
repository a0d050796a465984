----------------------------- MODULE Downloads -----------------------------
(***************************************************************************)
(* DownloadService.authorize beside the administrators of FileLifecycle:   *)
(* a row is read and checked, the file located, the start counted, and     *)
(* only then does Nginx open the path of the grant.  Four steps, and the   *)
(* row may be disabled, deleted or its id given out again between them.    *)
(***************************************************************************)
EXTENDS FileLifecycle, FiniteSetsExt

CONSTANTS
    Readers,   \* downloads
    MaxDay,    \* bound: the last day
    MaxCount   \* bound: attempts counted for one row

ASSUME DownloadAssumption == {MaxDay, MaxCount} \subseteq Nat \ {0}

VARIABLES
    chain,     \* of release and software: admit downloads at all, to the public
    stats,     \* row id -> ReleaseFile.download_count and the rows of download_stats
    day,       \* the UTC date
    reader,    \* reader -> its request
    shown,     \* paths that have ever been published (for the properties)
    served     \* paths of which Nginx has sent bytes (for the properties)

dvars == <<files, store, used, req, alarms, chain, stats, day, reader, shown, served>>

Days == 1..MaxDay
NoStats == [total |-> 0, started |-> [d \in Days |-> 0], blocked |-> [d \in Days |-> 0]]
IdleReader == [pc |-> "idle", id |-> 0, path |-> NoPath, count |-> FALSE]

DInit ==
    /\ Init
    /\ chain = [open |-> FALSE, listed |-> FALSE]
    /\ stats = [i \in FileIds |-> NoStats]
    /\ day = 1
    /\ reader = [r \in Readers |-> IdleReader]
    /\ shown = {} /\ served = {}

Attempts(i) == stats[i].total
                 + MapThenSumSet(LAMBDA d : stats[i].blocked[d], Days)

ReaderBecomes(r, new) == reader' = [reader EXCEPT ![r] = new]

-----------------------------------------------------------------------------
(* DownloadService.authorize *)

\* Mutant: the chain of release and software is checked, the file's own status is not.
ChainOnly(row, isAdmin) == chain.open /\ (isAdmin \/ chain.listed)

CanDownloadFile(row, isAdmin) ==
    row.status = "published" /\ chain.open /\ (isAdmin \/ chain.listed)

\* SELECT by public_uuid, which belongs to one upload as its path does; count: a GET.
Authorize(r, i, isAdmin, sameName, count) ==
    /\ reader[r].pc = "idle"
    /\ files[i] # NoRow
    /\ ReaderBecomes(r, [id |-> i, path |-> files[i].path, count |-> count,
         pc |-> IF sameName /\ CanDownloadFile(files[i], isAdmin) THEN "locate" ELSE "blocked"])
    /\ UNCHANGED <<vars, chain, stats, day, shown, served>>

\* locate_stored_file; a 404 unless the one place is the software area and the size
\* there is that of the row.
LocateDownload(r) ==
    LET q == reader[r]
    IN  /\ q.pc = "locate"
        /\ \/ /\ store[q.path] \cap StorageArea = {"software"}
              /\ ReaderBecomes(r, [q EXCEPT !.pc = IF q.count THEN "count" ELSE "grant"])
           \/ ReaderBecomes(r, IdleReader)
        /\ UNCHANGED <<vars, chain, stats, day, shown, served>>

\* record_authorized_start; the foreign key refuses a row that is gone, and any
\* database error refuses the download.
RecordAuthorizedStart(r) ==
    LET q == reader[r]
    IN  /\ q.pc = "count"
        /\ \/ /\ files[q.id] # NoRow
              /\ Attempts(q.id) < MaxCount
              /\ stats' = [stats EXCEPT ![q.id].total = @ + 1, ![q.id].started[day] = @ + 1]
              /\ ReaderBecomes(r, [q EXCEPT !.pc = "grant"])
           \/ /\ files[q.id] = NoRow \/ "db" \in Faults
              /\ ReaderBecomes(r, IdleReader)
              /\ UNCHANGED stats
        /\ UNCHANGED <<vars, chain, day, shown, served>>

\* record_blocked; its errors are logged and dropped.
RecordBlocked(r) ==
    LET q == reader[r]
    IN  /\ q.pc = "blocked"
        /\ \/ /\ files[q.id] # NoRow
              /\ Attempts(q.id) < MaxCount
              /\ stats' = [stats EXCEPT ![q.id].blocked[day] = @ + 1]
           \/ /\ files[q.id] = NoRow \/ "db" \in Faults
              /\ UNCHANGED stats
        /\ ReaderBecomes(r, IdleReader)
        /\ UNCHANGED <<vars, chain, day, shown, served>>

\* Nginx follows X-Accel-Redirect below the software root.
NginxServes(r) ==
    LET q == reader[r]
    IN  /\ q.pc = "grant"
        /\ served' = IF q.count /\ "software" \in store[q.path]
                     THEN served \cup {q.path} ELSE served
        /\ ReaderBecomes(r, IdleReader)
        /\ UNCHANGED <<vars, chain, stats, day, shown>>

-----------------------------------------------------------------------------
(* Around it *)

\* Mutant: the statistics of a deleted file stay.
KeptStats == [i \in FileIds |->
    IF files'[i] = NoRow THEN [stats[i] EXCEPT !.total = 0] ELSE stats[i]]

\* ON DELETE CASCADE takes the statistics of a deleted row along; a new row starts at 0.
CascadedStats == [i \in FileIds |-> IF files'[i] = NoRow THEN NoStats ELSE stats[i]]

Administration ==
    /\ Next
    /\ stats' = CascadedStats
    /\ shown' = shown \cup {files'[i].path : i \in {j \in FileIds :
                                                      files'[j].status = "published"}}
    /\ UNCHANGED <<chain, day, reader, served>>

\* Release or software is published, archived, hidden or disabled, or its visibility set.
ChainChanges ==
    /\ \E open, listed \in BOOLEAN : chain' = [open |-> open, listed |-> listed]
    /\ UNCHANGED <<vars, stats, day, reader, shown, served>>

Midnight ==
    /\ day < MaxDay
    /\ day' = day + 1
    /\ UNCHANGED <<vars, chain, stats, reader, shown, served>>

DNext ==
    \/ Administration \/ ChainChanges \/ Midnight
    \/ \E r \in Readers :
         \/ \E i \in FileIds, isAdmin, sameName, count \in BOOLEAN :
              Authorize(r, i, isAdmin, sameName, count)
         \/ LocateDownload(r) \/ RecordAuthorizedStart(r) \/ RecordBlocked(r)
         \/ NginxServes(r)

DSpec == DInit /\ [][DNext]_dvars

-----------------------------------------------------------------------------
(* Properties *)

\* The total of a file is the sum of its days, also for a file that was given the row id
\* of one deleted while a download of it was under way.
CountersAgree ==
    \A i \in FileIds :
        stats[i].total = MapThenSumSet(LAMBDA d : stats[i].started[d], Days)

\* Nginx never sends a file that was not published before, nor one that the scanner or
\* its signature condemn, although publications put it below the software root before
\* they commit and may be rolled back.
ServesOnlyPublished ==
    \A p \in served :
        /\ p \in shown
        /\ \A i \in FileIds : files[i].path = p =>
             files[i].match /\ files[i].scanner \in {"clean", "unavailable"}
=============================================================================
