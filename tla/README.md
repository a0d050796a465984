# Software Hub: TLA+ models, model checking and proofs

Software Hub is a FastAPI application with a SQLite database: a catalog of software
entries, their releases and the files of each release, which administrators upload,
review and publish. The bytes of a file live in private storage beside the database. A
command line makes backups, restores them, repairs storage and manages the one
administrator account.

This directory models the parts of it that keep state in more than one place or change
it in more than one step.

## How the system runs

These facts about the code decide what can interleave; every module rests on them.

- **One process, one event loop, many threads.** `docker/app-entrypoint.sh` starts one
  uvicorn worker. `def` routes run in the thread pool. `async def` routes (upload, both
  deletions, login, creation and editing of entries, releases, categories and tags) run
  their synchronous parts on the event loop, one after another.
- **CLI commands are separate processes** beside the live application. Only a restore
  asks for the application to be stopped.
- **A transaction is two steps.** The SQLite driver issues BEGIN only before the first
  write, and SQLite ignores `FOR UPDATE`. A service's SELECTs and checks come first,
  its write and COMMIT later, and other transactions commit in between.
- **An UPDATE goes by row id and writes the columns that differ from the loaded row**
  (SQLAlchemy's unit of work); if it matches no row the transaction fails. Tables have
  no AUTOINCREMENT: the id of a deleted last row is given out again.
- **The disk is not part of the transaction.** `atomic_move` checks, then renames, then
  fsyncs; an error in any of the three is raised as a failed move.

## Inventory

| Component | State | Operations | What is hard |
|---|---|---|---|
| release-file lifecycle (`file_service.py`) | `release_files` rows; bytes in quarantine, software and staging | approve, reject, reopen, publish, disable, archive, restore, verify, two deletions | a rename before a transaction, compensation that may fail, two requests on one file |
| upload pipeline (`upload_service.py`, `storage/`) | temporary file, quarantined file, row | stream, validate, move, scan, insert, clean up | a failure or a crash at each step; the age-based cleaner |
| orphan cleanup (`reconciliation_service.py`) | a snapshot of the table, a list of files | snapshot, walk, stage, unlink | the snapshot is old when it is used |
| checksum repair (`reconciliation_service.py`) | a snapshot, rows | snapshot, hash, load and hash again, update | decides on a status of the snapshot; one transaction for all repairs |
| storage verification (`reconciliation_service.py`) | a snapshot | two looks and a hash per row, a walk | files that move between two looks |
| disk reserve (`storage/disk.py`) | free bytes of one or two disks | the check before every upload, backup, start and storage command | the bytes that were checked are written later, a backup writes more than was measured |
| authentication (`auth_service.py`) | `users` row | login, lockout, rehash, password change | counters and hashes read and written back |
| sessions (`session_service.py`) | `sessions` rows | create, authenticate and touch, revoke, clean up | a touch that overlaps a revocation, recycled ids |
| form tokens (`csrf.py`) | none but cookies and the key in a session row | issue and verify login forms and administrator forms | forms older than the cookies, the session or the deployment they meet |
| catalog (`software_service.py`, `release_service.py`) | software row, release rows | create, edit, transition, select current stable | checks on rows that change before the write |
| backup and restore (`backup_service.py`) | lock file, backup directories, live paths, paths moved aside | create, retain, verify, restore | kills between renames, compensation, two commands |
| downloads (`download_service.py`) | total and daily counters | authorise, locate, count, deliver | authorised on one row, counted on its id, served from disk later |
| categories and tags (`category_service.py`, `tag_service.py`) | rows that entries refer to | create, rename, delete | forms that name ids which are gone or given out again |
| public pages (`public_catalog_service.py`) | none | listings, facets, direct pages, sitemap | one visibility rule written out in many queries |
| audit log (`audit_service.py`) | `audit_logs` rows | append with a change or alone, browse by pages | shown by time, counted and fetched in two statements |
| dashboard, health, configuration, migrations | none, or read-only | reads | see *Not modelled* |

Components call one another in one direction: routers and the CLI call services,
services open transactions and call the storage functions. They meet in shared state:
the tables; the storage tree, which files, reconciliation, downloads and backup share;
and the free bytes under it.

`PROJECT.json` lists every component with its source files, the hazards with the line
each of them bites at, and the source lines every definition stands for.

## Modules

| Module | Models |
|---|---|
| `FilePolicies` | `policies.py` and `enums.py` for release files: the transition table, publication readiness, deletability |
| `FileLifecycle` | file service, upload service, moves, staging, temporary-file cleaner |
| `AtomicFiles` | what the lifecycle promises: rows and their bytes, changed by one step per operation |
| `FileRefinement` | the mapping from `FileLifecycle` to `AtomicFiles` |
| `Reconciliation` | what the three reconciliation commands share; extends `FileLifecycle` |
| `OrphanCleanup`, `ChecksumRepair`, `StorageVerification` | one command each, beside the application; extend `Reconciliation` |
| `BackupSnapshot` | the copying part of `create_backup` beside the application; extends `FileLifecycle` |
| `Downloads` | authorisation, counting and delivery beside the application; extends `FileLifecycle` |
| `BesideRequests` | composes the five modules above: the requests alone or with one companion, chosen by the initial state; states the refinement |
| `AuthSessions` | login with lockout and rehash, password change, sessions |
| `FormTokens` | login and administrator forms in the tabs of a browser |
| `AuditTrail` | events, their order, and a walk through the pages of the log; extends `CatalogPolicies` |
| `AdminPages` | composes the two: what an administrator's browser shows |
| `CatalogPolicies` | `policies.py` and `enums.py` for entries and releases |
| `Catalog` | one software entry with its releases, and the release its page recommends |
| `PublicCatalog` | entries, categories and tags as administrators change them; the queries of the public pages |
| `Backups` | lock file, creation, retention and restore |
| `DiskReserve` | free bytes, the check before writing, what crashes leave, the housekeeping |
| `AuthSessionsProofs`, `CatalogProofs`, `PublicCatalogProofs`, `BackupsProofs`, `DiskReserveProofs` | theorems about the module they are named after |
| `BesideRequestsProofs` | theorems about `FileLifecycle`, `AtomicFiles` and the refinement between them, and about each companion beside the requests |
| `AdminPagesProofs` | theorems about `FormTokens` and `AuditTrail` |
| `SumTheorems` | sums over finite sets, for the counters of `Downloads` and the bytes of `DiskReserve` |
| `MC*` | instances for TLC: fault sets, operation sets, bounds per companion, symmetry |

### FileLifecycle

`files` is the table, `store` maps each generated path to the areas that hold a file of
that name, `req` gives each worker's request with its program counter. A request of the
file service goes through

    locate -> move -> replace -> read -> write -> unlink

with `undo` and `undoReplace` when the transaction fails after a move; an upload goes
through `stream -> move -> replace -> scan -> write`, with `cleanup` on any failure.
`move` is the check of the destination and `replace` the rename of `atomic_move`.
Locating covers `inspect_stored_files`/`locate_stored_file`; `read` and `write` are the
two halves of the transaction. `alarms` records the CRITICAL log entry for a
compensation that failed. Content validation is the outcome of a scan, a record
`[scanner, match]`; hashing and sizes are not represented, so `verify_integrity` is its
locate and a transaction that writes an audit event and none of the modelled columns.
Faults: `db` (the transaction fails), `move` (the rename fails), `fsync` (the fsync fails
after the rename), `undo` (the compensating rename fails), `unlink` and `crash` (the
container stops).

### AtomicFiles and the refinement

In `AtomicFiles` bytes and row change together. `FileRefinement` maps a state of
`FileLifecycle` to it by counting a file that is moved but not yet committed as still at
its old place. The refinement (`ImplementsAtomicFiles` of `BesideRequests`) holds for one
request at a time with failures that the code undoes. Two requests on one file break it,
which is what the counterexamples below are about.

### Reconciliation and its three commands

Each command is one process whose steps interleave with all requests. All start from one
SELECT of the table. `MaintenanceWindow` says that the operator admits no upload while
cleanup or repair runs.

`OrphanCleanup` walks both areas and stages and unlinks every file the SELECT did not name.

`ChecksumRepair` adds to the state what `FileLifecycle` has no need of: the content of a
file with its mtime, and the checksum of a row. Files are hashed outside a transaction; then
one transaction loads each row that differed, looks and hashes again (`Unchanged`) and
updates. `Locked` is SQLite's single writer: from the first UPDATE to the commit no other
transaction writes. `Rewrite` changes a file from outside; with `QuietStorage` only while
nothing reads it. The ghost `calm` holds the rows that nobody has touched since the SELECT.

`StorageVerification` looks into quarantine, then into software, then hashes a file that it
found in exactly one of them; the walk for orphans follows. A file that has moved when it is
hashed ends the command in an error, without a report. Mishaps damage, lose or copy a file.
The ghosts `troubled` and `untouched` say which trouble has lasted and which files nobody
has touched since the SELECT.

### BesideRequests

`OrphanCleanup`, `BackupSnapshot`, `Downloads`, `ChecksumRepair` and `StorageVerification`
share the requests and nothing else. The variable `companion` is chosen by the initial
state, also as `"none"`, and never changes; the variables of the other companions stay as
they are. Every companion has bounds of its own: the operations requested beside it and the
rows in the table. Commands do not meet because `OPERATIONS.md` schedules them one after
another; a download changes only counters, which no command looks at.

### BackupSnapshot

The database is copied in one step (the online backup is a consistent snapshot) and the
storage file by file, as the walk does. The ghost `sound` holds the rows whose file was
where it should be at that moment: a backup of a damaged site is no better than the site.
`Requested` of `BesideRequests` keeps operations that move files away while a backup runs,
not before.

### AuthSessions

One administrator. A hash is the password it verifies and whether its parameters are
outdated. Time is a counter; deadlines are numbers. The ghost fields are `guesses`
(wrong passwords answered since the counter was reset), and, in a session, the
`password` presented and `raced` (the password was changed while this login was in
flight). No action reads them.

### Catalog

The software row and its releases, with the two unique indexes of the table. `was` and
`will` of a request are the row as loaded and as changed in memory; `Updated` writes the
difference. The ghost variable `raced` collects rows whose write overlapped a change
that the transaction had not read, so that the passing run states what holds for every
other row. `CurrentRelease` is what the public pages make of the markers. A page must cope
with the markers that races misplace, so its property exempts nothing.

### PublicCatalog

The four tables as partial functions from row ids to rows, each operation one step: all
but the transitions run on the event loop, and a transition writes the status column
only, which no edit touches. How transitions overlap is the subject of `Catalog`. Forms
are old: every id may be submitted in every state. Names and other texts are left out,
slugs are values. The queries of the pages are operators on the tables, one for each
query of the code; a page is read in one state. A query with a LIMIT has a set of answers:
any rows that the part of its order which is modelled admits (`FirstRows`; tags come by use,
`MostUsed`). The page of a label has a query of its own without a limit (`GetCategory`,
`GetTag`).

### Downloads

A reader goes through `locate -> count -> grant`, or `blocked`, while the workers of
`FileLifecycle` run. `chain` says whether release and software admit downloads, at all
and to the public; the service that changes them is the subject of `Catalog`. `stats`
has the total of a file and its rows per day, which the foreign key deletes with it. The
ghost variables are `shown`, the paths that were ever published, and `served`, those of
which bytes were sent.

### Backups

The contents of database, log and storage are numbered generations. Creation, retention
and restore are step sequences; each rename of `_restore_verified_backup`, each step of
its `except` clause and the `finally` clause is a step of its own. `want` is what the
live paths should hold, namely the last write of the application or the last finished
restore; `damaged` says why a restore has not finished; `left` tells which of the wanted
paths a dead process left behind as a rollback copy, and forgets copies of superseded
data, which makes the survival properties stricter. Backups are ordered by creation; a
clock that goes backwards is not modelled.

### DiskReserve

Bytes are units; a state has the bytes of stored files, of uploads under way, of staged
deletions, of what was abandoned (`stale` uploads, `residue` of deletions, `debris` of
backups) and of the backups. `Free` is what is left. `EnsureFree` is the check of
`ensure_free_space`; `AcceptUpload` makes it and `WriteChunk` writes later. A backup measures
the main file of the database and the storage (`EstimateSource`); it writes a copy that takes
in some of the log, then the storage as it is by then, then manifest, digest and configuration
templates (`target`, in two parts). Retention removes one backup at a time, each completely,
in part or not at all (`RemoveBackup`), as `rmtree` may fail; so may the unlinking of a
temporary file (`FailUpload`). `shared` says whether both roots lie on one disk, as
`BACKUP_RESTORE.md:103` prescribes. `cleanup-temporary-files` reclaims `*.upload` files only:
nothing in the code removes `residue` or `debris`. Of the disk of the database itself only the
copies in backups are counted.

### FormTokens

A token is the key it was signed with, its nonce and the time it was issued. The login
form's key is the deployment's; the administrator form's key is stored with the session,
derived from its token and the secret at login. The tabs share one cookie jar; a request is
sent with the cookies of that moment, answered, and its answer arrives, in any order with
those of other tabs. `ticks` is true time, `now` the server's clock, which `SetBack` turns
back. The ghosts are `at` and `of` of a form (when and for which session it was rendered)
and `newest` (the login page that arrived last).

### AuditTrail

One release whose transitions write an event in their transaction, and events on their own
(`Note`, such as `file_verified`) whose time is set before they get the write lock. The
browser counts, then fetches (`Count`, `Fetch`), and follows the link to the next page as
long as `has_next` gives one. `Listing` is the log in the order of the statement: an
event's `Place` is one more than the number of events before it. The ghosts are `known`
(the events there were when the walk began), `torn` (an event was recorded between a count
and its rows) and `quiet` (none was recorded during the walk).

### AdminPages

`FormTokens` and `AuditTrail` share no state. The variable `part` says which of them is
explored: forms in several tabs, forms under a clock that is set back, or the log.

## Runs

| Run | Instance | Checks |
|---|---|---|
| `FileConcurrent` | 2 requests of any kind, 2 paths, 1 row id, every fault and crashes | `RowHasBytes`, `NoClobber` |
| `FileSafeTogether` | 3 requests for one file, of the operations that are safe beside one another, failing compensations, fair | `PlacementOK`, `StagedSettles` |
| `BesideCommands` | orphan cleanup, a backup or a verification beside a request, 2 paths, every fault, crashes, one mishap | `DeletesOnlyUnreferenced`, `BackupConsistent`, `TroubleReported`, `NoFalseAlarm` |
| `BesideRepairs` | a request alone, or beside a checksum repair or a download, 2 paths, 2 rows, 2 contents, 2 days, failing transactions and moves | `ImplementsAtomicFiles`, `CountersAgree`, `ServesOnlyPublished`, `RepairsTheRest`, `ProtectPublished`, `PublishesVerified` |
| `AuthConcurrent` | 2 requests or commands, 2 passwords, 2 sessions, clock to 4, no outdated hash | `WithinAbsolute`, `LockoutBound`, `OnlyRacingLoginsSurvive`, `RevocationSticks`, `PasswordNeverReverts` |
| `CatalogConcurrent` | 2 requests, 2 releases, 2 versions, 2 channels | `CurrentIsPublishedStable`, `RecommendsPublished` |
| `PublicPages` | 2 entries, one with a release and a file, 2 categories and 2 tags, at most 4 rows, every status and visibility, every limit 1 | `TypeOK` (with the foreign keys), `FacetsAgree`, `OffersAreDownloadable`, `SitemapServed` |
| `BackupFaults` | 2 commands, 2 backups, 2 generations, every fault | `LockExclusive`, `WalMatches`, `RestoreAllOrNothing`, `DataSurvives`, `RetentionKeeps` |
| `DiskHousekeeping` | 2 uploads at once, backups on the same disk or another, 1 kill | `UploadsLeaveReserve`, `BackupLeavesReserve` |
| `AdminPages` | 2 tabs with 2 sessions and 2 deployments; 1 tab under a clock set back; 2 requests and a walk over pages of 2 | `FormsDieWithSession`, `NewestLoginWorks`, `AcceptedInTime`, `FreshFormAccepted`, `TrailTellsStatus`, `WalkSeesAll` |

All of them say `CHECK_DEADLOCK FALSE`: an idle system may stop, paths, ids, tokens and
generations run out by the bounds, and a full shared disk really stops the server.

What they show:

- However requests interleave, fail or crash, the bytes of a row are never unlinked and
  no rename overwrites a file.
- One request at a time, files lie where their status expects them and the service
  behaves as if it were atomic. The operations of `SafeTogether` keep placement even
  together: those are uploads, verification, publication, disabling, archiving and the
  deletions. Reviews and `restore_ready` are not among them. The condition is that no row
  id is given out again while a request works on it, which one path ensures; otherwise a
  publication can mark the new row of that id as published while its file is still in
  quarantine, the race of `FileRaces` below.
- Orphan cleanup deletes only unreferenced files if no upload runs meanwhile. A backup
  during which no operation moves a file is as consistent as the site was.
- A storage verification that ends with a report names every file that was in trouble from
  its beginning, whatever moved meanwhile, crashes and failed moves included, and what it
  says of a file that nobody touched is true. It does not always name the right trouble:
  see `DamageReported` below.
- In a window without uploads, and if files are not rewritten while they are read, a
  checksum repair spares a file that was published after its SELECT, and repairs every
  mismatch it could, whatever becomes of other rows: it is the check of the hash by
  `publish` that protects, not the repair, which does not read the status again.
- A download that outlives its row or its publication is counted nowhere else, and bytes
  are sent only of files that were published and that no scan condemns. A publication
  puts a file below the software root before it commits and may be rolled back; this
  opens it to nobody, since a grant is given on a committed row. What is not excluded is
  that a file withdrawn after the grant is still sent.
- Lockout is exact because logins follow one another on the event loop; a touch never
  revives a revoked session; only a login that was in flight outlives a password change.
- No overlap of selections, transitions and edits makes a page recommend a release that
  is not published.
- An entry never refers to a label that is gone, nor inherits a new one under an old id.
  The numbers beside the facets are those of the pages they lead to, and a label on the card
  of a listed entry leads to a page with that entry; it is missing among the facets only when
  their list is full. (From the page of an entry that is not listed, a tag may lead to a 404:
  `get_tag` asks for a listed entry.) Every address in the sitemap is served for indexing,
  and an entry is left out only when the sitemap is full. Whoever is offered a file can
  download it; the exception is an administrator on the page of a draft or hidden entry: the
  page offers its published files, and the download endpoint, which admits only published
  and archived entries, answers 404.
- Two commands never work on the backups at once; a restore that fails is undone
  completely unless the undoing fails too; the storage it replaces always survives.
- Uploads check what is free now, not what others were promised: of the reserve, all of them
  but one may take as much as they may write, and no more, whatever crashes leave behind. A
  backup leaves its reserve as far as it was measured; log, manifest and templates, and files
  stored since, come out of it. On one disk for both, the reserve may be gone, and with it the
  clean-up that would bring it back (`DiskStuck`).
- A form is accepted only for the session it was rendered for, through its whole lifetime
  and no longer than that plus what the clock was set back; the login page that arrived
  last works, also after a wrong password in another tab.
- Whoever reads the audit log from the top finds first the change that made the release
  what it is. A walk to the last page misses no event that was there, except one that falls
  off between a count and its rows (`AuditTornWalk`).

Two runs end in a counterexample, each a disagreement between the code and what its
documentation or comments say (quoted in `PROJECT.json`, *findings*):

- `AuthRehashRace`: a login that rehashes the old password overwrites the hash a
  concurrent password change stored.
- `BackupLostDatabase`: a restore fails, putting the old database back fails, and the
  `finally` clause deletes the only copy of it.

Further configurations are run by hand. Those that end in a counterexample (a file
that lists several properties is run with one of them at a time; for the last two of
`FileRaces` replace the property it lists, they are invariants):

| Configuration, with module | Property violated | Shows, against |
|---|---|---|
| `FileRaces`, `MCFileLifecycle` | `PublishedNeverDeleted` | a deletion finds its file ready, another request publishes it, and the deletion removes the published row (`docs/file-lifecycle.md:107`); `FOR UPDATE`, which SQLite ignores, would prevent it, as the theorem `PublishedStay` says |
| `FileRaces`, `MCFileLifecycle` | `PlacementOK` | publication beside `restore_ready`, or beside another request that moves the file, leaves a row whose file is not where its status expects it (`docs/file-lifecycle.md:31`) |
| `FileRaces`, `MCFileLifecycle` | `PublishedApproved` | a row id that SQLite gives out again is published by a request that checked the old row (`docs/file-lifecycle.md:72`) |
| `CommandRaces`, `MCBesideRequests` | `DeletesOnlyUnreferenced` | an upload between snapshot and walk loses its file (`reconciliation_service.py:328`) |
| `RepairRaces`, `MCBesideRequests` | `ProtectPublished` | a file rewritten between its verification and the commit of its publication has its checksum replaced after it (`docs/maintenance-backup-reconciliation.md:38`) |
| `RepairRaces`, `MCBesideRequests` | `HashesOutsideTransaction` | from the second repair on, files are hashed with the write lock held (`docs/maintenance-backup-reconciliation.md:43`) |
| `CommandRaces`, `MCBesideRequests` | `DamageReported` | a damaged file that moves between two looks is reported as misplaced, missing or twice there, not as damaged (`docs/maintenance-backup-reconciliation.md:33`) |
| `CommandRaces`, `MCBesideRequests` | `BackupConsistent` | a publication or deletion while a backup runs (`BACKUP_RESTORE.md:37`) |
| `AuthPasswordRace`, `MCAuthSessions` | `SessionsOfCurrentPassword` | a login in flight keeps a session of the old password (`docs/authentication-sessions.md:72`) |
| `CatalogRaces`, `MCCatalog` | `SelectionMarks` | selecting the release that is already current, beside another selection, succeeds and leaves no current release (`docs/application-layer.md:125`) |
| `CatalogRaces`, `MCCatalog` | `MarkerAlwaysOK` | a selection marks a release that was archived meanwhile (`docs/application-layer.md:122`) |
| `BackupCleanServer`, `MCBackups` | `RestoreSucceeds` | on a server without a database the default restore never succeeds (`BACKUP_RESTORE.md:123`) |
| `BackupPartialSource`, `MCBackups` | `RestoresWholeBackup` | retention takes a verified backup apart before the restore copies it (`backup_service.py:375`) |
| `DiskStuck`, `DiskReserve` | `CleanupRestoresReserve` | on the one disk of `BACKUP_RESTORE.md:103` a backup that was killed and an upload that failed take the reserve; retention has nothing to remove, `cleanup-temporary-files` refuses to run (`cli.py:198`), and a server that stopped would not start (`OPERATIONS.md:125`) |
| `AuditTornWalk`, `MCAdminPages` | `WalkNeverTorn` | total and rows of a page come from two statements; the last event can fall off the last page (`repositories/base.py:56`) |

And one that passes: `BackupRestores` (`MCBackups`; one command at a time on a server with
data, retention leaving directories half deleted: `RestoresWholeBackup` and, in the end,
`RestoreSucceeds`). With `Next /\ RowLocked'` or `Next /\ FreshIds` (of
`BesideRequestsProofs`) for its steps the instance of `FileRaces` keeps
`PublishedNeverDeleted`, or `PublishedApproved`, as the theorems say. The type invariants
that no run lists hold in the instances of the runs as well: `CTypeOK`, `AuditTypeOK` and
`TypeOK` of `DiskReserve`. Those of the other modules are theorems, and so are the parts
of these three that the proofs rely on.

### Bounds

- *Three workers and one path* in `FileSafeTogether`: publication, deletion and a third
  request meet in the staging directory; one path means one upload, so no id recycles (the
  theorem `BytesStayTogether` has any number of paths and says so as `FreshIds`); elsewhere
  *two* are enough for every check-then-write race of two requests on one row.
- *One request beside a companion*: the companion is the second actor of every race that
  the run asks about; races of two requests are the subject of the other runs.
- *One row id with two paths* makes ids recycle at once, beside a download, a
  backup or a verification and in `FileConcurrent`; two rows elsewhere let one file's
  operations disturb another's.
- *Two contents and `MaxStamp` 4* in `BesideRepairs`: a checksum agrees or not; two uploads
  and two rewritings damage both files, or one of them twice. Two days and two attempts
  separate the total of a download counter from a day.
- *One mishap* damages, loses or copies one file; two are two reports.
- *Two generations, two backups, Keep = 1* give a backup that differs from the live
  data, one that retention must take, and one it must not.
- *Clock to 4* in `AuthConcurrent` passes the idle deadline (2), the absolute one (3) and
  the lockout (2). *Four ticks, Ttl 2, login Ttl 1, skew 1, back 3* in `AdminPages` put a
  form on either side of each comparison; with two tabs time stands almost still, because
  there the order of answers matters.
- *Four events, two a page* give a walk over two pages and events that move it on.
- *Capacity 5, uploads of 2, reserves, database, log and manifest 1, one kill* in
  `DiskHousekeeping`: two uploads take the whole reserve, a backup fails for want of space in
  the middle, and what a crash leaves may be the last free bytes.
- *Limits of 1* in `PublicPages` (in the code 12 and 100 for labels, 1 000 and 24 000 in the
  sitemap): a list is full, and a label or an entry is outside it. *Two ids and slugs per
  label table*: a second label is taken or refused by its slug, and a deleted one is followed
  by another under its id. Two entries let one be public and the other not, under one label;
  one release with one file reaches every combination of statuses that decides about an offer.
  *Four rows* are two entries with two labels, or with a release and a label, or one entry
  with three labels. File statuses are limited to ready, published and disabled: the pages ask
  only whether a file is published.
- `MaxRaced = 0` stops new transactions once a row was written by overlapping ones: the
  properties exempt such a row, and its further history is the counterexamples' topic.
- Symmetry is over paths, workers, contents, tabs, versions or processes, all unordered
  model values, and never in a run with a liveness property.

### Fairness

`FairSpec` of `FileLifecycle` gives each worker weak fairness of its next step: a
request that was begun is served, as the thread pool and the event loop do it. Nothing
makes a client send a request, a fault happen or a clock advance. `StagedSettles` needs
no more: a file in the staging directory leaves it or an alarm was logged. `FairSpec` of
`Backups` says the same of a command; `BackupCleanServer` and `BackupRestores` use it.

`Housekeeping` of `DiskReserve`, for `DiskStuck` only, is what `OPERATIONS.md` schedules
(lines 88 to 90), the nightly clean-up and backup, and the start of a server that is down; a
backup that runs, and a request that writes, go on. Nobody has to delete a file, make an
upload, remove a lock or apply retention: no schedule does. Retention is part of the condition
instead: nothing is left for it to remove.

## Proofs

TLC checks small instances; TLAPS proves the theorems below for every value of the
constants that the modules' assumptions admit: any sets of paths, workers, tabs, slugs and
scan outcomes, any number of rows, sessions, releases, backups and generations, any
timeouts, any selection of operations and faults. Where a theorem needs more, its ASSUME
says so, and the table repeats it. `PROJECT.json` lists them with the properties they state.

| Module | Theorems |
|---|---|
| `BesideRequestsProofs`, the requests | `TypeCorrect`, `MetadataHasBytes` (`RowHasBytes`), `MovesNeverClobber` (`NoClobber`) |
| `BesideRequestsProofs`, the promise | `AtomicPlacement` (`ASafe`): the abstract specification places every file where its status expects it |
| `BesideRequestsProofs`, one request at a time (`Serial`) | `DownloadsArePublished`; with failures that are undone (`Undone`) also `BytesStayInPlace` (`PlacementOK`), `BackupsAreWhole` and the refinement, `SerialIsAtomic` and `AloneIsAtomic` |
| `BesideRequestsProofs`, any number of requests, every operation, fault and crash | `PublishedAreApproved` (`PublishedApproved`), as long as no id that a request works on is given out again (`FreshIds`); `PublishedStay` (`PublishedNeverDeleted`), if the database gave each transaction the row lock it asks for (`RowLocked`) |
| `BesideRequestsProofs`, any number of requests of the operations of `SafeTogether`, without failing fsyncs and crashes (`Together`), as long as no id that a request works on is given out again (`FreshIds`) | `BytesStayTogether` (`PlacementOK`) |
| `BesideRequestsProofs`, one request at a time, and at most one second copy of a file left by an operator (`FewCopies`) | `TroubleIsReported` (`TroubleReported`) |
| `BesideRequestsProofs`, one request at a time in a maintenance window, on a storage that is quiet but for the application (`Maintained`) | `RepairsProtectPublished` (`ProtectPublished`), `PublicationsAreVerified` (`PublishesVerified`) |
| `BesideRequestsProofs`, any number of requests | `OrphansAreUnreferenced` and `CleanupSparesRows`, if no upload runs meanwhile (`MaintenanceWindow`); `BackupsAreConsistent`, if no operation moves a stored file while a backup runs; `OnlookersDisturbNothing`, if the companions are onlookers (`Onlookers`: a backup, a download, a checksum repair); without any condition `CountersAlwaysAgree` (`CountersAgree`), `RepairIsTyped`, `RepairsReachTheRest` (`RepairsTheRest`), `VerificationIsTyped` and `ReportsAreTrue` (`NoFalseAlarm`) |
| `AuthSessionsProofs` | `TypeCorrect`, `DeadlinesHold` (`WithinAbsolute`), `ThresholdLocks` (`LockoutBound`), `ChangeEndsSessions` (`OnlyRacingLoginsSurvive`), `NoRevival` (`RevocationSticks`); without outdated hashes (`~OldHash`) `PasswordsMoveOn` (`PasswordNeverReverts`) |
| `CatalogProofs` | `TypeCorrect`, `MarkerIsEarned` (`CurrentIsPublishedStable`), `MarkerIsUnique` (`OneCurrent`), `RecommendationIsPublished` (`RecommendsPublished`) |
| `PublicCatalogProofs` | `TypeCorrect` (with the foreign keys), `CountsAgree` (`FacetsAgree`), `OffersHold` (`OffersAreDownloadable`), `SitemapHolds` (`SitemapServed`) |
| `BackupsProofs` | `TypeCorrect`, `Exclusion` (`LockExclusive`), `NoForeignLog` (`WalMatches`), `RestoreIsAtomic` (`RestoreAllOrNothing`), `NothingIsLost` (`DataSurvives`), `RetentionIsSafe` (`RetentionKeeps`) |
| `DiskReserveProofs` | `UploadsLeave` (`UploadsLeaveReserve`), `BackupLeaves` (`BackupLeavesReserve`), `DisksNeverOverrun` (no disk is asked for more than it has) |
| `AdminPagesProofs`, the audit log | `TrailTells` (`TrailTellsStatus`), `WalkShowsAll` (`WalkSeesAll`) |
| `AdminPagesProofs`, the forms | `TypeCorrect`, `FormsAreBound` (`FormsDieWithSession`), `FormsExpire` (`AcceptedInTime`), `FormsLast` (`FreshFormAccepted`), `NewestWorks` (`NewestLoginWorks`) |

Each module proves one inductive invariant, one lemma per action, and the properties from
it. Every invariant was checked by TLC on an instance of a run before it was proved.

### Why the properties are not inductive, and what is added

**Files.** `IInv` of `BesideRequestsProofs` adds to the properties what each step relies on:
`ReqShape` (which fields of a request are set at each program counter), `PathsOnce` (no
two rows have the same path, and a row's path was generated), `SingleCopy` (a name is in at
most one area, so a destination is free as long as the source exists), `OwnRow` and
`UploadPrivate` (the path of an upload belongs to it until its row is inserted) and
`UnlinkUnlisted` (a deletion at its `unlink` step deletes a path that no row names).
Unlinking is safe only because of `UnlinkUnlisted`, which is kept because a path is
generated once. That `files` keeps its type is not a formality: a write by id must not
bring back a row that a deletion removed.

**Requests one at a time.** `HInv` adds `RowsHeld`: what a request has read of its row is
still so, because nobody else writes it. `PInv` adds where the bytes are. Between a rename
and its commit, or the end of its compensation, a file is in doubt (`Doubt`); it lies
where the request moved it and counts as being where it came from (`LiesIn`). `InPlace`
says that the bytes of each row count as being in one area, which its status expects;
`Located` that a request has found them there.

**Publications and deletions.** `HInv` is lost when requests overlap: a row may change
between a check and the write by its id. What is left depends on what the database gives.
Signature and scan of a row never change, so a publication that checked them writes an
approved row as long as it is the same row (`PublishesApproved`, from `FreshIds`). The status
does change: that a deletion which is about to write has an unpublished row
(`DeletesUnpublished`) needs that nobody else writes it meanwhile, the lock of `FOR UPDATE`
(`RowLocked`). SQLite gives neither, and TLC has a counterexample for each.

**Requests together.** `HInv` is lost: what a request has read may be old. `TInv` says
instead where the file of each row belongs (`BelongsIn`), whoever works on it: at most one
deletion has staged it, from where it belongs; at most one publication has put it into
software without having committed, and then its row is not published yet, by anyone;
without such a publication it belongs where its status expects it. So a publication may
commit although the row was disabled since its SELECT, and a deletion that takes the file
from under it makes its compensation fail with a critical entry, not silently. Setting a
status to disabled or archived fits any area. Reviews are not of this kind: one that read
its row early writes a status that expects the file in quarantine. `RowsKept`, that the
id of a request names its own row or none, needs `FreshIds`; TLC finds the violation of
`PlacementOK` without it.

**The refinement.** Under the mapping of `FileRefinement` a file counts as moved when its
row is committed. The initial states map to one another (`AtomicInit`); a step that
commits maps to the operation of `AtomicFiles` (upload, status change, deletion), every
other one, renames and compensations included, to a stutter (`AtomicNext`). `PInv` is what
makes the guards of the abstract operations true. The assumptions are those of the code's
own promise: a failed fsync, a failed compensation or a crash leaves a file where the code
does not put it back.

**Companions.** `CInv` adds `CleanerKnows`: from its SELECT on the cleaner knows every
listed path, and what it has found and staged it does not know. Only an upload can list a
new path, and in a window without uploads there is none. `BackInv` adds `SoundTracked`:
the file of a row that was sound when the table was copied rests in its area (`AtRest`)
and is still to be listed there, still to be copied, or copied, and nowhere else. That
every row is sound then is `PInv` again. `DownInv` adds `ShownInv`: the path of a reader
past its checks was published once, and what was published is approved. A row id that is
given out again does not break it, since the reader keeps the path.

**Checksum repair.** `RestInv` adds `CalmRows`: a row that nobody has touched since the
SELECT is still to be inspected as it was read, needs nothing, or has the change it wants
among those found, loaded or flushed; `RepairLoops` says which of these are empty when. No
condition is needed, because the property speaks only of rows left alone. For published
files that is not enough. `VerInv` compares what three parties have read: the repair what
its SELECT read (`ReadRows`) and what it found (`FoundRows`: still a mismatch, and of a file
that is not published), the request the checksum it verifies against (`WantRows`: still that
of the row, or the row has been repaired to the checksum of the bytes). A row published
since the SELECT has the checksum of its bytes, so the repair finds nothing to change, and a
mismatch found before cannot be published any more. Each clause needs that bytes stay as
they are during the window; the run `RepairRaces` shows what happens without it.

**Storage verification.** `VerifierKnows` says, of paths whose row and file are as they were
at the snapshot, that their rows are known, that what is still to be inspected is as it was
read, that what the two looks have seen is what there is, and that every issue reported is
one. It rests on types alone (`Shaped`): a second copy left by an operator breaks
`SingleCopy`, and `IInv` with it, but not what a verification says about the other files.

That nothing is missed (`TroubleReported`) needs two more invariants. `SoloInv` is what
remains of the file lifecycle's invariant beside mishaps: a request about a row still holds
it, a path has one row, there is one copy of a file unless the one mishap was a copy
(`Copied`), and a request that is to set a status has its file where that status expects it,
or the file is lost (`Landed`). `Follow` follows everything that was in trouble at the SELECT
and is so still: it is reported; or its row is still to be inspected, with the status it was
read with or with a file that no request will move (`Behind`), and what the looks have seen
of it leads to an issue or ends the verification without a report (`InSight`); or no row
names it and neither walk has passed it by (`OrphanFollowed`). A step of a request lets the
file of a listed row rest, moves it from one area to another, or sets a status (`PathStep`),
and the first of these keeps what was seen, the second ends the trouble or keeps it in
sight, the third ends it or leaves the file where nothing moves it.

**Sessions and lockout.** `LoginInFlight` relates what a login has loaded to what is
stored: they agree but for a password change, which clears columns and ends every session.
It rests on `OneAtATime`, that logins follow one another on the event loop. `Counted`
carries the lockout: as long as the account is not locked, the stored count is at least
the number of guesses. `TouchInFlight` bounds the deadline a touch is about to write by
the absolute deadline of whichever session may have its row by then.

**Catalog.** `InFlight` says that a transaction which has loaded a right marker writes a
right one; `IndexesHold` are the two unique indexes. Uniqueness of the marker follows from
both, not from `clear_current_stable`, which may have read its rows too early.

**Public pages.** The invariant is the type invariant with unique slugs and foreign keys.
The properties compare queries, and the proofs expand both sides to one visibility rule.

**Backups.** `Sound` says of each process, for every program counter: the places it is
about to move to are empty (`Vacated`); a database and a log that may come to lie side by
side belong together (`Paired`), which carries `WalMatches`; as long as nothing was killed
and no compensation failed, each wanted path is in place, aside, or replaced with the
wanted one aside (`Undoable`), which carries `RestoreAllOrNothing`; a copy that is about
to be removed is not the only one (`StorageAsideKept`, `DatabaseAsideKept`), which carries
`DataSurvives`; and what retention has left to delete has `Keep` newer backups
(`Retaining`).

**Forms.** `FormOK` says that a form is signed with the key of the session it was rendered
for, and bounds the difference between its time and true time by what the clock was set
back (`TimeOf`). Keys are equal only if their sessions are. `Fresh` and `Armed` carry
`NewestLoginWorks`: a login form that has not arrived yet is the only one with its nonce,
and a form submitted with the cookie's nonce was sent with that cookie.

**Counters.** `CountersInv` is the property with its types: a start adds one to the total
and one to its day, in one transaction, so that no condition on what happens between the
steps of a download is needed.

**Disk.** The two properties are inductive as soon as nobody writes more than was announced
and sums are numbers (`DiskTyped`). They speak of the room that is left once the uploads under
way are complete, so that writing a chunk changes nothing. An upload is admitted on the free
space, which the others have still to fill: with what all of them but one may write
(`Overlap`), it leaves the reserve. Beside a backup on the same disk either the backup was
admitted after an upload or the upload saw what the backup had written; hence the two cases of
`BackupLeavesReserve`. Every other step gives bytes back or moves them from one heading to
another.

**Audit log.** `TrailInv` says that of the changes in the log a later one has a time that is
not earlier, that none is later than the time of the transaction that writes, and that the
last one made the status what it is. Times of events without a change may be out of order,
which is why the property is about changes. `PlacesInOrder` and `ListingIsWhole` are the
listing: an order that is total gives each event a place of its own, and each place an event.

**The walk.** `WalkInv` says that events known from the start whose place is by now on an
earlier page have been shown. An event that is recorded adds to the places of others and
takes from none (`PlacesGrow`), so that known events move only towards pages still to come,
except between a count and its rows (`torn`). A page is the last one exactly when the rows of
the pages so far are all there are (`MorePages`), as long as the count is that of the log.

**Sums.** The bytes on a disk and the days of a counter are added up by folds, which recur
over the subsets of a set. `SumTheorems` proves what they compute from a smallest
counterexample in the place of induction: the rule of a fold has one solution
(`RuleIsUnique`, `RuleExists`), whichever element is taken out first the rest is the sum
without it (`SumWithout`), and a step that changes one value changes the sum by as much
(`SumMoves`).

### What the proofs showed about the models

- A count of failed logins may pass the threshold: a password change clears the lock that
  a login has loaded, and the login adds one to the count it had read. `LockoutBound` is
  not affected; the type of the counter had to be any number.
- Without a deployment's secret no form has a key: `TokenAssumption` asks for one.
- `BackupConsistent` had been stated beside operations none of which ever moves a file, so
  that no file was ever published. It now covers every table a backup may find: moves are
  excluded only while a backup runs, and a row whose file an earlier crash misplaced is
  exempt (`sound`), which let the property keep crashes and failed compensations.
- `TroubleReported` depends on how often an operator copies files. With two copies a
  publication can rename its file over the first one, beside the look at it, and a second
  copy can take its place before the hash; a file that was in trouble all the time is then
  reported as sound (TLC finds this with two mishaps, and not without copies). The run has
  one mishap, and `FewCopies` says so in the theorem.
- The audit log used to be listed by sorting a set into a sequence, and the first change
  found by selecting from it. Both are recursive underneath and cannot be reasoned about;
  places in an order say the same, and TLC explores the same states.
- The bytes written by the uploads are a sum only if there are finitely many uploads
  (`UploadAssumption`).
- A backup had been modelled as writing what was measured, and the facets without their
  limits; both made theorems that the code does not keep. They are stated now with the part of
  the reserve that the difference takes, and for a list that may be full.
- That published files stay, and are approved, had been proved for one request at a time.
  Neither needs that: what it takes is the one guarantee of the database that each relies on.
- `DataSurvives` could be made stronger than it had been: the storage that a restore
  replaces survives even a failed compensation.

### Only model-checked

- `TroubleReported` beside several requests is neither proved nor checked: of two requests
  one could move a file under the eyes of the verification while the other leaves its row in
  trouble.
- All liveness (`StagedSettles`, `RestoreSucceeds`), which is out of the prover's reach.

## Not modelled

- Of the public pages: text search, sorting, and changes between two queries of one page
  (paging is that of `AuditTrail`). Dashboard, health checks and system status only read.
- Of the audit log: the filters, which narrow both statements of a page alike, and the
  sanitising of metadata.
- Of form tokens: encoding, signature arithmetic and length limits; a signature is the key
  it was made with.
- Of reconciliation: symlinks and other unsafe entries, sizes apart from digests, JSON
  output. A hash is taken in one step.
- Cryptography, content validation, path resolution, forms, templates, logging,
  migrations, containers and the configuration of Nginx.
- `transition_status` and `set_visibility` of the file service, `replace_tags` and
  `set_visibility` of the software service, which have no caller; `create_admin`.
- Two commands of different kinds at once, such as a repair beside a backup.

## Plan

1. Done: file lifecycle with its proofs; orphan cleanup, checksum repair, storage
   verification, snapshot and downloads beside it; authentication and form tokens; catalog,
   audit log and public pages with their labels; backups; disk reserve.
2. Done: the theorems of *Proofs*. Next: `TroubleReported` beside several requests.
3. Public pages read in steps, beside administrators.
