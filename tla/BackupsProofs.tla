--------------------------- MODULE BackupsProofs ---------------------------
(***************************************************************************)
(* Proofs about Backups for every number of processes, backups and         *)
(* generations, every retention count and every choice of faults.          *)
(***************************************************************************)
EXTENDS Backups, FiniteSetTheorems, TLAPS

USE BackupAssumption

-----------------------------------------------------------------------------
(* The inductive invariant *)

Copying == {"copyDb", "copyStorage", "publish"}
Starting == {"idle", "lock", "safetyDone"} \cup Copying
Deleting == {"list", "delete", "rmtree"}
Replacing == RestorePc \cup UndoPc

\* How the fields of a process hang together.
Shape(r) ==
    /\ r.pc = "idle" => r = IdleProc
    /\ r.pc = "lock" => \/ r.op = "retention" /\ ~r.making
                        \/ r.op = "create" /\ r.making
                        \/ r.op = "restore"
    /\ r.pc \in Copying => r.op \in {"create", "restore"}
    /\ r.pc \in Deleting => r.op \in {"create", "retention"}
    /\ r.pc = "rmtree" => r.id \in Ids
    /\ r.pc \in Replacing \cup {"safetyDone", "finally"} => r.op = "restore"
    /\ r.op = "restore" => r.id \in Ids
    /\ r.pc \notin Replacing \cup {"finally"} => r.roll = Nothing
    /\ r.pc \in Starting \cup {"stage", "storageAside", "storageIn"} => ~r.storageReplaced
    /\ r.pc \in Starting \cup (RestorePc \ {"migrate"}) => ~r.databaseReplaced

\* What retention has left to delete are backups with Keep newer ones: those newer than
\* the next to go, which is the newest, stay.
Retaining(r) ==
    /\ r.pc \in {"delete", "rmtree"} =>
         \A b \in r.doomed :
             (\A c \in r.doomed : c <= b) => Cardinality(Newer(b)) >= Keep
    /\ r.pc = "rmtree" => ~Complete(r.id)

\* Where a restore stands, nothing is overwritten: the place it moves to is empty.
Vacated(r) ==
    /\ r.pc \in {"stage", "storageAside"} => r.roll = Nothing
    /\ r.pc \in {"storageIn", "mainAside"} => r.roll.db = 0 /\ r.roll.wal = 0
    /\ r.pc = "storageIn" => live.storage = 0
    /\ r.pc = "walAside" => live.db = 0 /\ r.roll.wal = 0
    /\ r.pc = "dbIn" => live.db = 0 /\ live.wal = 0
    /\ r.pc = "migrate" => live.wal = 0 /\ r.databaseReplaced
    /\ r.pc = "unlinkDb" =>
         IF r.databaseReplaced THEN live.wal = 0 ELSE 0 \in {r.roll.db, live.db}
    /\ r.pc = "dbBack" => 0 \in {r.roll.db, live.db}
    /\ r.pc \in {"clearStorage", "storageBack"} => r.roll.db = 0 /\ r.roll.wal = 0

\* Database and log that may come to lie side by side belong together.
Paired(r) ==
    r.pc \in RestorePc \cup {"unlinkDb", "dbBack"} =>
        /\ r.roll.db # 0 /\ live.wal # 0 => live.wal = r.roll.db
        /\ r.roll.db # 0 /\ r.roll.wal # 0 => r.roll.wal = r.roll.db
        /\ r.roll.wal # 0 /\ live.db # 0 /\ (r.pc = "dbBack" \/ ~r.databaseReplaced)
             => r.roll.wal = live.db

\* The wanted path is in place, or moved aside and its place empty.
Back(here, aside, wanted) ==
    \/ here = wanted /\ aside = 0
    \/ here = 0 /\ aside = wanted

\* As long as nothing was killed and no compensation failed, every path is wanted, aside,
\* or replaced with the wanted one aside.
Undoable(r) ==
    /\ r.pc \in RestorePc \cup {"unlinkDb"} =>
         IF r.databaseReplaced THEN r.roll.db = want.db
                               ELSE Back(live.db, r.roll.db, want.db)
    /\ r.pc = "dbBack" => Back(live.db, r.roll.db, want.db)
    /\ r.pc \in RestorePc \cup {"unlinkDb", "dbBack"} => Back(live.wal, r.roll.wal, want.wal)
    /\ r.pc \in {"clearStorage", "storageBack"} => live.db = want.db /\ live.wal = want.wal
    /\ r.pc \in Replacing \ {"storageBack"} =>
         IF r.storageReplaced THEN r.roll.storage = want.storage
                              ELSE Back(live.storage, r.roll.storage, want.storage)
    /\ r.pc = "storageBack" => Back(live.storage, r.roll.storage, want.storage)

\* A copy that is about to be removed is not the only one.
StorageAsideKept(r) ==
    r.storageReplaced /\ r.pc \in Replacing \ {"storageBack"} =>
        want.storage \in {0, r.roll.storage} \/ "storage" \in left

DatabaseAsideKept(r) ==
    /\ r.databaseReplaced /\ r.pc \in {"migrate", "unlinkDb"} =>
         want.db \in {0, r.roll.db} \/ "db" \in left
    /\ r.pc = "finally" => r.roll.db = 0

\* All there is to say of one process.
Sound(p) ==
    /\ Shape(proc[p])
    /\ Retaining(proc[p])
    /\ Vacated(proc[p])
    /\ Paired(proc[p])
    /\ damaged = "no" => Undoable(proc[p])
    /\ StorageAsideKept(proc[p])
    /\ damaged # "undo" => DatabaseAsideKept(proc[p])

\* Without damage only a restore that is replacing them keeps the live paths from what
\* they should be.
Settled == damaged = "no" => live = want \/ \E p \in Procs : proc[p].pc \in Replacing

IInv ==
    /\ TypeOK
    /\ LockExclusive
    /\ \A p \in Procs : Sound(p)
    /\ Settled
    /\ WalMatches
    /\ DataSurvives

-----------------------------------------------------------------------------
(* Facts about operators *)

\* A process without a command is well typed.
LEMMA IdleProcType == IdleProc \in Proc
  BY DEF IdleProc, Proc, Pc, Nothing, Paths, Gens, Trees

\* Two sets of paths with equal parts are equal.
LEMMA SamePaths ==
  ASSUME NEW a \in Paths, NEW b \in Paths, a.db = b.db, a.wal = b.wal, a.storage = b.storage
  PROVE  a = b
  BY DEF Paths

\* One backup more is not there in a smaller set of newer backups.
LEMMA NewerFinite == \A b \in Ids : IsFiniteSet(Newer(b))
<1> SUFFICES ASSUME NEW b \in Ids PROVE IsFiniteSet(Newer(b))
  OBVIOUS
<1>1. IsFiniteSet(Ids)
  BY FS_Interval DEF Ids
<1>2. QED
  BY <1>1, FS_Subset DEF Newer

\* A process that holds no lock has moved nothing, and of it there is nothing else to say.
LEMMA WithoutLock ==
  ASSUME NEW p \in Procs, ~Locked(p), Shape(proc[p])
  PROVE  Sound(p) /\ proc[p].roll = Nothing /\ proc[p].pc \notin Replacing
  BY DEF Sound, Locked, Shape, Retaining, Vacated, Paired, Undoable, StorageAsideKept,
     DatabaseAsideKept, Replacing, RestorePc, UndoPc

\* While p holds the lock or takes it, the others have none.
LEMMA OnlyOne ==
  ASSUME IInv, NEW p \in Procs, Locked(p) \/ ~lock, NEW q \in Procs, q # p
  PROVE  ~Locked(q)
  BY DEF IInv, LockExclusive

\* A step of the one process at work keeps the invariant if what it makes of itself and of
\* the paths is sound.
LEMMA WorkStep ==
  ASSUME IInv, NEW p \in Procs, Locked(p) \/ ~lock, NEW n \in Proc, Become(p, n),
         live' \in Paths, want' \in Paths, backups' \in [Ids -> Backup],
         made' \in 0..MaxBackup, lock' \in BOOLEAN, damaged' \in {"no", "killed", "undo"},
         left' \subseteq {"db", "storage"}, gen' \in 1..MaxGen,
         n.pc \notin {"idle", "lock"} => lock',
         proc'[p] = n => Sound(p)',
         damaged' = "no" => live' = want' \/ n.pc \in Replacing,
         WalMatches',
         proc'[p] = n => DataSurvives'
  PROVE  IInv'
<1>1. /\ proc' \in [Procs -> Proc]
      /\ proc'[p] = n
      /\ \A q \in Procs \ {p} : proc'[q] = proc[q] /\ ~Locked(q)
  BY OnlyOne DEF Become, IInv, TypeOK
<1>2. TypeOK'
  BY <1>1 DEF TypeOK
<1>3. LockExclusive'
  BY <1>1 DEF LockExclusive, Locked
<1>4. ASSUME NEW q \in Procs
      PROVE  Sound(q)'
  <2>1. CASE q = p
    BY <1>1, <2>1
  <2>2. CASE q # p
    <3>1. Shape(proc[q]) /\ proc'[q] = proc[q] /\ ~Locked(q)
      BY <1>1, <2>2 DEF IInv, Sound
    <3>2. Shape(proc'[q]) /\ ~Locked(q)'
      BY <3>1 DEF Locked
    <3>3. QED
      BY <3>2 DEF Sound, Locked, Shape, Retaining, Vacated, Paired, Undoable,
         StorageAsideKept, DatabaseAsideKept, Replacing, RestorePc, UndoPc
  <2>3. QED
    BY <2>1, <2>2
<1>5. Settled'
  BY <1>1 DEF Settled
<1>6. QED
  BY <1>1, <1>2, <1>3, <1>4, <1>5 DEF IInv

-----------------------------------------------------------------------------
(* The steps of a restore, one lemma per group of actions *)

Moving == Replacing \cup {"finally"}

\* What the invariant says of a restore under way, the other processes aside.
LEMMA Restoring ==
  ASSUME IInv, NEW p \in Procs, proc[p].pc \in Moving
  PROVE  /\ proc[p] \in Proc /\ proc[p].op = "restore" /\ proc[p].id \in Ids
         /\ Locked(p) /\ lock /\ Sound(p)
         /\ live \in Paths /\ want \in Paths /\ WalMatches
         /\ damaged \in {"no", "killed", "undo"} /\ left \subseteq {"db", "storage"}
         /\ want.storage \in {0, live.storage, proc[p].roll.storage} \/ "storage" \in left
         /\ damaged # "undo" =>
              want.db \in {0, live.db, proc[p].roll.db} \/ "db" \in left
         /\ damaged = "no" => live = want \/ proc[p].pc \in Replacing
<1>1. /\ proc[p] \in Proc /\ Sound(p) /\ Shape(proc[p])
      /\ live \in Paths /\ want \in Paths /\ WalMatches
      /\ damaged \in {"no", "killed", "undo"} /\ left \subseteq {"db", "storage"}
  BY DEF IInv, TypeOK, Sound
<1>2. Locked(p) /\ lock
  BY DEF Locked, Moving, Replacing, RestorePc, UndoPc, IInv, LockExclusive
<1>3. proc[p].op = "restore" /\ proc[p].id \in Ids
  BY <1>1 DEF Shape, Moving
<1>4. \A q \in Procs \ {p} : proc[q].roll = Nothing /\ proc[q].pc \notin Replacing
  BY <1>2, OnlyOne, WithoutLock DEF IInv, Sound
<1>5. /\ want.storage \in {0, live.storage, proc[p].roll.storage} \/ "storage" \in left
      /\ damaged # "undo" => want.db \in {0, live.db, proc[p].roll.db} \/ "db" \in left
  BY <1>4 DEF IInv, DataSurvives, StorageKept, DatabaseKept, Nothing
<1>6. damaged = "no" => live = want \/ proc[p].pc \in Replacing
  BY <1>4 DEF IInv, Settled
<1>7. QED
  BY <1>1, <1>2, <1>3, <1>5, <1>6

\* A step of a restore keeps the invariant if it leaves the restore n sound.
LEMMA RestoringStep ==
  ASSUME IInv, NEW p \in Procs, proc[p].pc \in Moving,
         NEW n \in Proc, Become(p, n),
         n.op = proc[p].op, n.id = proc[p].id, n.pc \in Moving \cup {"release"},
         n.pc = "release" => n.roll = Nothing,
         n.pc \in {"stage", "storageAside", "storageIn"} => ~n.storageReplaced,
         n.pc \in RestorePc \ {"migrate"} => ~n.databaseReplaced,
         live' \in Paths, want' \in Paths,
         damaged' \in {"no", "killed", "undo"}, left' \subseteq {"db", "storage"},
         UNCHANGED <<backups, made, lock, gen>>,
         Vacated(n)', Paired(n)', WalMatches', StorageAsideKept(n)',
         damaged' = "no" => Undoable(n)',
         damaged' = "no" => live' = want' \/ n.pc \in Replacing,
         damaged' # "undo" => DatabaseAsideKept(n)',
         want'.storage \in {0, live'.storage, n.roll.storage} \/ "storage" \in left',
         damaged' # "undo" => want'.db \in {0, live'.db, n.roll.db} \/ "db" \in left'
  PROVE  IInv'
<1>1. Locked(p) /\ lock /\ proc[p].op = "restore" /\ proc[p].id \in Ids
  BY Restoring
<1>2. Shape(n)
  BY <1>1 DEF Shape, Moving, Replacing, RestorePc, UndoPc, Starting, Copying, Deleting
<1>3. Retaining(n)'
  BY DEF Retaining, Moving, Replacing, RestorePc, UndoPc
<1>4. proc'[p] = n => Sound(p)'
  BY <1>2, <1>3 DEF Sound
<1>5. proc'[p] = n => DataSurvives'
  BY DEF DataSurvives, StorageKept, DatabaseKept
<1>6. backups' \in [Ids -> Backup] /\ made' \in 0..MaxBackup /\ lock' /\ gen' \in 1..MaxGen
  BY <1>1 DEF IInv, TypeOK
<1>7. QED
  BY <1>1, <1>4, <1>5, <1>6, WorkStep

\* The command and what is known of its backups stay the same.
SameCommand(n, r) ==
    /\ n.op = r.op /\ n.id = r.id /\ n.making = r.making /\ n.doomed = r.doomed

SameFlags(n, r) ==
    n.storageReplaced = r.storageReplaced /\ n.databaseReplaced = r.databaseReplaced

\* Goto changes the program counter and nothing else.
LEMMA GotoEffect ==
  ASSUME NEW p \in Procs, proc[p] \in Proc, NEW q \in Pc, Goto(p, q)
  PROVE  \E n \in Proc :
           /\ Become(p, n) /\ n.pc = q /\ n.roll = proc[p].roll
           /\ SameCommand(n, proc[p]) /\ SameFlags(n, proc[p])
<1> DEFINE n == [proc[p] EXCEPT !.pc = q]
<1>1. /\ n \in Proc /\ n.pc = q /\ n.roll = proc[p].roll
      /\ SameCommand(n, proc[p]) /\ SameFlags(n, proc[p])
  BY DEF Proc, SameCommand, SameFlags
<1>2. Become(p, n)
  BY DEF Goto
<1>3. QED
  BY <1>1, <1>2

\* RestoreFails: from wherever a restore is, its except clause can put everything back.
LEMMA RestoreFailsStep ==
  ASSUME IInv, NEW p \in Procs, proc[p].pc \in RestorePc, Goto(p, "unlinkDb"),
         UNCHANGED <<live, backups, made, lock, left, gen, want, damaged>>
  PROVE  IInv'
<1> DEFINE r == proc[p]
<1>1. r.pc \in Moving
  BY DEF Moving, Replacing
<1>2. r \in Proc /\ Sound(p) /\ Shape(r)
  BY <1>1, Restoring DEF Sound
<1>3. PICK n \in Proc : /\ Become(p, n) /\ n.pc = "unlinkDb" /\ n.roll = r.roll
                        /\ SameCommand(n, r) /\ SameFlags(n, r)
  BY <1>2, GotoEffect DEF Pc, UndoPc
<1> USE <1>3 DEF SameCommand, SameFlags
<1>4. Vacated(n)'
  BY <1>2 DEF Sound, Shape, Vacated, RestorePc, Starting, Nothing
<1>5. Paired(n)'
  BY <1>2 DEF Sound, Paired
<1>6. damaged' = "no" => Undoable(n)'
  BY <1>2 DEF Sound, Undoable, Replacing, RestorePc, UndoPc
<1>7. StorageAsideKept(n)' /\ (damaged' # "undo" => DatabaseAsideKept(n)')
  BY <1>2 DEF Sound, StorageAsideKept, DatabaseAsideKept, Shape, Replacing,
     RestorePc, UndoPc, Starting
<1>8. n.pc \in Replacing \ RestorePc
  BY DEF Replacing, UndoPc, RestorePc
<1>9. QED
  BY <1>1, <1>4, <1>5, <1>6, <1>7, <1>8, Restoring, RestoringStep DEF Moving, WalMatches

\* Stage: the copies beside the live paths change nothing that is live or aside.
LEMMA StageStep ==
  ASSUME IInv, NEW p \in Procs, Stage(p)
  PROVE  IInv'
<1> DEFINE r == proc[p]
           b == backups[r.id]
           tree == IF b.state = "partial" THEN Partial ELSE b.storage
           e == [r EXCEPT !.pc = "storageAside", !.stage.db = b.db, !.stage.storage = tree]
<1>1. r.pc = "stage" /\ UNCHANGED <<live, backups, made, lock, left, gen, want, damaged>>
  BY DEF Stage
<1>2. r.pc \in Moving
  BY <1>1 DEF Moving, Replacing, RestorePc
<1>3. r \in Proc /\ Sound(p) /\ Shape(r) /\ r.id \in Ids
  BY <1>2, Restoring DEF Sound
<1>4. CASE Become(p, e)
  <2>1. b.db \in Gens /\ tree \in Trees
    BY <1>3 DEF IInv, TypeOK, Backup, Trees
  <2>2. PICK n \in Proc : /\ Become(p, n) /\ n.pc = "storageAside" /\ n.roll = r.roll
                          /\ SameCommand(n, r) /\ SameFlags(n, r)
    <3>1. e \in Proc /\ e.pc = "storageAside" /\ e.roll = r.roll
      BY <1>3, <2>1 DEF Proc, Pc, RestorePc, Paths
    <3>2. SameCommand(e, r) /\ SameFlags(e, r)
      BY <1>3 DEF Proc, SameCommand, SameFlags
    <3>3. QED
      BY <1>4, <3>1, <3>2
  <2> USE <1>1, <2>2 DEF SameCommand, SameFlags
  <2>3. Vacated(n)' /\ Paired(n)'
    BY <1>3 DEF Sound, Vacated, Paired, RestorePc
  <2>4. damaged' = "no" => Undoable(n)'
    BY <1>3 DEF Sound, Undoable, Replacing, RestorePc, UndoPc
  <2>5. StorageAsideKept(n)' /\ (damaged' # "undo" => DatabaseAsideKept(n)')
    BY <1>3 DEF StorageAsideKept, DatabaseAsideKept, Shape
  <2>6. /\ n.pc \in Replacing /\ n.pc # "migrate"
        /\ ~n.storageReplaced /\ ~n.databaseReplaced
    BY <1>3 DEF Replacing, RestorePc, Shape
  <2>7. QED
    BY <1>2, <2>3, <2>4, <2>5, <2>6, Restoring, RestoringStep DEF Moving, WalMatches
<1>5. CASE Goto(p, "unlinkDb")
  BY <1>1, <1>5, RestoreFailsStep DEF RestorePc
<1>6. QED
  BY <1>4, <1>5 DEF Stage

\* StorageAside: the live storage is aside, its place empty.
LEMMA StorageAsideStep ==
  ASSUME IInv, NEW p \in Procs, StorageAside(p)
  PROVE  IInv'
<1> DEFINE r == proc[p]
           e == [r EXCEPT !.pc = "storageIn", !.roll.storage = live.storage]
<1>1. /\ r.pc = "storageAside" /\ live' = [live EXCEPT !.storage = 0] /\ Become(p, e)
      /\ UNCHANGED <<backups, made, lock, left, gen, want, damaged>>
  BY DEF StorageAside
<1>2. r.pc \in Moving
  BY <1>1 DEF Moving, Replacing, RestorePc
<1>3. r \in Proc /\ Sound(p) /\ Shape(r) /\ live \in Paths
  BY <1>2, Restoring DEF Sound
<1>4. PICK n \in Proc :
        /\ Become(p, n) /\ n.pc = "storageIn"
        /\ n.roll.db = r.roll.db /\ n.roll.wal = r.roll.wal /\ n.roll.storage = live.storage
        /\ SameCommand(n, r) /\ SameFlags(n, r)
  <2>1. e \in Proc /\ e.pc = "storageIn"
    BY <1>3 DEF Proc, Pc, RestorePc, Paths
  <2>2. e.roll.db = r.roll.db /\ e.roll.wal = r.roll.wal /\ e.roll.storage = live.storage
    BY <1>3 DEF Proc, Paths
  <2>3. SameCommand(e, r) /\ SameFlags(e, r)
    BY <1>3 DEF Proc, SameCommand, SameFlags
  <2>4. QED
    BY <1>1, <2>1, <2>2, <2>3
<1>5. live' \in Paths /\ live'.db = live.db /\ live'.wal = live.wal /\ live'.storage = 0
  BY <1>1, <1>3 DEF Paths, Trees, Gens
<1> USE <1>1, <1>4, <1>5 DEF SameCommand, SameFlags
<1>6. Vacated(n)' /\ Paired(n)' /\ WalMatches'
  BY <1>2, <1>3, Restoring DEF Sound, Vacated, Paired, WalMatches, RestorePc, Nothing
<1>7. damaged' = "no" => Undoable(n)'
  BY <1>3 DEF Sound, Undoable, Shape, Back, Vacated, Nothing, Replacing, RestorePc, UndoPc
<1>8. StorageAsideKept(n)' /\ (damaged' # "undo" => DatabaseAsideKept(n)')
  BY <1>3 DEF StorageAsideKept, DatabaseAsideKept, Shape
<1>9. /\ n.pc \in Replacing /\ n.pc # "migrate"
      /\ ~n.storageReplaced /\ ~n.databaseReplaced
  BY <1>3 DEF Replacing, RestorePc, Shape
<1>10. r.roll.storage = 0
  BY <1>3 DEF Sound, Vacated, Nothing
<1>11. QED
  BY <1>2, <1>6, <1>7, <1>8, <1>9, <1>10, Restoring, RestoringStep DEF Moving

\* StorageIn: the restored storage takes the empty place.
LEMMA StorageInStep ==
  ASSUME IInv, NEW p \in Procs, StorageIn(p)
  PROVE  IInv'
<1> DEFINE r == proc[p]
           e == [r EXCEPT !.pc = "mainAside", !.stage.storage = 0, !.storageReplaced = TRUE]
<1>1. /\ r.pc = "storageIn" /\ live' = [live EXCEPT !.storage = r.stage.storage] /\ Become(p, e)
      /\ UNCHANGED <<backups, made, lock, left, gen, want, damaged>>
  BY DEF StorageIn
<1>2. r.pc \in Moving
  BY <1>1 DEF Moving, Replacing, RestorePc
<1>3. r \in Proc /\ Sound(p) /\ Shape(r) /\ live \in Paths
  BY <1>2, Restoring DEF Sound
<1>4. PICK n \in Proc :
        /\ Become(p, n) /\ n.pc = "mainAside"
        /\ n.roll = r.roll
        /\ SameCommand(n, r) /\ n.storageReplaced /\ n.databaseReplaced = r.databaseReplaced
  <2>1. e \in Proc /\ e.pc = "mainAside"
    <3>1. [r.stage EXCEPT !.storage = 0] \in Paths
      BY <1>3 DEF Proc, Paths, Gens, Trees
    <3>2. "mainAside" \in Pc /\ TRUE \in BOOLEAN
      BY DEF Pc, RestorePc
    <3>3. QED
      BY <1>3, <3>1, <3>2 DEF Proc
  <2>2. e.roll = r.roll
    BY <1>3 DEF Proc, Paths
  <2>3. SameCommand(e, r) /\ e.storageReplaced /\ e.databaseReplaced = r.databaseReplaced
    BY <1>3 DEF Proc, SameCommand, SameFlags
  <2>4. QED
    BY <1>1, <2>1, <2>2, <2>3
<1>5. live' \in Paths /\ live'.db = live.db /\ live'.wal = live.wal
  BY <1>1, <1>3 DEF Paths, Trees, Gens, Proc
<1> USE <1>1, <1>4, <1>5 DEF SameCommand, SameFlags
<1>6. Vacated(n)' /\ Paired(n)' /\ WalMatches'
  BY <1>2, <1>3, Restoring DEF Sound, Vacated, Paired, WalMatches, RestorePc, UndoPc, Nothing
<1>7. damaged' = "no" => Undoable(n)'
  BY <1>3 DEF Sound, Undoable, Shape, Back, Vacated, Nothing, Replacing, RestorePc, UndoPc
<1>8. StorageAsideKept(n)' /\ (damaged' # "undo" => DatabaseAsideKept(n)')
  BY <1>2, <1>3, Restoring DEF Sound, Vacated, StorageAsideKept, DatabaseAsideKept, Shape,
     Replacing, RestorePc, UndoPc
<1>9. /\ n.pc \in Replacing
      /\ n.pc \in RestorePc \ {"migrate"} => ~n.databaseReplaced
      /\ n.pc \notin {"stage", "storageAside", "storageIn"}
  BY <1>3 DEF Replacing, RestorePc, UndoPc, Shape, Starting
<1>10. /\ want.storage \in {0, live'.storage, n.roll.storage} \/ "storage" \in left
       /\ damaged # "undo" => want.db \in {0, live'.db, n.roll.db} \/ "db" \in left
  BY <1>2, <1>3, Restoring DEF Sound, Vacated, StorageAsideKept, DatabaseAsideKept,
     Replacing, RestorePc, UndoPc
<1>11. QED
  BY <1>2, <1>6, <1>7, <1>8, <1>9, <1>10, Restoring, RestoringStep DEF Moving

\* MainAside: the live database file is aside, its place empty.
LEMMA MainAsideStep ==
  ASSUME IInv, NEW p \in Procs, MainAside(p)
  PROVE  IInv'
<1> DEFINE r == proc[p]
           e == [r EXCEPT !.pc = "walAside", !.roll.db = live.db]
<1>1. /\ r.pc = "mainAside" /\ live' = [live EXCEPT !.db = 0] /\ Become(p, e)
      /\ UNCHANGED <<backups, made, lock, left, gen, want, damaged>>
  BY DEF MainAside
<1>2. r.pc \in Moving
  BY <1>1 DEF Moving, Replacing, RestorePc
<1>3. r \in Proc /\ Sound(p) /\ Shape(r) /\ live \in Paths
  BY <1>2, Restoring DEF Sound
<1>4. PICK n \in Proc :
        /\ Become(p, n) /\ n.pc = "walAside"
        /\ n.roll.db = live.db /\ n.roll.wal = r.roll.wal /\ n.roll.storage = r.roll.storage
        /\ SameCommand(n, r) /\ SameFlags(n, r)
  <2>1. e \in Proc /\ e.pc = "walAside"
    BY <1>3 DEF Proc, Pc, RestorePc, Paths, Gens, Trees
  <2>2. e.roll.db = live.db /\ e.roll.wal = r.roll.wal /\ e.roll.storage = r.roll.storage
    BY <1>3 DEF Proc, Paths
  <2>3. SameCommand(e, r) /\ SameFlags(e, r)
    BY <1>3 DEF Proc, SameCommand, SameFlags
  <2>4. QED
    BY <1>1, <2>1, <2>2, <2>3
<1>5. live' \in Paths /\ live'.db = 0 /\ live'.wal = live.wal /\ live'.storage = live.storage
  BY <1>1, <1>3 DEF Paths, Trees, Gens, Proc
<1> USE <1>1, <1>4, <1>5 DEF SameCommand, SameFlags
<1>6. Vacated(n)' /\ Paired(n)' /\ WalMatches'
  BY <1>2, <1>3, Restoring DEF Sound, Vacated, Paired, WalMatches, RestorePc, UndoPc, Nothing
<1>7. damaged' = "no" => Undoable(n)'
  BY <1>3 DEF Sound, Undoable, Shape, Back, Vacated, Nothing, Replacing, RestorePc, UndoPc
<1>8. StorageAsideKept(n)' /\ (damaged' # "undo" => DatabaseAsideKept(n)')
  BY <1>2, <1>3, Restoring DEF Sound, Vacated, StorageAsideKept, DatabaseAsideKept, Shape,
     Replacing, RestorePc, UndoPc
<1>9. /\ n.pc \in Replacing
      /\ n.pc \in RestorePc \ {"migrate"} => ~n.databaseReplaced
      /\ n.pc \notin {"stage", "storageAside", "storageIn"}
  BY <1>3 DEF Replacing, RestorePc, UndoPc, Shape, Starting
<1>10. /\ want.storage \in {0, live'.storage, n.roll.storage} \/ "storage" \in left
       /\ damaged # "undo" => want.db \in {0, live'.db, n.roll.db} \/ "db" \in left
  BY <1>2, <1>3, Restoring DEF Sound, Vacated, StorageAsideKept, DatabaseAsideKept,
     Replacing, RestorePc, UndoPc
<1>11. QED
  BY <1>2, <1>6, <1>7, <1>8, <1>9, <1>10, Restoring, RestoringStep DEF Moving

\* WalAside: the write-ahead log follows its database.
LEMMA WalAsideStep ==
  ASSUME IInv, NEW p \in Procs, WalAside(p)
  PROVE  IInv'
<1> DEFINE r == proc[p]
           e == [r EXCEPT !.pc = "dbIn", !.roll.wal = live.wal]
<1>1. /\ r.pc = "walAside" /\ live' = [live EXCEPT !.wal = 0] /\ Become(p, e)
      /\ UNCHANGED <<backups, made, lock, left, gen, want, damaged>>
  BY DEF WalAside
<1>2. r.pc \in Moving
  BY <1>1 DEF Moving, Replacing, RestorePc
<1>3. r \in Proc /\ Sound(p) /\ Shape(r) /\ live \in Paths
  BY <1>2, Restoring DEF Sound
<1>4. PICK n \in Proc :
        /\ Become(p, n) /\ n.pc = "dbIn"
        /\ n.roll.db = r.roll.db /\ n.roll.wal = live.wal /\ n.roll.storage = r.roll.storage
        /\ SameCommand(n, r) /\ SameFlags(n, r)
  <2>1. e \in Proc /\ e.pc = "dbIn"
    BY <1>3 DEF Proc, Pc, RestorePc, Paths, Gens, Trees
  <2>2. e.roll.db = r.roll.db /\ e.roll.wal = live.wal /\ e.roll.storage = r.roll.storage
    BY <1>3 DEF Proc, Paths
  <2>3. SameCommand(e, r) /\ SameFlags(e, r)
    BY <1>3 DEF Proc, SameCommand, SameFlags
  <2>4. QED
    BY <1>1, <2>1, <2>2, <2>3
<1>5. live' \in Paths /\ live'.db = live.db /\ live'.wal = 0 /\ live'.storage = live.storage
  BY <1>1, <1>3 DEF Paths, Trees, Gens, Proc
<1> USE <1>1, <1>4, <1>5 DEF SameCommand, SameFlags
<1>6. Vacated(n)' /\ Paired(n)' /\ WalMatches'
  BY <1>2, <1>3, Restoring DEF Sound, Vacated, Paired, WalMatches, RestorePc, UndoPc, Nothing
<1>7. damaged' = "no" => Undoable(n)'
  BY <1>3 DEF Sound, Undoable, Shape, Back, Vacated, Nothing, Replacing, RestorePc, UndoPc
<1>8. StorageAsideKept(n)' /\ (damaged' # "undo" => DatabaseAsideKept(n)')
  BY <1>2, <1>3, Restoring DEF Sound, Vacated, StorageAsideKept, DatabaseAsideKept, Shape,
     Replacing, RestorePc, UndoPc
<1>9. /\ n.pc \in Replacing
      /\ n.pc \in RestorePc \ {"migrate"} => ~n.databaseReplaced
      /\ n.pc \notin {"stage", "storageAside", "storageIn"}
  BY <1>3 DEF Replacing, RestorePc, UndoPc, Shape, Starting
<1>10. /\ want.storage \in {0, live'.storage, n.roll.storage} \/ "storage" \in left
       /\ damaged # "undo" => want.db \in {0, live'.db, n.roll.db} \/ "db" \in left
  BY <1>2, <1>3, Restoring DEF Sound, Vacated, StorageAsideKept, DatabaseAsideKept,
     Replacing, RestorePc, UndoPc
<1>11. QED
  BY <1>2, <1>6, <1>7, <1>8, <1>9, <1>10, Restoring, RestoringStep DEF Moving

\* DbIn: the restored database takes the empty place, and no log lies beside it.
LEMMA DbInStep ==
  ASSUME IInv, NEW p \in Procs, DbIn(p)
  PROVE  IInv'
<1> DEFINE r == proc[p]
           e == [r EXCEPT !.pc = "migrate", !.stage.db = 0, !.databaseReplaced = TRUE]
<1>1. /\ r.pc = "dbIn" /\ live' = [live EXCEPT !.db = r.stage.db] /\ Become(p, e)
      /\ UNCHANGED <<backups, made, lock, left, gen, want, damaged>>
  BY DEF DbIn
<1>2. r.pc \in Moving
  BY <1>1 DEF Moving, Replacing, RestorePc
<1>3. r \in Proc /\ Sound(p) /\ Shape(r) /\ live \in Paths
  BY <1>2, Restoring DEF Sound
<1>4. PICK n \in Proc :
        /\ Become(p, n) /\ n.pc = "migrate"
        /\ n.roll = r.roll
        /\ SameCommand(n, r) /\ n.storageReplaced = r.storageReplaced /\ n.databaseReplaced
  <2>1. e \in Proc /\ e.pc = "migrate"
    <3>1. [r.stage EXCEPT !.db = 0] \in Paths
      BY <1>3 DEF Proc, Paths, Gens, Trees
    <3>2. "migrate" \in Pc /\ TRUE \in BOOLEAN
      BY DEF Pc, RestorePc
    <3>3. QED
      BY <1>3, <3>1, <3>2 DEF Proc
  <2>2. e.roll = r.roll
    BY <1>3 DEF Proc, Paths
  <2>3. SameCommand(e, r) /\ e.storageReplaced = r.storageReplaced /\ e.databaseReplaced
    BY <1>3 DEF Proc, SameCommand, SameFlags
  <2>4. QED
    BY <1>1, <2>1, <2>2, <2>3
<1>5. live' \in Paths /\ live'.wal = live.wal /\ live'.storage = live.storage
  BY <1>1, <1>3 DEF Paths, Trees, Gens, Proc
<1> USE <1>1, <1>4, <1>5 DEF SameCommand, SameFlags
<1>6. Vacated(n)' /\ Paired(n)' /\ WalMatches'
  BY <1>2, <1>3, Restoring DEF Sound, Vacated, Paired, WalMatches, RestorePc, UndoPc, Nothing
<1>7. damaged' = "no" => Undoable(n)'
  BY <1>3 DEF Sound, Undoable, Shape, Back, Vacated, Nothing, Replacing, RestorePc, UndoPc
<1>8. StorageAsideKept(n)' /\ (damaged' # "undo" => DatabaseAsideKept(n)')
  BY <1>2, <1>3, Restoring DEF Sound, Vacated, StorageAsideKept, DatabaseAsideKept, Shape,
     Replacing, RestorePc, UndoPc
<1>9. /\ n.pc \in Replacing
      /\ n.pc \in RestorePc \ {"migrate"} => ~n.databaseReplaced
      /\ n.pc \notin {"stage", "storageAside", "storageIn"}
  BY <1>3 DEF Replacing, RestorePc, UndoPc, Shape, Starting
<1>10. /\ want.storage \in {0, live'.storage, n.roll.storage} \/ "storage" \in left
       /\ damaged # "undo" => want.db \in {0, live'.db, n.roll.db} \/ "db" \in left
  BY <1>2, <1>3, Restoring DEF Sound, Vacated, StorageAsideKept, DatabaseAsideKept,
     Replacing, RestorePc, UndoPc
<1>11. QED
  BY <1>2, <1>6, <1>7, <1>8, <1>9, <1>10, Restoring, RestoringStep DEF Moving

\* UnlinkDb: a database that was put in place makes way for the one aside.
LEMMA UnlinkDbStep ==
  ASSUME IInv, NEW p \in Procs, UnlinkDb(p)
  PROVE  IInv'
<1> DEFINE r == proc[p]
           e == [r EXCEPT !.pc = "dbBack"]
<1>1. /\ r.pc = "unlinkDb" /\ live' = [live EXCEPT !.db = IF r.databaseReplaced THEN 0 ELSE @] /\ Become(p, e)
      /\ UNCHANGED <<backups, made, lock, left, gen, want, damaged>>
  BY DEF UnlinkDb, Goto
<1>2. r.pc \in Moving
  BY <1>1 DEF Moving, Replacing, UndoPc
<1>3. r \in Proc /\ Sound(p) /\ Shape(r) /\ live \in Paths
  BY <1>2, Restoring DEF Sound
<1>4. PICK n \in Proc :
        /\ Become(p, n) /\ n.pc = "dbBack"
        /\ n.roll = r.roll
        /\ SameCommand(n, r) /\ SameFlags(n, r)
  <2>1. e \in Proc /\ e.pc = "dbBack"
    BY <1>3 DEF Proc, Pc, UndoPc, Paths, Gens, Trees
  <2>2. e.roll = r.roll
    BY <1>3 DEF Proc, Paths
  <2>3. SameCommand(e, r) /\ SameFlags(e, r)
    BY <1>3 DEF Proc, SameCommand, SameFlags
  <2>4. QED
    BY <1>1, <2>1, <2>2, <2>3
<1>5. live' \in Paths /\ live'.db = (IF r.databaseReplaced THEN 0 ELSE live.db)
      /\ live'.wal = live.wal /\ live'.storage = live.storage
  BY <1>1, <1>3 DEF Paths, Trees, Gens, Proc
<1> USE <1>1, <1>4, <1>5 DEF SameCommand, SameFlags
<1>6. Vacated(n)' /\ Paired(n)' /\ WalMatches'
  BY <1>2, <1>3, Restoring DEF Sound, Vacated, Paired, WalMatches, RestorePc, UndoPc, Nothing
<1>7. damaged' = "no" => Undoable(n)'
  BY <1>3 DEF Sound, Undoable, Shape, Back, Vacated, Nothing, Replacing, RestorePc, UndoPc
<1>8. StorageAsideKept(n)' /\ (damaged' # "undo" => DatabaseAsideKept(n)')
  BY <1>2, <1>3, Restoring DEF Sound, Vacated, StorageAsideKept, DatabaseAsideKept, Shape,
     Replacing, RestorePc, UndoPc
<1>9. /\ n.pc \in Replacing
      /\ n.pc \in RestorePc \ {"migrate"} => ~n.databaseReplaced
      /\ n.pc \notin {"stage", "storageAside", "storageIn"}
  BY <1>3 DEF Replacing, RestorePc, UndoPc, Shape, Starting
<1>10. /\ want.storage \in {0, live'.storage, n.roll.storage} \/ "storage" \in left
       /\ damaged # "undo" => want.db \in {0, live'.db, n.roll.db} \/ "db" \in left
  BY <1>2, <1>3, Restoring DEF Sound, Vacated, StorageAsideKept, DatabaseAsideKept,
     Replacing, RestorePc, UndoPc
<1>11. QED
  BY <1>2, <1>6, <1>7, <1>8, <1>9, <1>10, Restoring, RestoringStep DEF Moving

\* _restore_database_rollback moves a file to an empty place beside which nothing of
\* another database lies, or finds the rollback directory empty.
LEMMA DbBackStep ==
  ASSUME IInv, NEW p \in Procs, DbBack(p)
  PROVE  IInv'
<1> DEFINE r == proc[p]
<1>1. r.pc = "dbBack" /\ UNCHANGED <<backups, made, lock, left, gen, want, damaged>>
  BY DEF DbBack
<1>2. r.pc \in Moving
  BY <1>1 DEF Moving, Replacing, UndoPc
<1>3. r \in Proc /\ Sound(p) /\ Shape(r) /\ live \in Paths
  BY <1>2, Restoring DEF Sound
<1>4. ASSUME NEW n \in Proc, Become(p, n), SameCommand(n, r), SameFlags(n, r),
             n.pc \in {"dbBack", "clearStorage"}, n.roll.storage = r.roll.storage,
             n.pc = "clearStorage" => n.roll.db = 0 /\ n.roll.wal = 0,
             live' \in Paths, live'.storage = live.storage,
             \/ /\ r.roll.db # 0 /\ live'.db = r.roll.db /\ n.roll.db = 0
                /\ live'.wal = live.wal /\ n.roll.wal = r.roll.wal
             \/ /\ r.roll.wal # 0 /\ live'.wal = r.roll.wal /\ n.roll.wal = 0
                /\ live'.db = live.db /\ n.roll.db = r.roll.db
             \/ live' = live /\ n.roll = r.roll
      PROVE  IInv'
  <2> USE <1>1, <1>4 DEF SameCommand, SameFlags
  <2>1. Vacated(n)' /\ Paired(n)' /\ WalMatches'
    BY <1>2, <1>3, Restoring DEF Sound, Vacated, Paired, WalMatches, RestorePc, UndoPc
  <2>2. damaged' = "no" => Undoable(n)'
    BY <1>3 DEF Sound, Undoable, Back, Vacated, Replacing, RestorePc, UndoPc
  <2>3. StorageAsideKept(n)' /\ (damaged' # "undo" => DatabaseAsideKept(n)')
    BY <1>3 DEF Sound, StorageAsideKept, DatabaseAsideKept, Replacing, RestorePc, UndoPc
  <2>4. n.pc \in Replacing \ RestorePc
    BY DEF Replacing, RestorePc, UndoPc
  <2>5. /\ want.storage \in {0, live'.storage, n.roll.storage} \/ "storage" \in left
        /\ damaged # "undo" => want.db \in {0, live'.db, n.roll.db} \/ "db" \in left
    BY <1>2, <1>3, Restoring DEF Sound, Vacated
  <2>6. QED
    BY <1>2, <2>1, <2>2, <2>3, <2>4, <2>5, Restoring, RestoringStep DEF Moving, RestorePc
<1>5. CASE /\ r.roll.db # 0 /\ live' = [live EXCEPT !.db = r.roll.db]
           /\ Become(p, [r EXCEPT !.roll.db = 0])
  <2> DEFINE e == [r EXCEPT !.roll.db = 0]
  <2>1. [r.roll EXCEPT !.db = 0] \in Paths
    BY <1>3 DEF Proc, Paths, Gens
  <2>2. e \in Proc /\ e.pc = r.pc /\ SameCommand(e, r) /\ SameFlags(e, r)
    BY <1>3, <2>1 DEF Proc, SameCommand, SameFlags
  <2>3. e.roll.db = 0 /\ e.roll.wal = r.roll.wal /\ e.roll.storage = r.roll.storage
    BY <1>3 DEF Proc, Paths
  <2>4. /\ live' \in Paths /\ live'.db = r.roll.db /\ live'.wal = live.wal
        /\ live'.storage = live.storage
    BY <1>3, <1>5 DEF Proc, Paths
  <2> HIDE DEF e
  <2>5. Become(p, e)
    BY <1>5 DEF e
  <2>6. QED
    BY <1>1, <1>4, <1>5, <2>2, <2>3, <2>4, <2>5
<1>6. CASE /\ r.roll.wal # 0 /\ live' = [live EXCEPT !.wal = r.roll.wal]
           /\ Become(p, [r EXCEPT !.roll.wal = 0])
  <2> DEFINE e == [r EXCEPT !.roll.wal = 0]
  <2>1. [r.roll EXCEPT !.wal = 0] \in Paths
    BY <1>3 DEF Proc, Paths, Gens
  <2>2. e \in Proc /\ e.pc = r.pc /\ SameCommand(e, r) /\ SameFlags(e, r)
    BY <1>3, <2>1 DEF Proc, SameCommand, SameFlags
  <2>3. e.roll.db = r.roll.db /\ e.roll.wal = 0 /\ e.roll.storage = r.roll.storage
    BY <1>3 DEF Proc, Paths
  <2>4. /\ live' \in Paths /\ live'.wal = r.roll.wal /\ live'.db = live.db
        /\ live'.storage = live.storage
    BY <1>3, <1>6 DEF Proc, Paths
  <2> HIDE DEF e
  <2>5. Become(p, e)
    BY <1>6 DEF e
  <2>6. QED
    BY <1>1, <1>4, <1>6, <2>2, <2>3, <2>4, <2>5
<1>7. CASE r.roll.db = 0 /\ r.roll.wal = 0 /\ Goto(p, "clearStorage") /\ UNCHANGED live
  <2>1. PICK n \in Proc : /\ Become(p, n) /\ n.pc = "clearStorage" /\ n.roll = r.roll
                          /\ SameCommand(n, r) /\ SameFlags(n, r)
    BY <1>3, <1>7, GotoEffect DEF Pc, UndoPc
  <2>2. QED
    BY <1>3, <1>4, <1>7, <2>1
<1>8. QED
  BY <1>5, <1>6, <1>7 DEF DbBack

\* ClearStorage: restored files make way for those aside; if some stay, that is a damage.
LEMMA ClearStorageStep ==
  ASSUME IInv, NEW p \in Procs, ClearStorage(p)
  PROVE  IInv'
<1> DEFINE r == proc[p]
<1>1. /\ r.pc = "clearStorage" /\ Goto(p, "storageBack")
      /\ UNCHANGED <<backups, made, lock, left, gen, want>>
  BY DEF ClearStorage
<1>2. r.pc \in Moving
  BY <1>1 DEF Moving, Replacing, UndoPc
<1>3. r \in Proc /\ Sound(p) /\ Shape(r) /\ live \in Paths
  BY <1>2, Restoring DEF Sound
<1>4. PICK n \in Proc : /\ Become(p, n) /\ n.pc = "storageBack" /\ n.roll = r.roll
                        /\ SameCommand(n, r) /\ SameFlags(n, r)
  BY <1>1, <1>3, GotoEffect DEF Pc, UndoPc
<1>5. PICK rest \in {0, Partial} :
        /\ live' = [live EXCEPT !.storage = IF r.storageReplaced THEN rest ELSE @]
        /\ \/ rest = 0 /\ damaged' = damaged
           \/ damaged' = "undo"
  BY DEF ClearStorage
<1>6. /\ live' \in Paths /\ live'.db = live.db /\ live'.wal = live.wal
      /\ live'.storage = IF r.storageReplaced THEN rest ELSE live.storage
  BY <1>3, <1>5 DEF Paths, Trees, Gens
<1> USE <1>1, <1>4, <1>5, <1>6 DEF SameCommand, SameFlags
<1>7. Vacated(n)' /\ Paired(n)' /\ WalMatches'
  BY <1>2, <1>3, Restoring DEF Sound, Vacated, Paired, WalMatches, RestorePc, UndoPc
<1>8. damaged' = "no" => Undoable(n)'
  BY <1>3 DEF Sound, Undoable, Back, Replacing, RestorePc, UndoPc
<1>9. StorageAsideKept(n)' /\ (damaged' # "undo" => DatabaseAsideKept(n)')
  BY DEF StorageAsideKept, DatabaseAsideKept
<1>10. n.pc \in Replacing \ RestorePc
  BY DEF Replacing, RestorePc, UndoPc
<1>11. /\ want.storage \in {0, live'.storage, n.roll.storage} \/ "storage" \in left
       /\ damaged' # "undo" => want.db \in {0, live'.db, n.roll.db} \/ "db" \in left
  BY <1>2, <1>3, Restoring DEF Sound, StorageAsideKept, Replacing, UndoPc
<1>12. damaged' \in {"no", "killed", "undo"}
  BY <1>2, Restoring
<1>13. QED
  BY <1>2, <1>7, <1>8, <1>9, <1>10, <1>11, <1>12, Restoring, RestoringStep
     DEF Moving, RestorePc

\* StorageBack: the storage is back in its empty place, or stays aside as a damage.
LEMMA StorageBackStep ==
  ASSUME IInv, NEW p \in Procs, StorageBack(p)
  PROVE  IInv'
<1> DEFINE r == proc[p]
           e == [r EXCEPT !.pc = "finally", !.roll.storage = 0]
           moved == r.roll.storage # 0
<1>1. /\ r.pc = "storageBack"
      /\ UNCHANGED <<backups, made, lock, left, gen, want>>
  BY DEF StorageBack
<1>2. r.pc \in Moving
  BY <1>1 DEF Moving, Replacing, UndoPc
<1>3. r \in Proc /\ Sound(p) /\ Shape(r) /\ live \in Paths /\ want \in Paths
  BY <1>2, Restoring DEF Sound
<1>4. CASE Goto(p, "finally") /\ damaged' = "undo" /\ UNCHANGED live
  <2>1. PICK n \in Proc : /\ Become(p, n) /\ n.pc = "finally" /\ n.roll = r.roll
                          /\ SameCommand(n, r) /\ SameFlags(n, r)
    BY <1>3, <1>4, GotoEffect DEF Pc
  <2> USE <1>1, <1>4, <2>1 DEF SameCommand, SameFlags
  <2>2. Vacated(n)' /\ Paired(n)' /\ StorageAsideKept(n)' /\ n.pc \notin RestorePc
    BY DEF Vacated, Paired, StorageAsideKept, Replacing, RestorePc, UndoPc
  <2>3. QED
    BY <1>2, <2>2, Restoring, RestoringStep DEF Moving, WalMatches
<1>5. CASE /\ ~(moved /\ live.storage # 0) /\ Become(p, e) /\ UNCHANGED damaged
           /\ live' = [live EXCEPT !.storage = IF moved THEN r.roll.storage ELSE @]
  <2>1. PICK n \in Proc :
          /\ Become(p, n) /\ n.pc = "finally"
          /\ n.roll.db = r.roll.db /\ n.roll.wal = r.roll.wal /\ n.roll.storage = 0
          /\ SameCommand(n, r) /\ SameFlags(n, r)
    <3>1. [r.roll EXCEPT !.storage = 0] \in Paths
      BY <1>3 DEF Proc, Paths, Trees, Gens
    <3>2. e \in Proc /\ e.pc = "finally" /\ SameCommand(e, r) /\ SameFlags(e, r)
      BY <1>3, <3>1 DEF Proc, Pc, SameCommand, SameFlags
    <3>3. e.roll.db = r.roll.db /\ e.roll.wal = r.roll.wal /\ e.roll.storage = 0
      BY <1>3 DEF Proc, Paths
    <3>4. QED
      BY <1>5, <3>2, <3>3
  <2>2. /\ live' \in Paths /\ live'.db = live.db /\ live'.wal = live.wal
        /\ live'.storage = IF moved THEN r.roll.storage ELSE live.storage
    BY <1>3, <1>5 DEF Proc, Paths
  <2> USE <1>1, <1>5, <2>1, <2>2 DEF SameCommand, SameFlags
  <2>3. Vacated(n)' /\ Paired(n)' /\ StorageAsideKept(n)' /\ Undoable(n)'
    BY DEF Vacated, Paired, StorageAsideKept, Undoable, Replacing, RestorePc, UndoPc
  <2>4. WalMatches' /\ DatabaseAsideKept(n)'
    BY <1>2, <1>3, Restoring DEF WalMatches, DatabaseAsideKept, Sound, Vacated
  <2>5. damaged' = "no" => live' = want'
    <3> SUFFICES ASSUME damaged = "no" PROVE live' = want
      OBVIOUS
    <3>1. live'.db = want.db /\ live'.wal = want.wal /\ live'.storage = want.storage
      BY <1>3 DEF Sound, Undoable, Back
    <3>2. QED
      BY <1>3, <3>1, SamePaths
  <2>6. /\ want.storage \in {0, live'.storage, n.roll.storage} \/ "storage" \in left
        /\ damaged # "undo" => want.db \in {0, live'.db, n.roll.db} \/ "db" \in left
    BY <1>2, <1>3, Restoring
  <2>7. n.pc \notin RestorePc
    BY DEF RestorePc
  <2>8. QED
    BY <1>2, <2>3, <2>4, <2>5, <2>6, <2>7, Restoring, RestoringStep DEF Moving
<1>6. QED
  BY <1>4, <1>5 DEF StorageBack

\* Migrate: what is live is now what is wanted; the paths aside go.
LEMMA MigrateStep ==
  ASSUME IInv, NEW p \in Procs, Migrate(p)
  PROVE  IInv'
<1> DEFINE r == proc[p]
           e == [r EXCEPT !.pc = "finally", !.roll = Nothing]
<1>1. /\ r.pc = "migrate" /\ Become(p, e)
      /\ want' = live /\ left' = {} /\ damaged' = "no"
      /\ UNCHANGED <<live, backups, made, lock, gen>>
  BY DEF Migrate
<1>2. r.pc \in Moving
  BY <1>1 DEF Moving, Replacing, RestorePc
<1>3. r \in Proc /\ live \in Paths
  BY <1>2, Restoring
<1>4. PICK n \in Proc : /\ Become(p, n) /\ n.pc = "finally" /\ n.roll = Nothing
                        /\ SameCommand(n, r) /\ SameFlags(n, r)
  <2>1. Nothing \in Paths
    BY DEF Nothing, Paths, Gens, Trees
  <2>2. e \in Proc /\ e.pc = "finally" /\ e.roll = Nothing
    BY <1>3, <2>1 DEF Proc, Pc
  <2>3. SameCommand(e, r) /\ SameFlags(e, r)
    BY <1>3 DEF Proc, SameCommand, SameFlags
  <2>4. QED
    BY <1>1, <2>2, <2>3
<1> USE <1>1, <1>4 DEF SameCommand, SameFlags
<1>5. Vacated(n)' /\ Paired(n)' /\ StorageAsideKept(n)' /\ Undoable(n)'
  BY DEF Vacated, Paired, StorageAsideKept, Undoable, Replacing, RestorePc, UndoPc
<1>6. DatabaseAsideKept(n)'
  BY DEF DatabaseAsideKept, Nothing
<1>7. n.pc \notin RestorePc
  BY DEF RestorePc
<1>8. QED
  BY <1>2, <1>3, <1>5, <1>6, <1>7, Restoring, RestoringStep DEF Moving, WalMatches

\* UndoFails: an interrupt or a failed compensation is a damage.
LEMMA UndoFailsStep ==
  ASSUME IInv, NEW p \in Procs, UndoFails(p)
  PROVE  IInv'
<1> DEFINE r == proc[p]
<1>1. /\ r.pc \in Replacing /\ Goto(p, "finally") /\ damaged' = "undo"
      /\ UNCHANGED <<live, backups, made, lock, left, gen, want>>
  BY DEF UndoFails, Replacing
<1>2. r.pc \in Moving
  BY <1>1 DEF Moving
<1>3. r \in Proc
  BY <1>2, Restoring
<1>4. PICK n \in Proc : /\ Become(p, n) /\ n.pc = "finally" /\ n.roll = r.roll
                        /\ SameCommand(n, r) /\ SameFlags(n, r)
  BY <1>1, <1>3, GotoEffect DEF Pc
<1> USE <1>1, <1>4 DEF SameCommand, SameFlags
<1>5. Vacated(n)' /\ Paired(n)' /\ StorageAsideKept(n)' /\ n.pc \notin RestorePc
  BY DEF Vacated, Paired, StorageAsideKept, Replacing, RestorePc, UndoPc
<1>6. QED
  BY <1>2, <1>5, Restoring, RestoringStep DEF Moving, WalMatches

\* Finally: what is removed is wanted nowhere, or stays behind.
LEMMA FinallyStep ==
  ASSUME IInv, NEW p \in Procs, Finally(p)
  PROVE  IInv'
<1> DEFINE r == proc[p]
           e == [r EXCEPT !.pc = "release", !.stage = Nothing, !.roll = Nothing]
<1>1. /\ r.pc = "finally" /\ Become(p, e)
      /\ left' = left \cup Copies({"storage"}, r.roll)
      /\ UNCHANGED <<live, backups, made, lock, gen, want, damaged>>
  BY DEF Finally
<1>2. r.pc \in Moving
  BY <1>1 DEF Moving
<1>3. r \in Proc /\ Sound(p)
  BY <1>2, Restoring
<1>4. PICK n \in Proc : /\ Become(p, n) /\ n.pc = "release" /\ n.roll = Nothing
                        /\ SameCommand(n, r) /\ SameFlags(n, r)
  <2>1. Nothing \in Paths
    BY DEF Nothing, Paths, Gens, Trees
  <2>2. e \in Proc /\ e.pc = "release" /\ e.roll = Nothing
    BY <1>3, <2>1 DEF Proc, Pc
  <2>3. SameCommand(e, r) /\ SameFlags(e, r)
    BY <1>3 DEF Proc, SameCommand, SameFlags
  <2>4. QED
    BY <1>1, <2>2, <2>3
<1>5. left' \subseteq {"db", "storage"} /\ left \subseteq left'
  BY <1>1, <1>2, Restoring DEF Copies
<1>6. want.storage \in {0, live.storage} \/ "storage" \in left'
  BY <1>1, <1>2, Restoring DEF Copies
<1>7. damaged # "undo" => want.db \in {0, live.db} \/ "db" \in left'
  BY <1>1, <1>2, <1>3, <1>5, Restoring DEF Sound, DatabaseAsideKept
<1> USE <1>1, <1>4 DEF SameCommand, SameFlags
<1>8. /\ Vacated(n)' /\ Paired(n)' /\ StorageAsideKept(n)' /\ Undoable(n)'
      /\ DatabaseAsideKept(n)' /\ n.pc \notin RestorePc /\ r.pc \notin Replacing
  BY DEF Vacated, Paired, StorageAsideKept, Undoable, DatabaseAsideKept, Replacing,
     RestorePc, UndoPc
<1>9. QED
  BY <1>2, <1>5, <1>6, <1>7, <1>8, Restoring, RestoringStep DEF Moving, WalMatches

-----------------------------------------------------------------------------
(* The steps of the other commands *)

\* A step of p that is neither a restore's nor touches the live paths keeps the invariant
\* if the process n it becomes has a shape and deletes no backup it should keep.
LEMMA CommandStep ==
  ASSUME IInv, NEW p \in Procs, Locked(p) \/ ~lock, proc[p].pc \notin Moving,
         NEW n \in Proc, Become(p, n), Shape(n), n.pc \notin Moving, Retaining(n)',
         backups' \in [Ids -> Backup], made' \in 0..MaxBackup, lock' \in BOOLEAN,
         n.pc \notin {"idle", "lock"} => lock',
         UNCHANGED <<live, left, gen, want, damaged>>
  PROVE  IInv'
<1>1. /\ proc[p] \in Proc /\ Sound(p) /\ Shape(proc[p])
      /\ live \in Paths /\ want \in Paths /\ WalMatches /\ gen \in 1..MaxGen
      /\ damaged \in {"no", "killed", "undo"} /\ left \subseteq {"db", "storage"}
  BY DEF IInv, TypeOK, Sound
<1>2. proc[p].roll = Nothing /\ n.roll = Nothing
  BY <1>1 DEF Shape, Moving
<1>3. proc'[p] = n => Sound(p)'
  BY DEF Sound, Vacated, Paired, Undoable, StorageAsideKept, DatabaseAsideKept, Moving,
     Replacing, RestorePc, UndoPc
<1>4. proc' = [proc EXCEPT ![p] = n]
  BY DEF Become
<1>5. \A q \in Procs : proc'[q].roll = proc[q].roll
  BY <1>2, <1>4 DEF IInv, TypeOK
<1>6. DataSurvives'
  BY <1>5 DEF IInv, DataSurvives, StorageKept, DatabaseKept
<1>7. damaged' = "no" => live' = want' \/ n.pc \in Replacing
  <2> SUFFICES ASSUME damaged = "no" PROVE live = want
    OBVIOUS
  <2>1. \A q \in Procs \ {p} : proc[q].pc \notin Replacing
    BY OnlyOne, WithoutLock DEF IInv, Sound
  <2>2. QED
    BY <2>1 DEF IInv, Settled, Moving
<1>8. QED
  BY <1>1, <1>3, <1>6, <1>7, WorkStep DEF WalMatches

\* Without the lock there is nothing to delete.
LEMMA NoRetaining == ASSUME NEW n, n.pc \notin {"delete", "rmtree"} PROVE Retaining(n)'
  BY DEF Retaining

\* A step outside the lock concerns the process alone.
LEMMA OutsideStep ==
  ASSUME IInv, NEW p \in Procs, ~Locked(p), NEW n \in Proc, Become(p, n), Shape(n),
         n.pc \in {"idle", "lock"},
         UNCHANGED <<live, backups, made, lock, left, gen, want, damaged>>
  PROVE  IInv'
<1>1. /\ proc' \in [Procs -> Proc] /\ proc'[p] = n
      /\ \A q \in Procs \ {p} : proc'[q] = proc[q]
  BY DEF Become, IInv, TypeOK
<1>2. /\ proc[p].roll = Nothing /\ n.roll = Nothing /\ proc[p].pc \notin Replacing
  BY WithoutLock DEF IInv, Sound, Shape, Replacing, RestorePc, UndoPc
<1>3. TypeOK' /\ WalMatches'
  BY <1>1 DEF IInv, TypeOK, WalMatches
<1>4. LockExclusive'
  BY <1>1 DEF IInv, LockExclusive, Locked
<1>5. ASSUME NEW q \in Procs
      PROVE  Sound(q)'
  <2>1. CASE q = p
    <3>1. Retaining(n)'
      BY NoRetaining
    <3>2. QED
      BY <1>1, <2>1, <3>1 DEF Sound, Vacated, Paired, Undoable, StorageAsideKept,
         DatabaseAsideKept, Replacing, RestorePc, UndoPc
  <2>2. CASE q # p
    <3>1. Sound(q) /\ proc'[q] = proc[q]
      BY <1>1, <2>2 DEF IInv
    <3>2. QED
      BY <3>1 DEF Sound, Retaining, Newer, Complete, Vacated, Paired, Undoable,
         StorageAsideKept, DatabaseAsideKept
  <2>3. QED
    BY <2>1, <2>2
<1>6. Settled'
  BY <1>1, <1>2 DEF IInv, Settled
<1>7. \A q \in Procs : proc'[q].roll = proc[q].roll
  BY <1>1, <1>2
<1>8. DataSurvives'
  BY <1>7 DEF IInv, DataSurvives, StorageKept, DatabaseKept
<1>9. QED
  BY <1>3, <1>4, <1>5, <1>6, <1>8 DEF IInv

\* A command that starts asks for the lock; one that is refused ends.
LEMMA StartStep ==
  ASSUME IInv, NEW p \in Procs,
         \/ StartCreate(p) \/ StartRetention(p) \/ Refused(p)
         \/ \E b \in Ids, safety \in BOOLEAN : StartRestore(p, b, safety)
  PROVE  IInv'
<1>1. /\ proc[p].pc \in {"idle", "lock"} /\ ~Locked(p)
      /\ UNCHANGED <<live, backups, made, lock, left, gen, want, damaged>>
  BY DEF StartCreate, StartRetention, Refused, StartRestore, Locked
<1>2. IdleProc.roll = Nothing /\ ~IdleProc.storageReplaced /\ ~IdleProc.databaseReplaced
  BY DEF IdleProc
<1>3. CASE Become(p, IdleProc)
  <2>1. IdleProc.pc = "idle" /\ IdleProc.op = "none"
    BY DEF IdleProc
  <2>2. Shape(IdleProc)
    BY <1>2, <2>1 DEF Shape, Copying, Deleting, Starting, Replacing, RestorePc, UndoPc
  <2>3. QED
    BY <1>1, <1>3, <2>1, <2>2, IdleProcType, OutsideStep
<1>4. ASSUME NEW n \in Proc, Become(p, n), n.pc = "lock", n.roll = Nothing,
             ~n.storageReplaced, ~n.databaseReplaced,
             \/ n.op = "create" /\ n.making
             \/ n.op = "retention" /\ ~n.making
             \/ n.op = "restore" /\ n.id \in Ids
      PROVE  IInv'
  <2>1. Shape(n)
    BY <1>4 DEF Shape, Copying, Deleting, Starting, Replacing, RestorePc, UndoPc
  <2>2. QED
    BY <1>1, <1>4, <2>1, OutsideStep
<1>5. CASE StartCreate(p)
  <2> DEFINE n == [IdleProc EXCEPT !.pc = "lock", !.op = "create", !.making = TRUE]
  <2>1. n \in Proc
    BY IdleProcType DEF Proc, Pc
  <2>2. /\ n.pc = "lock" /\ n.op = "create" /\ n.making /\ n.roll = Nothing
        /\ ~n.storageReplaced /\ ~n.databaseReplaced
    BY DEF IdleProc
  <2>3. QED
    BY <1>4, <1>5, <2>1, <2>2 DEF StartCreate
<1>6. CASE StartRetention(p)
  <2> DEFINE n == [IdleProc EXCEPT !.pc = "lock", !.op = "retention"]
  <2>1. n \in Proc
    BY IdleProcType DEF Proc, Pc
  <2>2. /\ n.pc = "lock" /\ n.op = "retention" /\ ~n.making /\ n.roll = Nothing
        /\ ~n.storageReplaced /\ ~n.databaseReplaced
    BY DEF IdleProc
  <2>3. QED
    BY <1>4, <1>6, <2>1, <2>2 DEF StartRetention
<1>7. ASSUME NEW b \in Ids, NEW safety \in BOOLEAN, StartRestore(p, b, safety)
      PROVE  IInv'
  <2> DEFINE n == [IdleProc EXCEPT !.pc = "lock", !.op = "restore", !.id = b,
                                   !.making = safety]
  <2>1. n \in Proc
    BY IdleProcType DEF Proc, Pc
  <2>2. /\ n.pc = "lock" /\ n.op = "restore" /\ n.id = b /\ n.roll = Nothing
        /\ ~n.storageReplaced /\ ~n.databaseReplaced
    BY DEF IdleProc
  <2>3. QED
    BY <1>4, <1>7, <2>1, <2>2 DEF StartRestore
<1>8. QED
  BY <1>3, <1>5, <1>6, <1>7 DEF Refused

\* The lock is free, so that nobody replaces anything: what is live is what is wanted,
\* unless something was damaged before.
LEMMA AcquireStep ==
  ASSUME IInv, NEW p \in Procs, Acquire(p)
  PROVE  IInv'
<1> DEFINE r == proc[p]
           q == AfterLock(r)
<1>1. /\ r.pc = "lock" /\ ~lock /\ lock' = TRUE /\ Goto(p, q)
      /\ UNCHANGED <<live, backups, made, left, gen, want, damaged>>
  BY DEF Acquire
<1>2. r \in Proc /\ Shape(r) /\ r.roll = Nothing /\ r.pc \notin Moving
  BY <1>1 DEF IInv, TypeOK, Sound, Shape, Moving, Replacing, RestorePc, UndoPc
<1>3. /\ q \in {"copyDb", "list", "stage"}
      /\ q = "copyDb" => r.op \in {"create", "restore"}
      /\ q = "list" => r.op = "retention"
      /\ q = "stage" => r.op = "restore"
  BY <1>1, <1>2 DEF AfterLock, Shape, Proc
<1>4. q \in Pc
  BY <1>3 DEF Pc, RestorePc
<1>5. PICK n \in Proc : /\ Become(p, n) /\ n.pc = q /\ n.roll = r.roll
                        /\ SameCommand(n, r) /\ SameFlags(n, r)
  BY <1>1, <1>2, <1>4, GotoEffect
<1>6. Shape(n) /\ Retaining(n)'
  BY <1>1, <1>2, <1>3, <1>5 DEF Shape, Retaining, SameCommand, SameFlags, Copying, Deleting,
     Starting, Replacing, RestorePc, UndoPc
<1>7. backups' \in [Ids -> Backup] /\ made' \in 0..MaxBackup
  BY <1>1 DEF IInv, TypeOK
<1>8. CASE q # "stage"
  <2>1. n.pc \notin Moving /\ n.pc \notin {"idle", "lock"}
    BY <1>3, <1>5, <1>8 DEF Moving, Replacing, RestorePc, UndoPc
  <2>2. QED
    BY <1>1, <1>2, <1>5, <1>6, <1>7, <2>1, CommandStep
<1>9. CASE q = "stage"
  <2>1. damaged = "no" => live = want
    BY <1>1, OnlyOne, WithoutLock DEF IInv, Settled, Sound, Locked, Replacing, RestorePc,
       UndoPc
  <2>2. n.roll = Nothing /\ ~n.storageReplaced /\ ~n.databaseReplaced /\ n.pc = "stage"
    BY <1>1, <1>2, <1>5, <1>9 DEF Shape, SameFlags, Starting
  <2>3. Vacated(n)' /\ Paired(n)' /\ StorageAsideKept(n)' /\ DatabaseAsideKept(n)'
    BY <2>2 DEF Vacated, Paired, StorageAsideKept, DatabaseAsideKept, Nothing
  <2>4. damaged' = "no" => Undoable(n)'
    BY <1>1, <2>1, <2>2 DEF Undoable, Back, Nothing
  <2>5. \A v \in Procs : proc'[v].roll = proc[v].roll
    BY <1>5 DEF Become, IInv, TypeOK
  <2>6. DataSurvives' /\ WalMatches'
    BY <1>1, <2>5 DEF IInv, DataSurvives, StorageKept, DatabaseKept, WalMatches
  <2>7. proc'[p] = n => Sound(p)'
    BY <1>6, <2>3, <2>4 DEF Sound
  <2>8. /\ live' \in Paths /\ want' \in Paths /\ lock' \in BOOLEAN
        /\ damaged' \in {"no", "killed", "undo"} /\ left' \subseteq {"db", "storage"}
        /\ gen' \in 1..MaxGen /\ (damaged' = "no" => live' = want')
    BY <1>1, <2>1 DEF IInv, TypeOK
  <2>9. QED
    BY <1>1, <1>5, <1>7, <2>6, <2>7, <2>8, WorkStep
<1>10. QED
  BY <1>8, <1>9

\* A command that lets the lock go has put away what it moved.
LEMMA ReleaseStep ==
  ASSUME IInv, NEW p \in Procs, Release(p)
  PROVE  IInv'
<1> DEFINE r == proc[p]
           e == [r EXCEPT !.pc = "lock", !.making = FALSE]
<1>1. /\ r.pc \in {"release", "safetyDone"} /\ lock' = FALSE
      /\ Become(p, IF r.pc = "safetyDone" THEN e ELSE IdleProc)
      /\ UNCHANGED <<live, backups, made, left, gen, want, damaged>>
  BY DEF Release
<1>2. r \in Proc /\ Shape(r) /\ r.pc \notin Moving /\ Locked(p)
  BY <1>1 DEF IInv, TypeOK, Sound, Moving, Replacing, RestorePc, UndoPc, Locked
<1>3. backups' \in [Ids -> Backup] /\ made' \in 0..MaxBackup
  BY <1>1 DEF IInv, TypeOK
<1>4. CASE r.pc = "safetyDone"
  <2>1. PICK n \in Proc : /\ Become(p, n) /\ n.pc = "lock" /\ n.op = r.op /\ n.id = r.id
                          /\ n.roll = r.roll /\ SameFlags(n, r)
    <3>1. e \in Proc
      BY <1>2 DEF Proc, Pc
    <3>2. /\ e.pc = "lock" /\ e.op = r.op /\ e.id = r.id /\ e.roll = r.roll
          /\ SameFlags(e, r)
      BY <1>2 DEF Proc, SameFlags
    <3>3. QED
      BY <1>1, <1>4, <3>1, <3>2
  <2>2. Shape(n) /\ n.pc \notin Moving
    BY <1>2, <1>4, <2>1 DEF Shape, SameFlags, Moving, Copying, Deleting, Starting,
       Replacing, RestorePc, UndoPc
  <2>3. QED
    BY <1>1, <1>2, <1>3, <2>1, <2>2, NoRetaining, CommandStep
<1>5. CASE r.pc # "safetyDone"
  <2>1. Become(p, IdleProc) /\ IdleProc.pc = "idle" /\ IdleProc.op = "none"
    BY <1>1, <1>5 DEF IdleProc
  <2>2. IdleProc.roll = Nothing /\ ~IdleProc.storageReplaced /\ ~IdleProc.databaseReplaced
    BY DEF IdleProc
  <2>3. Shape(IdleProc) /\ IdleProc.pc \notin Moving
    BY <2>1, <2>2 DEF Shape, Moving, Copying, Deleting, Starting, Replacing, RestorePc, UndoPc
  <2>4. QED
    BY <1>1, <1>2, <1>3, <2>1, <2>3, IdleProcType, NoRetaining, CommandStep
<1>6. QED
  BY <1>4, <1>5

\* Copying works in a private directory; a failure removes it.
LEMMA CopyStep ==
  ASSUME IInv, NEW p \in Procs, CreateFails(p) \/ CopyDb(p) \/ CopyStorage(p)
  PROVE  IInv'
<1> DEFINE r == proc[p]
<1>1. /\ r.pc \in Copying
      /\ UNCHANGED <<live, backups, made, lock, left, gen, want, damaged>>
  BY DEF CreateFails, CopyDb, CopyStorage, Copying
<1>2. r \in Proc /\ Shape(r) /\ r.pc \notin Moving /\ Locked(p) /\ live \in Paths
  BY <1>1 DEF IInv, TypeOK, Sound, Copying, Moving, Replacing, RestorePc, UndoPc, Locked
<1>3. backups' \in [Ids -> Backup] /\ made' \in 0..MaxBackup /\ lock' \in BOOLEAN /\ lock'
  BY <1>1, <1>2 DEF IInv, TypeOK, LockExclusive
<1>4. ASSUME NEW n \in Proc, Become(p, n), n.pc \in {"release", "copyStorage", "publish"},
             n.op = r.op, n.id = r.id, n.roll = r.roll, SameFlags(n, r)
      PROVE  IInv'
  <2>1. Shape(n) /\ n.pc \notin Moving
    BY <1>1, <1>2, <1>4 DEF Shape, SameFlags, Moving, Copying, Deleting, Starting,
       Replacing, RestorePc, UndoPc
  <2>2. QED
    BY <1>1, <1>2, <1>3, <1>4, <2>1, NoRetaining, CommandStep
<1>5. ASSUME NEW s \in Paths, NEW q \in {"release", "copyStorage", "publish"},
             Become(p, [r EXCEPT !.pc = q, !.stage = s])
      PROVE  IInv'
  <2> DEFINE e == [r EXCEPT !.pc = q, !.stage = s]
  <2>1. e \in Proc
    BY <1>2 DEF Proc, Pc
  <2>2. /\ e.pc = q /\ e.op = r.op /\ e.id = r.id /\ e.roll = r.roll
        /\ SameFlags(e, r)
    BY <1>2 DEF Proc, SameFlags
  <2>3. QED
    BY <1>4, <1>5, <2>1, <2>2
<1>6. CASE CreateFails(p)
  <2>1. Nothing \in Paths
    BY DEF Nothing, Paths, Gens, Trees
  <2>2. QED
    BY <1>5, <1>6, <2>1 DEF CreateFails
<1>7. CASE CopyDb(p)
  <2>1. [r.stage EXCEPT !.db = live.db] \in Paths
    BY <1>2 DEF Proc, Paths
  <2>2. [r EXCEPT !.pc = "copyStorage", !.stage.db = live.db]
          = [r EXCEPT !.pc = "copyStorage", !.stage = [r.stage EXCEPT !.db = live.db]]
    BY <1>2 DEF Proc
  <2>3. QED
    BY <1>5, <1>7, <2>1, <2>2 DEF CopyDb
<1>8. CASE CopyStorage(p)
  <2>1. [r.stage EXCEPT !.storage = live.storage] \in Paths
    BY <1>2 DEF Proc, Paths
  <2>2. [r EXCEPT !.pc = "publish", !.stage.storage = live.storage]
          = [r EXCEPT !.pc = "publish", !.stage = [r.stage EXCEPT !.storage = live.storage]]
    BY <1>2 DEF Proc
  <2>3. QED
    BY <1>5, <1>8, <2>1, <2>2 DEF CopyStorage
<1>9. QED
  BY <1>6, <1>7, <1>8

\* Publish: a backup more; whoever lists the backups lists it too.
LEMMA PublishStep ==
  ASSUME IInv, NEW p \in Procs, Publish(p)
  PROVE  IInv'
<1> DEFINE r == proc[p]
           b == [state |-> "complete", db |-> r.stage.db, storage |-> r.stage.storage]
<1>1. /\ r.pc = "publish" /\ made < MaxBackup /\ made' = made + 1
      /\ backups' = [backups EXCEPT ![made + 1] = b]
      /\ UNCHANGED <<live, lock, left, gen, want, damaged>>
  BY DEF Publish
<1>2. r \in Proc /\ Shape(r) /\ r.pc \notin Moving /\ Locked(p) /\ made \in Nat
  BY <1>1 DEF IInv, TypeOK, Sound, Moving, Replacing, RestorePc, UndoPc, Locked
<1>3. made' \in 0..MaxBackup /\ lock' \in BOOLEAN /\ lock'
  BY <1>1, <1>2 DEF IInv, TypeOK, LockExclusive
<1>4. backups' \in [Ids -> Backup]
  <2>1. b \in Backup
    BY <1>2 DEF Proc, Paths, Backup
  <2>2. QED
    BY <1>1, <2>1 DEF IInv, TypeOK
<1>5. PICK q \in {"list", "safetyDone", "release"} :
        /\ Become(p, [r EXCEPT !.pc = q, !.stage = Nothing])
        /\ q = "list" => r.op = "create"
        /\ q = "safetyDone" => r.op # "create"
  BY DEF Publish
<1> DEFINE e == [r EXCEPT !.pc = q, !.stage = Nothing]
<1>6. PICK n \in Proc : /\ Become(p, n) /\ n.pc = q /\ n.op = r.op /\ n.id = r.id
                        /\ n.roll = r.roll /\ SameFlags(n, r)
  <2>1. Nothing \in Paths
    BY DEF Nothing, Paths, Gens, Trees
  <2>2. e \in Proc
    BY <1>2, <2>1 DEF Proc, Pc
  <2>3. /\ e.pc = q /\ e.op = r.op /\ e.id = r.id /\ e.roll = r.roll
        /\ SameFlags(e, r)
    BY <1>2 DEF Proc, SameFlags
  <2>4. QED
    BY <1>5, <2>2, <2>3
<1>7. Shape(n) /\ n.pc \notin Moving /\ n.pc \notin {"delete", "rmtree", "idle", "lock"}
  BY <1>1, <1>2, <1>5, <1>6 DEF Shape, SameFlags, Moving, Copying, Deleting, Starting,
     Replacing, RestorePc, UndoPc
<1>8. QED
  BY <1>1, <1>2, <1>3, <1>4, <1>6, <1>7, NoRetaining, CommandStep

\* ListBackups: every doomed backup has Keep newer ones.
LEMMA ListBackupsStep ==
  ASSUME IInv, NEW p \in Procs, ListBackups(p)
  PROVE  IInv'
<1> DEFINE r == proc[p]
           e == [r EXCEPT !.pc = "delete", !.doomed = Doomed]
<1>1. /\ r.pc = "list" /\ Become(p, e)
      /\ UNCHANGED <<live, backups, made, lock, left, gen, want, damaged>>
  BY DEF ListBackups
<1>2. r \in Proc /\ Shape(r) /\ r.pc \notin Moving /\ Locked(p)
  BY <1>1 DEF IInv, TypeOK, Sound, Moving, Replacing, RestorePc, UndoPc, Locked
<1>3. backups' \in [Ids -> Backup] /\ made' \in 0..MaxBackup /\ lock' \in BOOLEAN /\ lock'
  BY <1>1, <1>2 DEF IInv, TypeOK, LockExclusive
<1>4. PICK n \in Proc : /\ Become(p, n) /\ n.pc = "delete" /\ n.op = r.op /\ n.id = r.id
                        /\ n.roll = r.roll /\ n.doomed = Doomed /\ SameFlags(n, r)
  <2>1. Doomed \in SUBSET Ids
    BY DEF Doomed
  <2>2. e \in Proc
    BY <1>2, <2>1 DEF Proc, Pc
  <2>3. /\ e.pc = "delete" /\ e.op = r.op /\ e.id = r.id /\ e.roll = r.roll
        /\ e.doomed = Doomed /\ SameFlags(e, r)
    BY <1>2 DEF Proc, SameFlags
  <2>4. QED
    BY <1>1, <2>2, <2>3
<1>5. Shape(n) /\ n.pc \notin Moving
  BY <1>1, <1>2, <1>4 DEF Shape, SameFlags, Moving, Copying, Deleting, Starting,
     Replacing, RestorePc, UndoPc
<1>6. \A b : Newer(b)' = Newer(b)
  BY <1>1 DEF Newer, Complete
<1>7. Retaining(n)'
  BY <1>4, <1>6 DEF Retaining, Doomed
<1>8. QED
  BY <1>1, <1>2, <1>3, <1>4, <1>5, <1>7, CommandStep

\* BeginDelete: the newest doomed backup goes first, so that every backup newer than the
\* next one to go is as complete as it was.
LEMMA BeginDeleteStep ==
  ASSUME IInv, NEW p \in Procs, NEW b \in Ids, BeginDelete(p, b)
  PROVE  IInv'
<1> DEFINE r == proc[p]
           e == [r EXCEPT !.pc = "rmtree", !.id = b, !.doomed = @ \ {b}]
<1>1. /\ r.pc = "delete" /\ b \in r.doomed /\ \A c \in r.doomed : c <= b
      /\ backups' = [backups EXCEPT ![b].state = "partial"] /\ Become(p, e)
      /\ UNCHANGED <<live, made, lock, left, gen, want, damaged>>
  BY DEF BeginDelete
<1>2. /\ r \in Proc /\ Shape(r) /\ Retaining(r) /\ r.pc \notin Moving /\ Locked(p)
      /\ backups \in [Ids -> Backup] /\ r.op \in {"create", "retention"}
  BY <1>1 DEF IInv, TypeOK, Sound, Shape, Deleting, Moving, Replacing, RestorePc, UndoPc,
     Locked
<1>3. made' \in 0..MaxBackup /\ lock' \in BOOLEAN /\ lock'
  BY <1>1, <1>2 DEF IInv, TypeOK, LockExclusive
<1>4. backups' \in [Ids -> Backup]
  <2>1. [backups[b] EXCEPT !.state = "partial"] \in Backup
    BY <1>2 DEF Backup
  <2>2. QED
    BY <1>1, <1>2, <2>1
<1>5. /\ ~Complete(b)'
      /\ \A c \in Ids \ {b} : Complete(c)' = Complete(c)
  BY <1>1, <1>2 DEF Complete, Backup
<1>6. PICK n \in Proc : /\ Become(p, n) /\ n.pc = "rmtree" /\ n.op = r.op /\ n.id = b
                        /\ n.roll = r.roll /\ n.doomed = r.doomed \ {b} /\ SameFlags(n, r)
  <2>1. e \in Proc
    BY <1>2 DEF Proc, Pc
  <2>2. /\ e.pc = "rmtree" /\ e.op = r.op /\ e.id = b /\ e.roll = r.roll
        /\ e.doomed = r.doomed \ {b} /\ SameFlags(e, r)
    BY <1>2 DEF Proc, SameFlags
  <2>3. QED
    BY <1>1, <2>1, <2>2
<1>7. Shape(n) /\ n.pc \notin Moving
  BY <1>1, <1>2, <1>6 DEF Shape, SameFlags, Moving, Copying, Deleting, Starting,
     Replacing, RestorePc, UndoPc
<1>8. ASSUME NEW c \in n.doomed
      PROVE  Cardinality(Newer(c)') >= Keep
  <2>1. c \in Ids /\ c < b
    BY <1>1, <1>2, <1>6 DEF Proc, Ids
  <2>2. Newer(b) \subseteq Newer(c)'
    BY <1>5, <2>1 DEF Newer, Ids
  <2>3. IsFiniteSet(Newer(c)')
    <3>1. Newer(c)' \subseteq Ids
      BY DEF Newer
    <3>2. IsFiniteSet(Ids)
      BY FS_Interval DEF Ids
    <3>3. QED
      BY <3>1, <3>2, FS_Subset
  <2>4. Cardinality(Newer(b)) >= Keep
    BY <1>1, <1>2 DEF Retaining
  <2>5. /\ Cardinality(Newer(b)) \in Nat /\ Cardinality(Newer(c)') \in Nat
        /\ Cardinality(Newer(b)) <= Cardinality(Newer(c)')
    BY <2>2, <2>3, NewerFinite, FS_Subset, FS_CardinalityType
  <2>6. QED
    BY <2>4, <2>5
<1>9. Retaining(n)'
  BY <1>5, <1>6, <1>8 DEF Retaining
<1>10. QED
  BY <1>1, <1>2, <1>3, <1>4, <1>6, <1>7, <1>9, CommandStep

\* EndDelete: what is gone was not complete before.
LEMMA EndDeleteStep ==
  ASSUME IInv, NEW p \in Procs, EndDelete(p)
  PROVE  IInv' /\ \A c \in Ids : Complete(c)' = Complete(c)
<1> DEFINE r == proc[p]
<1>1. /\ r.pc = "rmtree" /\ Goto(p, "delete")
      /\ backups' = [backups EXCEPT ![r.id] = NoBackup] \/ UNCHANGED backups
      /\ UNCHANGED <<live, made, lock, left, gen, want, damaged>>
  BY DEF EndDelete
<1>2. /\ r \in Proc /\ Shape(r) /\ Retaining(r) /\ r.pc \notin Moving /\ Locked(p)
      /\ backups \in [Ids -> Backup] /\ r.id \in Ids
  BY <1>1 DEF IInv, TypeOK, Sound, Shape, Moving, Replacing, RestorePc, UndoPc, Locked
<1>3. made' \in 0..MaxBackup /\ lock' \in BOOLEAN /\ lock'
  BY <1>1, <1>2 DEF IInv, TypeOK, LockExclusive
<1>4. backups' \in [Ids -> Backup]
  <2>1. NoBackup \in Backup
    BY DEF NoBackup, Backup, Gens, Trees
  <2>2. QED
    BY <1>1, <1>2, <2>1
<1>5. \A c \in Ids : Complete(c)' = Complete(c)
  <2>1. ~Complete(r.id)
    BY <1>1, <1>2 DEF Retaining
  <2>2. QED
    BY <1>1, <1>2, <2>1 DEF Complete, NoBackup
<1>6. PICK n \in Proc : /\ Become(p, n) /\ n.pc = "delete" /\ n.roll = r.roll
                        /\ SameCommand(n, r) /\ SameFlags(n, r)
  BY <1>1, <1>2, GotoEffect DEF Pc
<1>7. Shape(n) /\ n.pc \notin Moving
  BY <1>1, <1>2, <1>6 DEF Shape, SameCommand, SameFlags, Moving, Copying, Deleting,
     Starting, Replacing, RestorePc, UndoPc
<1>8. \A c : Newer(c)' = Newer(c)
  BY <1>5 DEF Newer
<1>9. Retaining(n)'
  BY <1>1, <1>2, <1>6, <1>8 DEF Retaining, SameCommand
<1>10. QED
  BY <1>1, <1>2, <1>3, <1>4, <1>5, <1>6, <1>7, <1>9, CommandStep

\* RetentionDone: the lock is let go next.
LEMMA RetentionDoneStep ==
  ASSUME IInv, NEW p \in Procs, RetentionDone(p)
  PROVE  IInv'
<1> DEFINE r == proc[p]
<1>1. /\ r.pc = "delete" /\ Goto(p, "release")
      /\ UNCHANGED <<live, backups, made, lock, left, gen, want, damaged>>
  BY DEF RetentionDone
<1>2. r \in Proc /\ Shape(r) /\ r.pc \notin Moving /\ Locked(p)
  BY <1>1 DEF IInv, TypeOK, Sound, Moving, Replacing, RestorePc, UndoPc, Locked
<1>3. backups' \in [Ids -> Backup] /\ made' \in 0..MaxBackup /\ lock' \in BOOLEAN /\ lock'
  BY <1>1, <1>2 DEF IInv, TypeOK, LockExclusive
<1>4. PICK n \in Proc : /\ Become(p, n) /\ n.pc = "release" /\ n.roll = r.roll
                        /\ SameCommand(n, r) /\ SameFlags(n, r)
  BY <1>1, <1>2, GotoEffect DEF Pc
<1>5. Shape(n) /\ n.pc \notin Moving /\ Retaining(n)'
  BY <1>1, <1>2, <1>4 DEF Shape, Retaining, SameCommand, SameFlags, Moving, Copying,
     Deleting, Starting, Replacing, RestorePc, UndoPc
<1>6. QED
  BY <1>1, <1>2, <1>3, <1>4, <1>5, CommandStep

-----------------------------------------------------------------------------
(* The steps of no command *)

\* Crash: of a restore that is killed, the rollback copies are left behind.
LEMMA CrashStep ==
  ASSUME IInv, NEW p \in Procs, Crash(p)
  PROVE  IInv'
<1> DEFINE r == proc[p]
<1>1. /\ r.pc # "idle" /\ Become(p, IdleProc)
      /\ left' = left \cup Copies({"db", "storage"}, r.roll)
      /\ damaged' = IF damaged = "no" /\ r.pc \in RestorePc \cup UndoPc
                    THEN "killed" ELSE damaged
      /\ UNCHANGED <<live, backups, made, lock, gen, want>>
  BY DEF Crash
<1>2. /\ IdleProc.pc = "idle" /\ IdleProc.op = "none" /\ IdleProc.roll = Nothing
      /\ ~IdleProc.storageReplaced /\ ~IdleProc.databaseReplaced
  BY DEF IdleProc
<1>3. Shape(IdleProc) /\ IdleProc.pc \notin Moving
  BY <1>2 DEF Shape, Moving, Copying, Deleting, Starting, Replacing, RestorePc, UndoPc
<1>4. r.pc \notin Moving => left' = left /\ damaged' = damaged
  <2> SUFFICES ASSUME r.pc \notin Moving PROVE left' = left /\ damaged' = damaged
    OBVIOUS
  <2>1. r.roll = Nothing
    BY DEF IInv, Sound, Shape, Moving
  <2>2. QED
    BY <1>1, <2>1 DEF Copies, Nothing, Moving, Replacing
<1>5. CASE ~Locked(p)
  <2>1. r.pc \notin Moving
    BY <1>5 DEF Locked, Moving, Replacing, RestorePc, UndoPc
  <2>2. QED
    BY <1>1, <1>2, <1>3, <1>4, <1>5, <2>1, IdleProcType, OutsideStep
<1>6. CASE Locked(p) /\ r.pc \notin Moving
  <2>1. backups' \in [Ids -> Backup] /\ made' \in 0..MaxBackup /\ lock' \in BOOLEAN
    BY <1>1 DEF IInv, TypeOK
  <2>2. QED
    BY <1>1, <1>2, <1>3, <1>4, <1>6, <2>1, IdleProcType, NoRetaining, CommandStep
<1>7. CASE r.pc \in Moving
  <2>1. /\ Locked(p) /\ live \in Paths /\ want \in Paths /\ WalMatches
        /\ want.storage \in {0, live.storage, r.roll.storage} \/ "storage" \in left
        /\ damaged # "undo" => want.db \in {0, live.db, r.roll.db} \/ "db" \in left
        /\ damaged = "no" => live = want \/ r.pc \in Replacing
    BY <1>7, Restoring
  <2>2. /\ backups' \in [Ids -> Backup] /\ made' \in 0..MaxBackup /\ lock' \in BOOLEAN
        /\ damaged' \in {"no", "killed", "undo"} /\ gen' \in 1..MaxGen
        /\ live' \in Paths /\ want' \in Paths /\ left' \subseteq {"db", "storage"}
    BY <1>1, <2>1 DEF IInv, TypeOK, Copies
  <2>3. damaged' = "no" => live' = want'
    BY <1>1, <2>1 DEF Replacing
  <2>4. proc'[p] = IdleProc => Sound(p)'
    BY <1>2, <1>3, NoRetaining DEF Sound, Vacated, Paired, Undoable, StorageAsideKept,
       DatabaseAsideKept, Replacing, RestorePc, UndoPc
  <2>5. want.storage \in {0, live.storage} \/ "storage" \in left'
    BY <1>1, <2>1 DEF Copies
  <2>6. damaged' # "undo" => want.db \in {0, live.db} \/ "db" \in left'
    BY <1>1, <2>1 DEF Copies
  <2>7. DataSurvives'
    BY <1>1, <2>5, <2>6 DEF DataSurvives, StorageKept, DatabaseKept
  <2>8. QED
    BY <1>1, <1>2, <2>1, <2>2, <2>3, <2>4, <2>7, IdleProcType, WorkStep DEF WalMatches
<1>8. QED
  BY <1>5, <1>6, <1>7

\* RemoveStaleLock: nobody alive holds it.
LEMMA RemoveStaleLockStep ==
  ASSUME IInv, RemoveStaleLock
  PROVE  IInv'
<1>1. /\ \A p \in Procs : proc[p].pc = "idle"
      /\ lock' = FALSE
      /\ UNCHANGED <<live, backups, made, proc, left, gen, want, damaged>>
  BY DEF RemoveStaleLock
<1>2. TypeOK' /\ WalMatches' /\ Settled' /\ DataSurvives'
  BY <1>1 DEF IInv, TypeOK, WalMatches, Settled, DataSurvives, StorageKept, DatabaseKept
<1>3. LockExclusive'
  BY <1>1 DEF LockExclusive, Locked
<1>4. ASSUME NEW p \in Procs
      PROVE  Sound(p)'
  BY <1>1 DEF IInv, Sound, Retaining, Newer, Complete, Vacated, Paired, Undoable,
     StorageAsideKept, DatabaseAsideKept
<1>5. QED
  BY <1>2, <1>3, <1>4 DEF IInv

\* AppWrite: no restore runs, and what the application writes is what is wanted.
LEMMA AppWriteStep ==
  ASSUME IInv, AppWrite
  PROVE  IInv'
<1>1. /\ \A p \in Procs : proc[p].op # "restore"
      /\ gen < MaxGen /\ gen' = gen + 1 /\ want' = live' /\ left' = {}
      /\ UNCHANGED <<backups, made, lock, proc, damaged>>
  BY DEF AppWrite
<1>2. PICK wal \in {0, gen + 1} :
        live' = [db |-> gen + 1, wal |-> wal, storage |-> gen + 1]
  BY DEF AppWrite
<1>3. gen + 1 \in 1..MaxGen /\ gen' \in 1..MaxGen
  BY <1>1 DEF IInv, TypeOK
<1>4. live' \in Paths
  BY <1>2, <1>3 DEF Paths, Gens, Trees
<1>5. TypeOK'
  BY <1>1, <1>3, <1>4 DEF IInv, TypeOK
<1>6. WalMatches' /\ Settled' /\ DataSurvives'
  BY <1>1, <1>2 DEF WalMatches, Settled, DataSurvives, StorageKept, DatabaseKept
<1>7. LockExclusive'
  BY <1>1 DEF IInv, LockExclusive, Locked
<1>8. ASSUME NEW p \in Procs
      PROVE  Sound(p)'
  <2>1. proc[p].pc \notin Replacing \cup {"finally"} /\ proc[p].roll = Nothing
    BY <1>1 DEF IInv, Sound, Shape
  <2>2. Shape(proc[p])' /\ Retaining(proc[p])'
    BY <1>1 DEF IInv, Sound, Shape, Retaining, Newer, Complete
  <2>3. QED
    BY <1>1, <2>1, <2>2 DEF Sound, Vacated, Paired, Undoable, StorageAsideKept,
       DatabaseAsideKept, Replacing, RestorePc, UndoPc
<1>9. QED
  BY <1>5, <1>6, <1>7, <1>8 DEF IInv

-----------------------------------------------------------------------------
(* The invariant *)

\* Nothing runs, and what is live is what is wanted.
LEMMA InitIInv == Init => IInv
<1> SUFFICES ASSUME Init PROVE IInv
  OBVIOUS
<1>1. \A p \in Procs : proc[p] = IdleProc
  BY DEF Init
<1>2. /\ IdleProc.pc = "idle" /\ IdleProc.op = "none" /\ IdleProc.roll = Nothing
      /\ ~IdleProc.storageReplaced /\ ~IdleProc.databaseReplaced
  BY DEF IdleProc
<1>3. live \in Paths /\ want = live /\ WalMatches
  BY DEF Init, Nothing, First, Paths, Gens, Trees, WalMatches
<1>4. backups \in [Ids -> Backup] /\ made \in 0..MaxBackup
  <2>1. /\ NoBackup \in Backup
        /\ [state |-> "complete", db |-> 1, storage |-> 1] \in Backup
    BY DEF NoBackup, Backup, Gens, Trees
  <2>2. QED
    BY <2>1 DEF Init
<1>5. proc \in [Procs -> Proc]
  BY IdleProcType DEF Init
<1>6. TypeOK
  <2>1. gen \in 1..MaxGen
    BY DEF Init
  <2>2. QED
    BY <1>3, <1>4, <1>5, <2>1 DEF Init, TypeOK
<1>7. LockExclusive
  BY <1>1, <1>2 DEF LockExclusive, Locked
<1>8. \A p \in Procs : Sound(p)
  BY <1>1, <1>2 DEF Sound, Shape, Retaining, Vacated, Paired, Undoable, StorageAsideKept,
     DatabaseAsideKept, Copying, Starting, Deleting, Replacing, RestorePc, UndoPc
<1>9. Settled /\ DataSurvives
  BY <1>3 DEF Settled, DataSurvives, StorageKept, DatabaseKept
<1>10. QED
  BY <1>3, <1>6, <1>7, <1>8, <1>9 DEF IInv

\* Every step of a command keeps the invariant.
LEMMA ProcStepIInv ==
  ASSUME IInv, NEW p \in Procs, ProcStep(p)
  PROVE  IInv'
<1>1. CASE Acquire(p)
  BY <1>1, AcquireStep
<1>2. CASE Refused(p)
  BY <1>2, StartStep
<1>3. CASE Release(p)
  BY <1>3, ReleaseStep
<1>4. CASE CreateFails(p) \/ CopyDb(p) \/ CopyStorage(p)
  BY <1>4, CopyStep
<1>5. CASE Publish(p)
  BY <1>5, PublishStep
<1>6. CASE ListBackups(p)
  BY <1>6, ListBackupsStep
<1>7. CASE \E b \in Ids : BeginDelete(p, b)
  BY <1>7, BeginDeleteStep
<1>8. CASE EndDelete(p) \/ RetentionDone(p)
  BY <1>8, EndDeleteStep, RetentionDoneStep
<1>9. CASE Stage(p)
  BY <1>9, StageStep
<1>10. CASE StorageAside(p) \/ StorageIn(p)
  BY <1>10, StorageAsideStep, StorageInStep
<1>11. CASE MainAside(p) \/ WalAside(p) \/ DbIn(p)
  BY <1>11, MainAsideStep, WalAsideStep, DbInStep
<1>12. CASE Migrate(p)
  BY <1>12, MigrateStep
<1>13. CASE RestoreFails(p)
  BY <1>13, RestoreFailsStep DEF RestoreFails
<1>14. CASE UndoFails(p)
  BY <1>14, UndoFailsStep
<1>15. CASE UnlinkDb(p) \/ DbBack(p)
  BY <1>15, UnlinkDbStep, DbBackStep
<1>16. CASE ClearStorage(p) \/ StorageBack(p)
  BY <1>16, ClearStorageStep, StorageBackStep
<1>17. CASE Finally(p)
  BY <1>17, FinallyStep
<1>18. QED
  BY <1>1, <1>2, <1>3, <1>4, <1>5, <1>6, <1>7, <1>8, <1>9, <1>10, <1>11, <1>12, <1>13,
     <1>14, <1>15, <1>16, <1>17 DEF ProcStep

\* Every step keeps the invariant.
LEMMA NextIInv == IInv /\ [Next]_vars => IInv'
<1> SUFFICES ASSUME IInv, [Next]_vars PROVE IInv'
  OBVIOUS
<1>1. CASE AppWrite
  BY <1>1, AppWriteStep
<1>2. CASE RemoveStaleLock
  BY <1>2, RemoveStaleLockStep
<1>3. ASSUME NEW p \in Procs, ProcStep(p)
      PROVE  IInv'
  BY <1>3, ProcStepIInv
<1>4. ASSUME NEW p \in Procs, Crash(p)
      PROVE  IInv'
  BY <1>4, CrashStep
<1>5. ASSUME NEW p \in Procs,
             \/ StartCreate(p) \/ StartRetention(p)
             \/ \E b \in Ids, safety \in BOOLEAN : StartRestore(p, b, safety)
      PROVE  IInv'
  BY <1>5, StartStep
<1>6. CASE UNCHANGED vars
  BY <1>6 DEF vars, IInv, TypeOK, LockExclusive, Locked, Sound, Shape, Retaining, Newer,
     Complete, Vacated, Paired, Undoable, StorageAsideKept, DatabaseAsideKept, Settled,
     WalMatches, DataSurvives, StorageKept, DatabaseKept
<1>7. QED
  BY <1>1, <1>2, <1>3, <1>4, <1>5, <1>6 DEF Next

-----------------------------------------------------------------------------
(* The theorems *)

\* The invariant holds in every reachable state.
THEOREM Invariance == Spec => []IInv
<1>1. QED
  BY InitIInv, NextIInv, PTL DEF Spec

\* Every variable keeps its type.
THEOREM TypeCorrect == Spec => []TypeOK
<1>1. IInv => TypeOK
  BY DEF IInv
<1>2. QED
  BY <1>1, Invariance, PTL

\* _operation_lock: two commands never copy, delete or restore at a time, whatever crashes
\* and whatever stale locks an operator removes.
THEOREM Exclusion == Spec => []LockExclusive
<1>1. IInv => LockExclusive
  BY DEF IInv
<1>2. QED
  BY <1>1, Invariance, PTL

\* A live database never lies beside the write-ahead log of another one, at whichever of
\* its renames a restore fails, is interrupted or is killed.
THEOREM NoForeignLog == Spec => []WalMatches
<1>1. IInv => WalMatches
  BY DEF IInv
<1>2. QED
  BY <1>1, Invariance, PTL

\* A restore that is over, and whose compensation did not fail, has replaced all of
\* database, log and storage or none.
THEOREM RestoreIsAtomic == Spec => []RestoreAllOrNothing
<1>1. IInv => RestoreAllOrNothing
  <2> SUFFICES ASSUME IInv, damaged = "no",
                      \A p \in Procs : proc[p].op # "restore" \/ ~Locked(p)
               PROVE  live = want
    BY DEF RestoreAllOrNothing
  <2>1. \A p \in Procs : proc[p].pc \notin Replacing
    BY DEF IInv, Sound, Shape, Locked, Replacing, RestorePc, UndoPc
  <2>2. QED
    BY <2>1 DEF IInv, Settled
<1>2. QED
  BY <1>1, Invariance, PTL

\* What a restore replaces exists until the restore has succeeded: the storage whatever
\* fails, the database unless the compensation of the except clause fails.
THEOREM NothingIsLost == Spec => []DataSurvives
<1>1. IInv => DataSurvives
  BY DEF IInv
<1>2. QED
  BY <1>1, Invariance, PTL

\* apply_retention never takes one of the Keep newest backups apart, also not the one that
\* create_backup has just made, whichever deletions failed or were killed before.
THEOREM RetentionIsSafe == Spec => RetentionKeeps
<1> DEFINE Keeps == \A b \in Ids : Complete(b) /\ backups'[b].state # "complete"
                                     => Cardinality(Newer(b)) >= Keep
<1>1. IInv /\ [Next]_vars => [Keeps]_vars
  <2> SUFFICES ASSUME IInv, [Next]_vars, NEW b \in Ids, Complete(b),
                      backups'[b].state # "complete"
               PROVE  Cardinality(Newer(b)) >= Keep
    OBVIOUS
  <2>1. backups' # backups
    BY DEF Complete
  <2>2. CASE \E p \in Procs : Publish(p)
    BY <2>2 DEF Publish, Complete, IInv, TypeOK
  <2>3. CASE \E p \in Procs : EndDelete(p)
    BY <2>3, EndDeleteStep DEF Complete
  <2>4. ASSUME NEW p \in Procs, NEW c \in Ids, BeginDelete(p, c)
        PROVE  Cardinality(Newer(b)) >= Keep
    <3>1. b = c
      BY <2>4 DEF BeginDelete, Complete, IInv, TypeOK
    <3>2. Retaining(proc[p])
      BY DEF IInv, Sound
    <3>3. QED
      BY <2>4, <3>1, <3>2 DEF BeginDelete, Retaining
  <2>5. QED
    BY <2>1, <2>2, <2>3, <2>4 DEF Next, ProcStep, vars, AppWrite, RemoveStaleLock,
       StartCreate, StartRetention, StartRestore, Acquire, Refused, Release, CreateFails,
       CopyDb, CopyStorage, ListBackups, RetentionDone, Stage, StorageAside, StorageIn,
       MainAside, WalAside, DbIn, Migrate, RestoreFails, UndoFails, UnlinkDb, DbBack,
       ClearStorage, StorageBack, Finally, Crash
<1>2. QED
  BY <1>1, Invariance, PTL DEF Spec, RetentionKeeps
=============================================================================
