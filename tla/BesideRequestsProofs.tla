----------------------- MODULE BesideRequestsProofs -----------------------
(***************************************************************************)
(* Proofs about requests, about what they promise when they are served one *)
(* after the other, and about the companions of BesideRequests, for every  *)
(* set of paths, workers, operations, faults, scan outcomes and rows.      *)
(***************************************************************************)
EXTENDS BesideRequests, SumTheorems

-----------------------------------------------------------------------------
(* Requests: the inductive invariant *)

\* How the fields of a request hang together.
Shape(r) ==
    /\ r.pc = "idle" => r = IdleReq
    /\ r.pc # "idle" => r.path \in used /\ r.op # "none"
    /\ r.op = "upload" =>
         /\ r.pc \in {"stream", "move", "replace", "scan", "cleanup"}
         /\ r.pc \in {"move", "replace"} => r.area = "temporary"
         /\ r.pc = "stream" => r.area = "temporary"
    /\ r.pc \in {"stream", "scan", "cleanup"} => r.op = "upload"
    /\ r.op \notin {"none", "upload"} => r.id \in FileIds
    /\ r.pc \in {"move", "replace"} /\ r.op # "upload" => Moves(r.op, r.area)
    /\ r.pc \in {"undo", "undoReplace"} => Moves(r.op, r.area)
    /\ r.pc \notin {"idle", "locate"} /\ Moves(r.op, r.area) => r.area \in StorageArea
    /\ r.pc \notin {"idle", "locate"} /\ r.op = "publish" => r.area = "quarantine"
    /\ r.pc = "unlink" => r.op = "permanently_delete"
    /\ r.change => r.op \in StatusOps

ReqShape == \A w \in Workers : Shape(req[w])

\* A path names at most one row, and only paths generated before exist anywhere.
PathsOnce ==
    /\ \A i \in FileIds : files[i] # NoRow => files[i].path \in used
    /\ \A i, j \in FileIds : files[i] # NoRow /\ files[i].path = files[j].path => i = j
    /\ \A p \in Paths \ used : store[p] = {}

\* A path has at most one copy of its bytes.
SingleCopy == \A p \in Paths : \A a, b \in store[p] : a = b

\* The file a request works on is listed, if at all, under the id it was asked for.
OwnRow ==
    \A w \in Workers : req[w].op \notin {"none", "upload"} =>
        \A i \in FileIds : files[i].path = req[w].path => i = req[w].id

\* Nobody else knows the path of an upload in flight.
UploadPrivate ==
    \A w \in Workers : req[w].op = "upload" =>
        /\ \A i \in FileIds : files[i].path # req[w].path
        /\ \A v \in Workers \ {w} : req[v].path # req[w].path
        /\ req[w].pc = "scan" => "quarantine" \in store[req[w].path]

\* What is about to be unlinked has lost its row.
UnlinkUnlisted ==
    \A w \in Workers : req[w].pc = "unlink" =>
        \A i \in FileIds : files[i].path # req[w].path

\* The invariant every step preserves; RowHasBytes needs all the other parts.
IInv ==
    /\ TypeOK
    /\ ReqShape
    /\ PathsOnce
    /\ SingleCopy
    /\ OwnRow
    /\ UploadPrivate
    /\ UnlinkUnlisted
    /\ RowHasBytes

-----------------------------------------------------------------------------
(* Facts about operators *)

USE FileAssumption

\* Every status operation sets a status of the enumeration.
LEMMA TargetType == \A op \in StatusOps : Target(op) \in FileStatus
  BY DEF StatusOps, Target, FileStatus

\* A rename ends in quarantine, in software or in temporary/deletions.
LEMMA MoveToType == \A op : MoveTo(op) \in {"quarantine", "software", "deletions"}
  BY DEF MoveTo

\* _initial_status returns a status of the enumeration, whatever the scan said.
LEMMA InitialStatusType == \A scan : InitialStatus(scan) \in FileStatus
  BY DEF InitialStatus, FileStatus

\* A worker without a request has a well-typed request record.
LEMMA IdleReqType == IdleReq \in Request
  BY DEF IdleReq, Request, Pc

\* A move never renames a file onto itself.
LEMMA MoveChangesArea ==
  ASSUME NEW r \in Request, Shape(r), r.pc \in {"move", "replace", "undo", "undoReplace"}
  PROVE  MoveTo(r.op) # r.area
  BY DEF Shape, Moves, MoveTo, StorageArea

-----------------------------------------------------------------------------
(* What a step does to the requests *)

\* Only the request of w changes.
Serves(w) ==
    /\ req' \in [Workers -> Request]
    /\ \A v \in Workers \ {w} : req'[v] = req[v]

\* The request of w goes on with the same operation on the same file.
SameFile(w) ==
    /\ req'[w].op = req[w].op
    /\ req'[w].id = req[w].id
    /\ req'[w].path = req[w].path

\* Become changes the request of one worker and keeps the others.
LEMMA BecomeEffect ==
  ASSUME TypeOK, NEW w \in Workers, NEW n \in Request, Become(w, n)
  PROVE  Serves(w) /\ req'[w] = n
  BY DEF Become, TypeOK, Serves

\* A request that ends leaves its worker idle and the others alone.
LEMMA IdleEffect ==
  ASSUME TypeOK, NEW w \in Workers, Become(w, IdleReq)
  PROVE  Serves(w) /\ req'[w] = IdleReq
  BY BecomeEffect, IdleReqType

\* A step that only moves a request on keeps its operation, row, path and area.
LEMMA PcEffect ==
  ASSUME TypeOK, NEW w \in Workers, NEW q \in Pc, Become(w, [req[w] EXCEPT !.pc = q])
  PROVE  /\ Serves(w) /\ SameFile(w)
         /\ req'[w].pc = q
         /\ req'[w].area = req[w].area
         /\ req'[w].change = req[w].change
<1> DEFINE n == [req[w] EXCEPT !.pc = q]
<1>1. req[w] \in Request
  BY DEF TypeOK
<1>2. /\ n \in Request
      /\ n.pc = q /\ n.op = req[w].op /\ n.id = req[w].id /\ n.path = req[w].path
      /\ n.area = req[w].area /\ n.change = req[w].change
  BY <1>1 DEF Request
<1>3. Become(w, n)
  OBVIOUS
<1> HIDE DEF n
<1>4. QED
  BY <1>2, <1>3, BecomeEffect DEF SameFile

\* Recording where the bytes were found keeps the operation, row and path.
LEMMA AreaEffect ==
  ASSUME TypeOK, NEW w \in Workers, NEW q \in Pc, NEW a \in Area,
         Become(w, [req[w] EXCEPT !.area = a, !.pc = q])
  PROVE  /\ Serves(w) /\ SameFile(w)
         /\ req'[w].pc = q
         /\ req'[w].area = a
         /\ req'[w].change = req[w].change
<1> DEFINE n == [req[w] EXCEPT !.area = a, !.pc = q]
<1>1. req[w] \in Request
  BY DEF TypeOK
<1>2. /\ n \in Request
      /\ n.pc = q /\ n.op = req[w].op /\ n.id = req[w].id /\ n.path = req[w].path
      /\ n.area = a /\ n.change = req[w].change
  BY <1>1 DEF Request
<1>3. Become(w, n)
  OBVIOUS
<1> HIDE DEF n
<1>4. QED
  BY <1>2, <1>3, BecomeEffect DEF SameFile

\* Recording that the transaction has a row to write keeps everything else.
LEMMA ChangeEffect ==
  ASSUME TypeOK, NEW w \in Workers, NEW q \in Pc, NEW c \in BOOLEAN,
         Become(w, [req[w] EXCEPT !.pc = q, !.change = c])
  PROVE  /\ Serves(w) /\ SameFile(w)
         /\ req'[w].pc = q
         /\ req'[w].area = req[w].area
         /\ req'[w].change = c
<1> DEFINE n == [req[w] EXCEPT !.pc = q, !.change = c]
<1>1. req[w] \in Request
  BY DEF TypeOK
<1>2. /\ n \in Request
      /\ n.pc = q /\ n.op = req[w].op /\ n.id = req[w].id /\ n.path = req[w].path
      /\ n.area = req[w].area /\ n.change = c
  BY <1>1 DEF Request
<1>3. Become(w, n)
  OBVIOUS
<1> HIDE DEF n
<1>4. QED
  BY <1>2, <1>3, BecomeEffect DEF SameFile

\* A step of w that leaves rows and bytes alone keeps the invariant when w becomes
\* idle or goes on in good shape, short of the two places that promise more.
LEMMA QuietStep ==
  ASSUME IInv, NEW w \in Workers, Serves(w),
         UNCHANGED <<files, store, used>>, alarms' \subseteq Paths,
         \/ req'[w] = IdleReq
         \/ /\ SameFile(w)
            /\ Shape(req'[w])
            /\ req'[w].pc \notin {"idle", "unlink", "scan"}
  PROVE  IInv'
<1> USE DEF Serves, SameFile
<1>1. TypeOK'
  BY DEF IInv, TypeOK
<1>2. ReqShape'
  BY DEF IInv, ReqShape, Shape, IdleReq
<1>3. PathsOnce' /\ SingleCopy' /\ RowHasBytes'
  BY DEF IInv, PathsOnce, SingleCopy, RowHasBytes
<1>4. OwnRow'
  BY DEF IInv, OwnRow, IdleReq
<1>5. UploadPrivate'
  BY DEF IInv, UploadPrivate, IdleReq, ReqShape, Shape, TypeOK
<1>6. UnlinkUnlisted'
  BY DEF IInv, UnlinkUnlisted, IdleReq
<1>7. QED
  BY <1>1, <1>2, <1>3, <1>4, <1>5, <1>6 DEF IInv

-----------------------------------------------------------------------------
(* Preservation, one lemma per group of actions *)

\* FileService.get starts a request on a listed path: the invariant stays.
LEMMA GetStep ==
  ASSUME IInv, NEW w \in Workers, NEW op \in Operation, NEW i \in FileIds, Get(w, op, i)
  PROVE  IInv'
<1> DEFINE n == [pc |-> "locate", op |-> op, id |-> i, path |-> files[i].path,
                 area |-> "none", change |-> FALSE]
<1>1. /\ op \notin {"none", "upload"}
      /\ files[i] # NoRow /\ files[i] \in Row
      /\ UNCHANGED <<files, store, used, alarms>>
  BY DEF Get, IInv, TypeOK, Operation, StatusOps, DeleteOps
<1>2. n \in Request
  BY <1>1 DEF Request, Pc, Row
<1>3. Serves(w) /\ req'[w] = n
  BY <1>2, BecomeEffect DEF Get, IInv
<1>4. TypeOK'
  BY <1>1, <1>3 DEF IInv, TypeOK, Serves
<1>5. ReqShape'
  BY <1>1, <1>3 DEF IInv, ReqShape, Shape, Serves, PathsOnce, Moves
<1>6. PathsOnce' /\ SingleCopy' /\ RowHasBytes'
  BY <1>1 DEF IInv, PathsOnce, SingleCopy, RowHasBytes
<1>7. OwnRow'
  BY <1>1, <1>3 DEF IInv, OwnRow, PathsOnce, Serves
<1>8. UploadPrivate'
  BY <1>1, <1>3 DEF IInv, UploadPrivate, Serves
<1>9. UnlinkUnlisted'
  BY <1>1, <1>3 DEF IInv, UnlinkUnlisted, Serves
<1>10. QED
  BY <1>4, <1>5, <1>6, <1>7, <1>8, <1>9 DEF IInv

\* Inspecting the disk, or refusing the request there, keeps the invariant.
LEMMA LocateStep ==
  ASSUME IInv, NEW w \in Workers, Locate(w) \/ Refuse(w)
  PROVE  IInv'
<1> DEFINE r == req[w]
<1>1. UNCHANGED <<files, store, used, alarms>> /\ alarms' \subseteq Paths /\ r.pc = "locate"
  BY DEF Locate, Refuse, IInv, TypeOK
<1>2. Shape(r) /\ TypeOK
  BY DEF IInv, ReqShape
<1>3. CASE Become(w, IdleReq)
  BY <1>1, <1>2, <1>3, IdleEffect, QuietStep
<1>4. CASE r.op = "delete_metadata" /\ Become(w, [r EXCEPT !.pc = "read"])
  <2>1. Serves(w) /\ SameFile(w) /\ req'[w].pc = "read" /\ req'[w].change = r.change
    BY <1>2, <1>4, PcEffect DEF Pc
  <2>2. Shape(req'[w])
    BY <1>1, <1>2, <1>4, <2>1 DEF Shape, SameFile, Moves
  <2>3. QED
    BY <1>1, <2>1, <2>2, QuietStep
<1>5. ASSUME NEW a \in StorageArea, AreaAccepted(r.op, a),
             Become(w, [r EXCEPT !.area = a,
                                 !.pc = IF Moves(r.op, a) THEN "move" ELSE "read"])
      PROVE  IInv'
  <2> DEFINE q == IF Moves(r.op, a) THEN "move" ELSE "read"
  <2>0. q \in Pc /\ a \in Area /\ Become(w, [r EXCEPT !.area = a, !.pc = q])
    BY <1>5 DEF Pc, Area
  <2>1. Serves(w) /\ SameFile(w) /\ req'[w].pc = q /\ req'[w].area = a
        /\ req'[w].change = r.change
    BY <1>2, <2>0, AreaEffect
  <2>2. Shape(req'[w])
    BY <1>1, <1>2, <1>5, <2>1 DEF Shape, SameFile, AreaAccepted
  <2>3. q \notin {"idle", "unlink", "scan"}
    OBVIOUS
  <2>4. QED
    BY <1>1, <2>1, <2>2, <2>3, QuietStep
<1>6. QED
  BY <1>3, <1>4, <1>5 DEF Locate, Refuse

\* A forward move that raises before its rename keeps the invariant.
LEMMA MoveFailedStep ==
  ASSUME IInv, NEW w \in Workers, req[w].pc \in {"move", "replace"},
         Become(w, MoveFailed(req[w])), UNCHANGED <<files, store, used, alarms>>
  PROVE  IInv'
<1>1. TypeOK /\ Shape(req[w]) /\ alarms' \subseteq Paths
  BY DEF IInv, ReqShape, TypeOK
<1>2. CASE req[w].op # "upload"
  BY <1>1, <1>2, IdleEffect, QuietStep DEF MoveFailed
<1>3. CASE req[w].op = "upload"
  <2>1. Serves(w) /\ SameFile(w) /\ req'[w].pc = "cleanup" /\ req'[w].change = req[w].change
        /\ req'[w].area = req[w].area
    BY <1>1, <1>3, PcEffect DEF Pc, MoveFailed
  <2>2. Shape(req'[w])
    BY <1>1, <1>3, <2>1 DEF Shape, SameFile, Moves
  <2>3. QED
    BY <1>1, <2>1, <2>2, QuietStep
<1>4. QED
  BY <1>2, <1>3

\* The checks of atomic_move before the rename keep the invariant.
LEMMA CheckMoveStep ==
  ASSUME IInv, NEW w \in Workers, CheckMove(w)
  PROVE  IInv'
<1>1. /\ req[w].pc = "move"
      /\ UNCHANGED <<files, store, used, alarms>> /\ alarms' \subseteq Paths
  BY DEF CheckMove, IInv, TypeOK
<1>2. Shape(req[w]) /\ TypeOK
  BY DEF IInv, ReqShape
<1>3. CASE Become(w, [req[w] EXCEPT !.pc = "replace"])
  <2>1. Serves(w) /\ SameFile(w) /\ req'[w].pc = "replace" /\ req'[w].area = req[w].area
        /\ req'[w].change = req[w].change
    BY <1>2, <1>3, PcEffect DEF Pc
  <2>2. Shape(req'[w])
    BY <1>1, <1>2, <2>1 DEF Shape, SameFile
  <2>3. QED
    BY <1>1, <2>1, <2>2, QuietStep
<1>4. CASE Become(w, MoveFailed(req[w]))
  BY <1>1, <1>4, MoveFailedStep
<1>5. QED
  BY <1>3, <1>4 DEF CheckMove

\* A step of w that changes the bytes of its own file only.
LEMMA BytesStep ==
  ASSUME IInv, NEW w \in Workers, Serves(w), req[w].pc # "idle",
         UNCHANGED <<files, used>>, alarms' \subseteq Paths,
         store' \in [Paths -> SUBSET Area],
         \A p \in Paths \ {req[w].path} : store'[p] = store[p],
         \A a, b \in store'[req[w].path] : a = b,
         \A i \in FileIds : files[i].path = req[w].path =>
             store'[req[w].path] \cap {"quarantine", "software", "deletions"} # {},
         \/ req'[w] = IdleReq
         \/ /\ SameFile(w)
            /\ Shape(req'[w])
            /\ req'[w].pc \notin {"idle", "unlink"}
            /\ req'[w].pc = "scan" => "quarantine" \in store'[req[w].path]
  PROVE  IInv'
<1> USE DEF Serves, SameFile
<1>0. req[w].path \in used /\ req[w].path \in Paths
  BY DEF IInv, ReqShape, Shape, TypeOK
<1>1. TypeOK'
  BY DEF IInv, TypeOK
<1>2. ReqShape'
  BY DEF IInv, ReqShape, Shape, IdleReq
<1>3. PathsOnce'
  BY <1>0 DEF IInv, PathsOnce
<1>4. SingleCopy'
  BY DEF IInv, SingleCopy
<1>5. RowHasBytes'
  <2> SUFFICES ASSUME NEW i \in FileIds, files[i] # NoRow
               PROVE store'[files[i].path] \cap {"quarantine", "software", "deletions"} # {}
    BY DEF RowHasBytes
  <2>1. files[i].path \in Paths
    BY DEF IInv, TypeOK, Row
  <2>2. QED
    BY <2>1 DEF IInv, RowHasBytes
<1>6. OwnRow'
  BY DEF IInv, OwnRow, IdleReq
<1>7. UploadPrivate'
  <2> SUFFICES ASSUME NEW v \in Workers, req'[v].op = "upload"
               PROVE  /\ \A i \in FileIds : files[i].path # req'[v].path
                      /\ \A u \in Workers \ {v} : req'[u].path # req'[v].path
                      /\ req'[v].pc = "scan" => "quarantine" \in store'[req'[v].path]
    BY DEF UploadPrivate
  <2>1. req[v].op = "upload" /\ req'[v].path = req[v].path
    BY DEF IdleReq
  <2>2. req[v].path \in Paths
    BY <2>1 DEF IInv, ReqShape, Shape, TypeOK, IdleReq
  <2>3. \A i \in FileIds : files[i].path # req'[v].path
    BY <2>1 DEF IInv, UploadPrivate
  <2>4. \A u \in Workers \ {v} : req'[u].path # req'[v].path
    BY <2>1, <2>2 DEF IInv, UploadPrivate, IdleReq
  <2>5. req'[v].pc = "scan" => "quarantine" \in store'[req'[v].path]
    <3>1. CASE v = w
      BY <3>1, <2>1 DEF IdleReq
    <3>2. CASE v # w
      BY <3>2, <2>1, <2>2 DEF IInv, UploadPrivate
    <3>3. QED
      BY <3>1, <3>2
  <2>6. QED
    BY <2>3, <2>4, <2>5
<1>8. UnlinkUnlisted'
  BY DEF IInv, UnlinkUnlisted, IdleReq
<1>9. QED
  BY <1>1, <1>2, <1>3, <1>4, <1>5, <1>6, <1>7, <1>8 DEF IInv

\* Renaming keeps a single copy and leaves it at the destination.
LEMMA RenamedFacts ==
  ASSUME TypeOK, SingleCopy, NEW p \in Paths, NEW from \in store[p], NEW to \in Area,
         store' = Renamed(p, from, to)
  PROVE  /\ store' \in [Paths -> SUBSET Area]
         /\ \A q \in Paths \ {p} : store'[q] = store[q]
         /\ \A a, b \in store'[p] : a = b
         /\ to \in store'[p]
  BY DEF TypeOK, SingleCopy, Renamed

\* The rename, with or without an fsync error after it, keeps the invariant.
LEMMA ReplaceStep ==
  ASSUME IInv, NEW w \in Workers, Replace(w)
  PROVE  IInv'
<1> DEFINE r == req[w]
<1>1. /\ r.pc = "replace"
      /\ UNCHANGED <<files, used, alarms>> /\ alarms' \subseteq Paths
  BY DEF Replace, IInv, TypeOK
<1>2. Shape(r) /\ TypeOK /\ SingleCopy /\ r.path \in Paths /\ r.op # "none"
  BY <1>1 DEF IInv, ReqShape, Shape, TypeOK
<1>3. CASE UNCHANGED store /\ Become(w, MoveFailed(r))
  BY <1>1, <1>3, MoveFailedStep
<1>4. CASE r.area \in store[r.path] /\ store' = Renamed(r.path, r.area, MoveTo(r.op))
  <2>1. MoveTo(r.op) \in {"quarantine", "software", "deletions"} /\ MoveTo(r.op) \in Area
    BY MoveToType DEF Area, StorageArea
  <2>2. /\ store' \in [Paths -> SUBSET Area]
        /\ \A q \in Paths \ {r.path} : store'[q] = store[q]
        /\ \A a, b \in store'[r.path] : a = b
        /\ MoveTo(r.op) \in store'[r.path]
    BY <1>2, <1>4, <2>1, RenamedFacts
  <2>3. store'[r.path] \cap {"quarantine", "software", "deletions"} # {}
    BY <2>1, <2>2
  <2>4. CASE r.op # "upload" /\ Become(w, [r EXCEPT !.pc = "read"])
    <3>1. Serves(w) /\ SameFile(w) /\ req'[w].pc = "read" /\ req'[w].area = r.area
          /\ req'[w].change = r.change
      BY <1>2, <2>4, PcEffect DEF Pc
    <3>2. Shape(req'[w])
      BY <1>1, <1>2, <2>4, <3>1 DEF Shape, SameFile
    <3>3. QED
      BY <1>1, <2>2, <2>3, <3>1, <3>2, BytesStep
  <2>5. CASE r.op = "upload" /\ Become(w, [r EXCEPT !.pc = "scan", !.area = "quarantine"])
    <3> DEFINE n == [r EXCEPT !.pc = "scan", !.area = "quarantine"]
    <3>0. /\ n \in Request /\ n.pc = "scan" /\ n.op = r.op /\ n.id = r.id /\ n.path = r.path
          /\ n.area = "quarantine" /\ n.change = r.change
      BY <1>2 DEF TypeOK, Request, Pc, Area, StorageArea
    <3>1. Become(w, n)
      BY <2>5
    <3> HIDE DEF n
    <3>2. Serves(w) /\ SameFile(w) /\ req'[w].pc = "scan" /\ req'[w].area = "quarantine"
          /\ req'[w].change = r.change
      BY <1>2, <3>0, <3>1, BecomeEffect DEF SameFile
    <3>3. Shape(req'[w])
      BY <1>1, <1>2, <2>5, <3>2 DEF Shape, SameFile, Moves
    <3>4. "quarantine" \in store'[r.path]
      BY <2>2, <2>5 DEF MoveTo
    <3>5. QED
      BY <1>1, <2>2, <2>3, <3>2, <3>3, <3>4, BytesStep
  <2>6. CASE r.op # "upload" /\ Become(w, MoveFailed(r))
    <3>1. Serves(w) /\ req'[w] = IdleReq
      BY <1>2, <2>6, IdleEffect DEF MoveFailed
    <3>2. QED
      BY <1>1, <2>2, <2>3, <3>1, BytesStep
  <2>7. CASE r.op = "upload" /\ Become(w, MoveFailed(r))
    <3>1. Serves(w) /\ SameFile(w) /\ req'[w].pc = "cleanup" /\ req'[w].area = r.area
          /\ req'[w].change = r.change
      BY <1>2, <2>7, PcEffect DEF Pc, MoveFailed
    <3>2. Shape(req'[w])
      BY <1>1, <1>2, <2>7, <3>1 DEF Shape, SameFile, Moves
    <3>3. QED
      BY <1>1, <2>2, <2>3, <3>1, <3>2, BytesStep
  <2>8. QED
    BY <1>1, <1>4, <2>4, <2>5, <2>6, <2>7 DEF Replace, MoveFailed
<1>5. QED
  BY <1>3, <1>4 DEF Replace

\* A transaction that raised goes to its compensation or ends: the invariant stays.
LEMMA TxFailedStep ==
  ASSUME IInv, NEW w \in Workers, req[w].pc \in {"read", "write"},
         Become(w, TxFailed(req[w])), UNCHANGED <<files, store, used, alarms>>
  PROVE  IInv'
<1>1. TypeOK /\ Shape(req[w]) /\ alarms' \subseteq Paths
  BY DEF IInv, ReqShape, TypeOK
<1>2. CASE ~Moves(req[w].op, req[w].area)
  BY <1>1, <1>2, IdleEffect, QuietStep DEF TxFailed
<1>3. CASE Moves(req[w].op, req[w].area)
  <2>1. Serves(w) /\ SameFile(w) /\ req'[w].pc = "undo" /\ req'[w].area = req[w].area
        /\ req'[w].change = req[w].change
    BY <1>1, <1>3, PcEffect DEF Pc, TxFailed
  <2>2. Shape(req'[w])
    BY <1>1, <1>3, <2>1 DEF Shape, SameFile
  <2>3. QED
    BY <1>1, <2>1, <2>2, QuietStep
<1>4. QED
  BY <1>2, <1>3

\* The SELECT and the checks of the transaction keep the invariant.
LEMMA TxReadStep ==
  ASSUME IInv, NEW w \in Workers, TxRead(w)
  PROVE  IInv'
<1> DEFINE r == req[w]
           c == r.op \in StatusOps /\ files[r.id].status # Target(r.op)
<1>1. r.pc = "read" /\ UNCHANGED <<files, store, used, alarms>> /\ alarms' \subseteq Paths
  BY DEF TxRead, IInv, TypeOK
<1>2. Shape(r) /\ TypeOK
  BY DEF IInv, ReqShape
<1>3. CASE Become(w, [r EXCEPT !.pc = "write", !.change = c])
  <2>1. Serves(w) /\ SameFile(w) /\ req'[w].pc = "write" /\ req'[w].area = r.area
        /\ req'[w].change = c
    BY <1>2, <1>3, ChangeEffect DEF Pc
  <2>2. Shape(req'[w])
    BY <1>1, <1>2, <2>1 DEF Shape, SameFile
  <2>3. QED
    BY <1>1, <2>1, <2>2, QuietStep
<1>4. CASE Become(w, TxFailed(r))
  BY <1>1, <1>4, TxFailedStep
<1>5. QED
  BY <1>3, <1>4 DEF TxRead

\* The UPDATE or DELETE by row id keeps the invariant: a row that is deleted takes
\* its path along, so what is unlinked afterwards is named by no row.
LEMMA TxWriteStep ==
  ASSUME IInv, NEW w \in Workers, TxWrite(w)
  PROVE  IInv'
<1> DEFINE r == req[w]
<1>1. r.pc = "write" /\ UNCHANGED <<store, used, alarms>> /\ alarms' \subseteq Paths
  BY DEF TxWrite, IInv, TypeOK
<1>2. Shape(r) /\ TypeOK /\ r.id \in FileIds /\ r.path \in Paths /\ r.path \in used
  BY <1>1 DEF IInv, ReqShape, Shape, TypeOK
<1>3. CASE UNCHANGED files /\ Become(w, TxFailed(r))
  BY <1>1, <1>3, TxFailedStep
<1>4. CASE UNCHANGED files /\ Become(w, IdleReq)
  BY <1>1, <1>2, <1>4, IdleEffect, QuietStep
<1>5. CASE /\ r.change /\ files[r.id] # NoRow
           /\ files' = [files EXCEPT ![r.id].status = Target(r.op)]
           /\ Become(w, IdleReq)
  <2>1. Serves(w) /\ req'[w] = IdleReq
    BY <1>2, <1>5, IdleEffect
  <2>2. Target(r.op) \in FileStatus
    BY <1>2, <1>5, TargetType DEF Shape
  <2>3. /\ files' \in [FileIds -> Row \cup {NoRow}]
        /\ \A i \in FileIds : files'[i].path = files[i].path
        /\ \A i \in FileIds : files'[i] # NoRow <=> files[i] # NoRow
    BY <1>2, <1>5, <2>2 DEF TypeOK, Row, NoRow, FileStatus
  <2>4. TypeOK'
    BY <1>1, <2>1, <2>3 DEF IInv, TypeOK, Serves
  <2>5. ReqShape' /\ OwnRow' /\ UnlinkUnlisted'
    BY <1>1, <2>1, <2>3 DEF IInv, ReqShape, Shape, OwnRow, UnlinkUnlisted, Serves, IdleReq
  <2>6. PathsOnce' /\ SingleCopy' /\ RowHasBytes'
    BY <1>1, <2>3 DEF IInv, PathsOnce, SingleCopy, RowHasBytes
  <2>7. UploadPrivate'
    BY <1>1, <2>1, <2>3 DEF IInv, UploadPrivate, Serves, IdleReq, ReqShape, Shape, TypeOK
  <2>8. QED
    BY <2>4, <2>5, <2>6, <2>7 DEF IInv
<1>6. CASE /\ r.op \in DeleteOps
           /\ files' = [files EXCEPT ![r.id] = NoRow]
           /\ Become(w, IF r.op = "permanently_delete"
                        THEN [r EXCEPT !.pc = "unlink"] ELSE IdleReq)
  <2>1. /\ files' \in [FileIds -> Row \cup {NoRow}]
        /\ \A i \in FileIds : i # r.id => files'[i] = files[i]
        /\ files'[r.id] = NoRow
    BY <1>2, <1>6 DEF TypeOK
  <2>2. NoRow.path = NoPath
    BY DEF NoRow
  <2>3. r.op \notin {"none", "upload"} /\ r.op \notin StatusOps /\ ~r.change
    BY <1>2, <1>6 DEF DeleteOps, StatusOps, Shape
  <2>4. /\ Serves(w)
        /\ \/ req'[w] = IdleReq
           \/ /\ SameFile(w) /\ req'[w].pc = "unlink" /\ r.op = "permanently_delete"
              /\ req'[w].area = r.area /\ req'[w].change = r.change
    <3>1. CASE r.op = "permanently_delete"
      BY <1>2, <1>6, <3>1, PcEffect DEF Pc
    <3>2. CASE r.op # "permanently_delete"
      BY <1>2, <1>6, <3>2, IdleEffect
    <3>3. QED
      BY <3>1, <3>2
  <2>5. TypeOK'
    BY <1>1, <2>1, <2>4 DEF IInv, TypeOK, Serves
  <2>6. ReqShape'
    BY <1>1, <1>2, <2>3, <2>4 DEF IInv, ReqShape, Shape, Serves, SameFile, IdleReq
  <2>7. PathsOnce' /\ SingleCopy' /\ RowHasBytes'
    <3>1. PathsOnce'
      <4>1. \A i \in FileIds : files'[i] # NoRow => i # r.id /\ files'[i] = files[i]
        BY <2>1
      <4>2. \A i \in FileIds : files[i] # NoRow => files[i].path \in Paths
        BY DEF IInv, TypeOK, Row
      <4>3. QED
        BY <1>1, <2>1, <2>2, <4>1, <4>2 DEF IInv, PathsOnce
    <3>2. QED
      BY <1>1, <2>1, <3>1 DEF IInv, SingleCopy, RowHasBytes
  <2>8. OwnRow'
    <3> SUFFICES ASSUME NEW v \in Workers, req'[v].op \notin {"none", "upload"},
                        NEW i \in FileIds, files'[i].path = req'[v].path
                 PROVE  i = req'[v].id
      BY DEF OwnRow
    <3>1. /\ req[v].op = req'[v].op /\ req[v].path = req'[v].path /\ req[v].id = req'[v].id
      BY <2>4 DEF Serves, SameFile, IdleReq
    <3>2. req[v].path \in Paths
      BY <3>1 DEF IInv, ReqShape, Shape, TypeOK, IdleReq
    <3>3. i # r.id /\ files[i].path = req[v].path
      BY <2>1, <2>2, <3>1, <3>2
    <3>4. QED
      BY <3>1, <3>3 DEF IInv, OwnRow
  <2>9. UploadPrivate'
    <3> SUFFICES ASSUME NEW v \in Workers, req'[v].op = "upload"
                 PROVE  /\ \A i \in FileIds : files'[i].path # req'[v].path
                        /\ \A u \in Workers \ {v} : req'[u].path # req'[v].path
                        /\ req'[v].pc = "scan" => "quarantine" \in store'[req'[v].path]
      BY DEF UploadPrivate
    <3>1. v # w /\ req'[v] = req[v]
      BY <2>3, <2>4 DEF Serves, SameFile, IdleReq
    <3>2. req[v].path \in Paths
      BY <3>1 DEF IInv, ReqShape, Shape, TypeOK, IdleReq
    <3>3. \A i \in FileIds : files'[i].path # req'[v].path
      BY <2>1, <2>2, <3>1, <3>2 DEF IInv, UploadPrivate
    <3>4. \A u \in Workers \ {v} : req'[u].path # req'[v].path
      BY <2>4, <3>1, <3>2 DEF IInv, UploadPrivate, Serves, SameFile, IdleReq
    <3>5. QED
      BY <1>1, <3>1, <3>3, <3>4 DEF IInv, UploadPrivate
  <2>10. UnlinkUnlisted'
    <3> SUFFICES ASSUME NEW v \in Workers, req'[v].pc = "unlink", NEW i \in FileIds
                 PROVE  files'[i].path # req'[v].path
      BY DEF UnlinkUnlisted
    <3>1. CASE v = w
      BY <1>2, <2>1, <2>2, <2>3, <2>4, <3>1 DEF IInv, OwnRow, SameFile, IdleReq
    <3>2. CASE v # w
      <4>1. req'[v] = req[v]
        BY <2>4, <3>2 DEF Serves
      <4>2. req[v].path \in Paths
        BY <4>1 DEF IInv, ReqShape, Shape, TypeOK, IdleReq
      <4>3. QED
        BY <2>1, <2>2, <4>1, <4>2 DEF IInv, UnlinkUnlisted
    <3>3. QED
      BY <3>1, <3>2
  <2>11. QED
    BY <2>5, <2>6, <2>7, <2>8, <2>9, <2>10 DEF IInv
<1>7. QED
  BY <1>3, <1>4, <1>5, <1>6 DEF TxWrite

\* Both steps of the compensation keep the invariant, failed ones included.
LEMMA UndoStep ==
  ASSUME IInv, NEW w \in Workers, CheckUndo(w) \/ UndoReplace(w)
  PROVE  IInv'
<1> DEFINE r == req[w]
<1>1. r.pc \in {"undo", "undoReplace"} /\ UNCHANGED <<files, used>>
  BY DEF CheckUndo, UndoReplace
<1>2. /\ Shape(r) /\ TypeOK /\ SingleCopy /\ r.path \in Paths
      /\ r.area \in StorageArea
  BY <1>1 DEF IInv, ReqShape, Shape, TypeOK
<1>3. alarms' \subseteq Paths
  BY <1>2 DEF CheckUndo, UndoReplace, TypeOK
<1>4. CASE UNCHANGED store /\ Become(w, IdleReq)
  BY <1>1, <1>2, <1>3, <1>4, IdleEffect, QuietStep
<1>5. CASE UNCHANGED store /\ Become(w, [r EXCEPT !.pc = "undoReplace"])
  <2>1. Serves(w) /\ SameFile(w) /\ req'[w].pc = "undoReplace" /\ req'[w].area = r.area
        /\ req'[w].change = r.change
    BY <1>2, <1>5, PcEffect DEF Pc
  <2>2. Shape(req'[w])
    BY <1>1, <1>2, <2>1 DEF Shape, SameFile
  <2>3. QED
    BY <1>1, <1>3, <1>5, <2>1, <2>2, QuietStep
<1>6. CASE /\ MoveTo(r.op) \in store[r.path]
           /\ store' = Renamed(r.path, MoveTo(r.op), r.area)
           /\ Become(w, IdleReq)
  <2>1. Serves(w) /\ req'[w] = IdleReq
    BY <1>2, <1>6, IdleEffect
  <2>2. r.area \in Area
    BY <1>2 DEF Area
  <2>3. /\ store' \in [Paths -> SUBSET Area]
        /\ \A q \in Paths \ {r.path} : store'[q] = store[q]
        /\ \A a, b \in store'[r.path] : a = b
        /\ r.area \in store'[r.path]
    BY <1>2, <1>6, <2>2, RenamedFacts
  <2>4. store'[r.path] \cap {"quarantine", "software", "deletions"} # {}
    BY <1>2, <2>3 DEF StorageArea
  <2>5. QED
    BY <1>1, <1>3, <2>1, <2>3, <2>4, BytesStep
<1>7. QED
  BY <1>4, <1>5, <1>6 DEF CheckUndo, UndoReplace

\* Removing copies keeps a single copy.
LEMMA RemovedFacts ==
  ASSUME TypeOK, SingleCopy, NEW p \in Paths, NEW S,
         store' = [store EXCEPT ![p] = @ \ S]
  PROVE  /\ store' \in [Paths -> SUBSET Area]
         /\ \A q \in Paths \ {p} : store'[q] = store[q]
         /\ \A a, b \in store'[p] : a = b
         /\ store'[p] = store[p] \ S
  BY DEF TypeOK, SingleCopy

\* Requests that end by removing bytes that no row names.
LEMMA RemoveStep ==
  ASSUME IInv, NEW w \in Workers,
         Unlink(w) \/ StreamFails(w) \/ CleanupPaths(w)
  PROVE  IInv'
<1> DEFINE r == req[w]
<1>1. /\ r.pc \in {"unlink", "stream", "cleanup"}
      /\ UNCHANGED <<files, used>>
      /\ Become(w, IdleReq)
      /\ UNCHANGED store \/ \E S : store' = [store EXCEPT ![r.path] = @ \ S]
  <2>1. CASE CleanupPaths(w)
    BY <2>1 DEF CleanupPaths
  <2>2. CASE Unlink(w) \/ StreamFails(w)
    BY <2>2 DEF Unlink, StreamFails
  <2>3. QED
    BY <2>1, <2>2
<1>2. TypeOK /\ SingleCopy /\ r.path \in Paths /\ (r.op = "upload" \/ r.pc = "unlink")
  BY <1>1 DEF IInv, ReqShape, Shape, TypeOK
<1>3. alarms' \subseteq Paths
  BY <1>2 DEF Unlink, StreamFails, CleanupPaths, TypeOK
<1>4. Serves(w) /\ req'[w] = IdleReq
  BY <1>1, <1>2, IdleEffect
<1>5. \A i \in FileIds : files[i].path # r.path
  BY <1>1, <1>2 DEF IInv, UploadPrivate, UnlinkUnlisted
<1>6. CASE UNCHANGED store
  BY <1>1, <1>3, <1>4, <1>6, QuietStep
<1>7. ASSUME NEW S, store' = [store EXCEPT ![r.path] = @ \ S]
      PROVE  IInv'
  <2>1. /\ store' \in [Paths -> SUBSET Area]
        /\ \A q \in Paths \ {r.path} : store'[q] = store[q]
        /\ \A a, b \in store'[r.path] : a = b
    BY <1>2, <1>7, RemovedFacts
  <2>2. QED
    BY <1>1, <1>3, <1>4, <1>5, <2>1, BytesStep
<1>8. QED
  BY <1>1, <1>6, <1>7

\* A new upload works on a path that nothing else names.
LEMMA UploadStartStep ==
  ASSUME IInv, NEW w \in Workers, NEW p \in Paths, UploadStart(w, p)
  PROVE  IInv'
<1> DEFINE n == [pc |-> "stream", op |-> "upload", id |-> 0, path |-> p,
                 area |-> "temporary", change |-> FALSE]
<1>1. /\ p \notin used /\ used' = used \cup {p}
      /\ UNCHANGED <<files, alarms>>
      /\ store' = [store EXCEPT ![p] = @ \cup {"temporary"}]
  BY DEF UploadStart
<1>2. n \in Request
  BY DEF Request, Pc, Operation, Area
<1>3. Serves(w) /\ req'[w] = n
  BY <1>2, BecomeEffect DEF UploadStart, IInv
<1>4. /\ store' \in [Paths -> SUBSET Area]
      /\ store[p] = {} /\ store'[p] = {"temporary"}
      /\ \A q \in Paths \ {p} : store'[q] = store[q]
  BY <1>1 DEF IInv, TypeOK, PathsOnce, Area
<1>5. \A i \in FileIds : files[i].path # p
  BY <1>1 DEF IInv, PathsOnce, TypeOK, NoRow
<1>6. \A v \in Workers : req[v].path # p
  BY <1>1 DEF IInv, ReqShape, Shape, IdleReq
<1>7. TypeOK'
  BY <1>1, <1>3, <1>4 DEF IInv, TypeOK, Serves
<1>8. ReqShape'
  BY <1>1, <1>3 DEF IInv, ReqShape, Shape, Serves, Moves
<1>9. PathsOnce'
  BY <1>1, <1>4 DEF IInv, PathsOnce
<1>10. SingleCopy'
  BY <1>4 DEF IInv, SingleCopy
<1>11. RowHasBytes'
  <2> SUFFICES ASSUME NEW i \in FileIds, files[i] # NoRow
               PROVE store'[files[i].path] \cap {"quarantine", "software", "deletions"} # {}
    BY <1>1 DEF RowHasBytes
  <2>1. files[i].path \in Paths \ {p}
    BY <1>5 DEF IInv, TypeOK, Row
  <2>2. QED
    BY <1>4, <2>1 DEF IInv, RowHasBytes
<1>12. OwnRow'
  BY <1>1, <1>3 DEF IInv, OwnRow, Serves
<1>13. UploadPrivate'
  <2> SUFFICES ASSUME NEW v \in Workers, req'[v].op = "upload"
               PROVE  /\ \A i \in FileIds : files[i].path # req'[v].path
                      /\ \A u \in Workers \ {v} : req'[u].path # req'[v].path
                      /\ req'[v].pc = "scan" => "quarantine" \in store'[req'[v].path]
    BY <1>1 DEF UploadPrivate
  <2>1. CASE v = w
    BY <1>3, <1>5, <1>6, <2>1 DEF Serves
  <2>2. CASE v # w
    <3>1. req'[v] = req[v] /\ req[v].path \in Paths \ {p}
      BY <1>3, <1>6, <2>2 DEF IInv, ReqShape, Shape, TypeOK, IdleReq, Serves
    <3>2. QED
      BY <1>3, <1>4, <2>2, <3>1 DEF IInv, UploadPrivate, Serves
  <2>3. QED
    BY <2>1, <2>2
<1>14. UnlinkUnlisted'
  BY <1>1, <1>3 DEF IInv, UnlinkUnlisted, Serves
<1>15. QED
  BY <1>7, <1>8, <1>9, <1>10, <1>11, <1>12, <1>13, <1>14 DEF IInv

\* The steps of an upload that neither touch bytes nor rows keep the invariant.
LEMMA UploadPcStep ==
  ASSUME IInv, NEW w \in Workers, Streamed(w) \/ PersistFails(w)
  PROVE  IInv'
<1> DEFINE r == req[w]
<1>1. UNCHANGED <<files, store, used, alarms>> /\ alarms' \subseteq Paths
  BY DEF Streamed, PersistFails, IInv, TypeOK
<1>2. Shape(r) /\ TypeOK
  BY DEF IInv, ReqShape
<1>3. ASSUME NEW q \in {"move", "cleanup"}, Become(w, [r EXCEPT !.pc = q]),
             r.pc \in {"stream", "scan"}, q = "move" => r.pc = "stream"
      PROVE  IInv'
  <2>1. Serves(w) /\ SameFile(w) /\ req'[w].pc = q /\ req'[w].area = r.area
        /\ req'[w].change = r.change
    BY <1>2, <1>3, PcEffect DEF Pc
  <2>2. Shape(req'[w])
    BY <1>2, <1>3, <2>1 DEF Shape, SameFile, Moves
  <2>3. QED
    BY <1>1, <1>3, <2>1, <2>2, QuietStep
<1>4. QED
  BY <1>3 DEF Streamed, PersistFails

\* Persist lists a file that nothing else refers to and whose bytes are in quarantine.
LEMMA PersistStep ==
  ASSUME IInv, NEW w \in Workers, NEW i \in FileIds, NEW scan \in ScanResults,
         Persist(w, i, scan)
  PROVE  IInv'
<1> DEFINE r == req[w]
           row == [path |-> r.path, status |-> InitialStatus(scan),
                   scanner |-> scan.scanner, match |-> scan.match]
<1>1. /\ r.pc = "scan" /\ files[i] = NoRow
      /\ files' = [files EXCEPT ![i] = row]
      /\ UNCHANGED <<store, used, alarms>> /\ Become(w, IdleReq)
  BY DEF Persist, IsNextId
<1>2. /\ TypeOK /\ r.path \in Paths /\ r.path \in used /\ r.op = "upload"
      /\ "quarantine" \in store[r.path]
      /\ \A j \in FileIds : files[j].path # r.path
      /\ \A v \in Workers \ {w} : req[v].path # r.path
  BY <1>1 DEF IInv, ReqShape, Shape, TypeOK, UploadPrivate
<1>3. Serves(w) /\ req'[w] = IdleReq
  BY <1>1, <1>2, IdleEffect
<1>4. row \in Row /\ row.path = r.path
  BY <1>2, InitialStatusType DEF Row
<1> HIDE DEF row
<1>5. /\ files' \in [FileIds -> Row \cup {NoRow}]
      /\ files'[i] = row
      /\ \A j \in FileIds \ {i} : files'[j] = files[j]
  BY <1>1, <1>2, <1>4 DEF TypeOK
<1>6. TypeOK'
  BY <1>1, <1>3, <1>5 DEF IInv, TypeOK, Serves
<1>7. ReqShape'
  BY <1>1, <1>3 DEF IInv, ReqShape, Shape, Serves, IdleReq
<1>8. PathsOnce'
  BY <1>1, <1>2, <1>4, <1>5 DEF IInv, PathsOnce
<1>9. SingleCopy'
  BY <1>1 DEF IInv, SingleCopy
<1>10. RowHasBytes'
  <2> SUFFICES ASSUME NEW j \in FileIds, files'[j] # NoRow
               PROVE store[files'[j].path] \cap {"quarantine", "software", "deletions"} # {}
    BY <1>1 DEF RowHasBytes
  <2>1. CASE j = i
    BY <1>2, <1>4, <1>5, <2>1
  <2>2. CASE j # i
    BY <1>5, <2>2 DEF IInv, RowHasBytes
  <2>3. QED
    BY <2>1, <2>2
<1>11. OwnRow'
  BY <1>2, <1>3, <1>4, <1>5 DEF IInv, OwnRow, Serves, IdleReq
<1>12. UploadPrivate'
  <2> SUFFICES ASSUME NEW v \in Workers, req'[v].op = "upload"
               PROVE  /\ \A j \in FileIds : files'[j].path # req'[v].path
                      /\ \A u \in Workers \ {v} : req'[u].path # req'[v].path
                      /\ req'[v].pc = "scan" => "quarantine" \in store[req'[v].path]
    BY <1>1 DEF UploadPrivate
  <2>1. v # w /\ req'[v] = req[v]
    BY <1>3 DEF Serves, IdleReq
  <2>2. req[v].path \in Paths
    BY <2>1 DEF IInv, ReqShape, Shape, TypeOK, IdleReq
  <2>3. \A j \in FileIds : files'[j].path # req'[v].path
    BY <1>2, <1>4, <1>5, <2>1 DEF IInv, UploadPrivate
  <2>4. \A u \in Workers \ {v} : req'[u].path # req'[v].path
    BY <1>3, <2>1, <2>2 DEF IInv, UploadPrivate, Serves, IdleReq
  <2>5. QED
    BY <2>1, <2>3, <2>4 DEF IInv, UploadPrivate
<1>13. UnlinkUnlisted'
  BY <1>2, <1>3, <1>4, <1>5 DEF IInv, UnlinkUnlisted, Serves, IdleReq
<1>14. QED
  BY <1>6, <1>7, <1>8, <1>9, <1>10, <1>11, <1>12, <1>13 DEF IInv

\* The temporary-file cleaner removes bytes of no listed file and of no finished upload.
LEMMA CleanupTemporaryStep ==
  ASSUME IInv, NEW p \in Paths, CleanupTemporary(p)
  PROVE  IInv'
<1>1. /\ UNCHANGED <<files, used, req, alarms>>
      /\ store' = [store EXCEPT ![p] = @ \ {"temporary"}]
  BY DEF CleanupTemporary
<1>2. /\ store' \in [Paths -> SUBSET Area]
      /\ \A q \in Paths : store'[q] = store[q] \ (IF q = p THEN {"temporary"} ELSE {})
  BY <1>1 DEF IInv, TypeOK
<1>3. /\ \A q \in Paths : store'[q] \subseteq store[q]
      /\ \A q \in Paths : \A a \in store[q] : a # "temporary" => a \in store'[q]
  BY <1>2
<1>4. TypeOK' /\ ReqShape' /\ OwnRow' /\ UnlinkUnlisted'
  BY <1>1, <1>2 DEF IInv, TypeOK, ReqShape, Shape, OwnRow, UnlinkUnlisted
<1>5. PathsOnce' /\ SingleCopy'
  BY <1>1, <1>3 DEF IInv, PathsOnce, SingleCopy
<1>6. RowHasBytes'
  <2> SUFFICES ASSUME NEW i \in FileIds, files[i] # NoRow
               PROVE store'[files[i].path] \cap {"quarantine", "software", "deletions"} # {}
    BY <1>1 DEF RowHasBytes
  <2>1. files[i].path \in Paths
    BY DEF IInv, TypeOK, Row
  <2>2. store[files[i].path] \cap {"quarantine", "software", "deletions"} # {}
    BY DEF IInv, RowHasBytes
  <2>3. QED
    BY <1>3, <2>1, <2>2
<1>7. UploadPrivate'
  <2> SUFFICES ASSUME NEW v \in Workers, req[v].op = "upload", req[v].pc = "scan"
               PROVE  "quarantine" \in store'[req[v].path]
    BY <1>1 DEF IInv, UploadPrivate
  <2>1. req[v].path \in Paths /\ "quarantine" \in store[req[v].path]
    BY DEF IInv, UploadPrivate, ReqShape, Shape, TypeOK
  <2>2. QED
    BY <1>3, <2>1
<1>8. QED
  BY <1>4, <1>5, <1>6, <1>7 DEF IInv

\* A crash forgets every request and nothing else.
LEMMA CrashStep ==
  ASSUME IInv, Crash
  PROVE  IInv'
<1>1. /\ UNCHANGED <<files, store, used, alarms>>
      /\ req' = [v \in Workers |-> IdleReq]
  BY DEF Crash
<1>2. /\ req' \in [Workers -> Request]
      /\ \A v \in Workers : req'[v] = IdleReq
  BY <1>1, IdleReqType
<1>3. TypeOK'
  BY <1>1, <1>2 DEF IInv, TypeOK
<1>4. ReqShape' /\ OwnRow' /\ UploadPrivate' /\ UnlinkUnlisted'
  BY <1>2 DEF ReqShape, Shape, OwnRow, UploadPrivate, UnlinkUnlisted, IdleReq
<1>5. PathsOnce' /\ SingleCopy' /\ RowHasBytes'
  BY <1>1 DEF IInv, PathsOnce, SingleCopy, RowHasBytes
<1>6. QED
  BY <1>3, <1>4, <1>5 DEF IInv

-----------------------------------------------------------------------------
(* Types, bytes and moves *)

\* The empty catalog satisfies the invariant.
LEMMA InitIInv == Init => IInv
<1> SUFFICES ASSUME Init PROVE IInv
  OBVIOUS
<1>1. TypeOK
  BY IdleReqType DEF Init, TypeOK
<1>2. ReqShape /\ OwnRow /\ UploadPrivate /\ UnlinkUnlisted
  BY DEF Init, ReqShape, Shape, OwnRow, UploadPrivate, UnlinkUnlisted, IdleReq
<1>3. PathsOnce /\ SingleCopy /\ RowHasBytes
  BY DEF Init, PathsOnce, SingleCopy, RowHasBytes
<1>4. QED
  BY <1>1, <1>2, <1>3 DEF IInv

\* Every step of a request, of the cleaner and of a crash keeps the invariant.
LEMMA NextIInv == IInv /\ [Next]_vars => IInv'
<1> SUFFICES ASSUME IInv, [Next]_vars PROVE IInv'
  OBVIOUS
<1>1. ASSUME NEW w \in Workers, Arrive(w)
      PROVE  IInv'
  BY <1>1, GetStep, UploadStartStep DEF Arrive
<1>2. ASSUME NEW w \in Workers, WorkerStep(w)
      PROVE  IInv'
  BY <1>2, LocateStep, CheckMoveStep, ReplaceStep, TxReadStep, TxWriteStep, UndoStep,
     RemoveStep, UploadPcStep, PersistStep DEF WorkerStep
<1>3. CASE UNCHANGED vars
  BY <1>3 DEF vars, IInv, TypeOK, ReqShape, Shape, PathsOnce, SingleCopy, OwnRow,
     UploadPrivate, UnlinkUnlisted, RowHasBytes
<1>4. QED
  BY <1>1, <1>2, <1>3, CleanupTemporaryStep, CrashStep DEF Next

\* A single copy makes the renames of atomic_move safe: with the source present the
\* destination is free.
LEMMA IInvNoClobber == IInv => NoClobber
<1> SUFFICES ASSUME IInv, NEW w \in Workers, req[w].pc \in {"replace", "undoReplace"}
             PROVE  ~(req[w].area \in store[req[w].path]
                        /\ MoveTo(req[w].op) \in store[req[w].path])
  BY DEF NoClobber
<1>1. req[w] \in Request /\ Shape(req[w]) /\ req[w].path \in Paths
  BY DEF IInv, TypeOK, ReqShape, Shape
<1>2. MoveTo(req[w].op) # req[w].area
  BY <1>1, MoveChangesArea
<1>3. QED
  BY <1>1, <1>2 DEF IInv, SingleCopy

\* The strengthened invariant holds in every reachable state.
THEOREM Inductive == Spec => []IInv
  BY InitIInv, NextIInv, PTL DEF Spec

\* Rows, storage, requests and alarms keep their types, for every number of files,
\* paths and concurrent requests and whatever faults happen.
THEOREM TypeCorrect == Spec => []TypeOK
<1>1. IInv => TypeOK
  BY DEF IInv
<1>2. QED
  BY <1>1, Inductive, PTL

\* However requests interleave, fail or crash, a row never outlives its bytes: no
\* compensation, cleanup or deletion removes the only copy of a listed file.
THEOREM MetadataHasBytes == Spec => []RowHasBytes
<1>1. IInv => RowHasBytes
  BY DEF IInv
<1>2. QED
  BY <1>1, Inductive, PTL

\* The check-then-rename of atomic_move never overwrites a file.
THEOREM MovesNeverClobber == Spec => []NoClobber
  BY IInvNoClobber, Inductive, PTL

HIDE FileAssumption

-----------------------------------------------------------------------------
(* The promise *)

VARIABLE rec    \* the records of AtomicFiles

Promise == INSTANCE AtomicFiles

\* A record is never mistaken for a missing one.
LEMMA RecordNotGone == \A r \in Promise!Record : r # Promise!Gone
  BY DEF Promise!Record, Promise!Gone, Promise!StorageArea

\* The fields of a record built by an action.
LEMMA NewRecord ==
  ASSUME NEW s \in Promise!FileStatus, NEW a \in Promise!StorageArea
  PROVE  /\ [status |-> s, area |-> a] \in Promise!Record
         /\ [status |-> s, area |-> a].status = s
         /\ [status |-> s, area |-> a].area = a
  BY DEF Promise!Record

\* Giving row i a well-placed record keeps every record well placed.
LEMMA PlaceRecord ==
  ASSUME Promise!ASafe, NEW i \in 1..MaxFile, NEW s \in Promise!FileStatus,
         NEW a \in Promise!AreaAllowed(s), a \in Promise!StorageArea,
         rec' = [rec EXCEPT ![i] = [status |-> s, area |-> a]]
  PROVE  Promise!ASafe'
<1> DEFINE new == [status |-> s, area |-> a]
<1>1. new \in Promise!Record /\ new.status = s /\ new.area = a
  BY NewRecord
<1> HIDE DEF new
<1>2. rec' = [rec EXCEPT ![i] = new]
  BY DEF new
<1>3. QED
  BY <1>1, <1>2 DEF Promise!ASafe

\* Every step of the abstract lifecycle keeps records well placed.
LEMMA AtomicStep == Promise!ASafe /\ [Promise!ANext]_rec => Promise!ASafe'
<1> SUFFICES ASSUME Promise!ASafe, [Promise!ANext]_rec PROVE Promise!ASafe'
  OBVIOUS
<1>1. CASE UNCHANGED rec
  BY <1>1 DEF Promise!ASafe
<1>2. ASSUME NEW i \in 1..MaxFile, NEW s \in Promise!FileStatus, Promise!Create(i, s)
      PROVE  Promise!ASafe'
  <2>1. "quarantine" \in Promise!AreaAllowed(s) /\ "quarantine" \in Promise!StorageArea
    BY <1>2 DEF Promise!Create, Promise!AreaAllowed, Promise!StorageArea
  <2>2. QED
    BY <1>2, <2>1, PlaceRecord DEF Promise!Create
<1>3. ASSUME NEW i \in 1..MaxFile, NEW s \in Promise!FileStatus, Promise!Decide(i, s)
      PROVE  Promise!ASafe'
  <2>1. rec[i] \in Promise!Record
    BY <1>3 DEF Promise!Decide, Promise!ASafe
  <2>2. /\ rec' = [rec EXCEPT ![i] = [rec[i] EXCEPT !.status = s]]
        /\ rec[i].area \in Promise!AreaAllowed(s)
    BY <1>3 DEF Promise!Decide
  <2> DEFINE new == [rec[i] EXCEPT !.status = s]
  <2>3. new \in Promise!Record /\ new.status = s /\ new.area = rec[i].area
    BY <2>1 DEF Promise!Record
  <2>4. rec' = [rec EXCEPT ![i] = new]
    BY <2>2
  <2> HIDE DEF new
  <2>5. QED
    BY <2>2, <2>3, <2>4 DEF Promise!ASafe
<1>4. ASSUME NEW i \in 1..MaxFile, Promise!Publish(i)
      PROVE  Promise!ASafe'
  <2>1. /\ "published" \in Promise!FileStatus /\ "software" \in Promise!AreaAllowed("published")
        /\ "software" \in Promise!StorageArea
    BY DEF Promise!FileStatus, Promise!AreaAllowed, Promise!StorageArea
  <2>2. QED
    BY <1>4, <2>1, PlaceRecord DEF Promise!Publish
<1>5. ASSUME NEW i \in 1..MaxFile, Promise!Restore(i)
      PROVE  Promise!ASafe'
  <2>1. /\ "ready" \in Promise!FileStatus /\ "quarantine" \in Promise!AreaAllowed("ready")
        /\ "quarantine" \in Promise!StorageArea
    BY DEF Promise!FileStatus, Promise!AreaAllowed, Promise!StorageArea
  <2>2. QED
    BY <1>5, <2>1, PlaceRecord DEF Promise!Restore
<1>6. ASSUME NEW i \in 1..MaxFile, Promise!Remove(i)
      PROVE  Promise!ASafe'
  BY <1>6 DEF Promise!Remove, Promise!ASafe
<1>7. QED
  BY <1>1, <1>2, <1>3, <1>4, <1>5, <1>6 DEF Promise!ANext

\* In the atomic lifecycle every record has its type and its bytes are always in an
\* area that _area_allowed expects for its status, for every number of files.
THEOREM AtomicPlacement == Promise!ASpec => []Promise!ASafe
<1>1. Promise!AInit => Promise!ASafe
  BY DEF Promise!AInit, Promise!ASafe
<1>2. QED
  BY <1>1, AtomicStep, PTL DEF Promise!ASpec

-----------------------------------------------------------------------------
(* Requests one at a time *)

\* One request at a time, as the runs with one worker have it.
Serial == \E w : Workers = {w}

\* No fault that may leave a file where the failed operation moved it.
Undone == Faults \cap {"fsync", "undo", "crash"} = {}

\* What is left of IInv when files are lost, or copied by an operator.
Shaped ==
    /\ TypeOK
    /\ ReqShape
    /\ \A i \in FileIds : files[i] # NoRow => files[i].path \in used

\* What a request knows of its row, and of what it is about to write to it.
RowHeld(r, row) ==
    /\ row # NoRow /\ row.path = r.path
    /\ r.op \in DeleteOps => EnsureDeletable(row)
    /\ r.pc = "write" =>
         /\ r.op = "publish" => EnsurePublishReady(row, TRUE)
         /\ r.op \in StatusOps =>
              IF r.change THEN Target(r.op) \in FILE_TRANSITIONS[row.status]
              ELSE row.status = Target(r.op)

\* A request about a row, until it has deleted it.
AboutRow(r) == r.op \notin {"none", "upload"} /\ r.pc # "unlink"

\* Nothing of a row changes while a request is about it.
RowsHeld == \A w \in Workers : AboutRow(req[w]) => RowHeld(req[w], files[req[w].id])

HInv == IInv /\ RowsHeld /\ PublishedApproved

\* The part of it that does not depend on where the bytes are.
Held == Shaped /\ RowsHeld /\ PublishedApproved

\* The invariant of the file lifecycle has this part.
LEMMA HeldOf == HInv => Held
  BY DEF HInv, Held, IInv, Shaped, PathsOnce

\* What a request that goes on, or ends, leaves of the invariant.
LEMMA HeldQuiet ==
  ASSUME Serial, Held, Shaped', NEW w \in Workers, Serves(w), UNCHANGED files,
         AboutRow(req'[w]) => RowHeld(req'[w], files[req'[w].id])
  PROVE  Held'
<1>1. RowsHeld'
  BY DEF Serial, RowsHeld
<1>2. PublishedApproved'
  BY DEF Held, PublishedApproved
<1>3. QED
  BY <1>1, <1>2 DEF Held

\* A request that goes on with the same file and is not about to write.
LEMMA HeldOn ==
  ASSUME Serial, Held, Shaped', NEW w \in Workers, Serves(w), UNCHANGED files,
         \/ req'[w] = IdleReq
         \/ SameFile(w) /\ req'[w].pc # "write" /\ req[w].pc # "unlink"
  PROVE  Held'
<1>1. AboutRow(req'[w]) => RowHeld(req'[w], files[req'[w].id])
  <2>1. CASE req'[w] = IdleReq
    BY <2>1 DEF AboutRow, IdleReq
  <2>2. CASE SameFile(w) /\ req'[w].pc # "write" /\ req[w].pc # "unlink"
    <3>1. AboutRow(req'[w]) => RowHeld(req[w], files[req[w].id])
      BY <2>2 DEF Held, RowsHeld, AboutRow, SameFile
    <3>2. QED
      BY <2>2, <3>1 DEF RowHeld, SameFile
  <2>3. QED
    BY <2>1, <2>2
<1>2. QED
  BY <1>1, HeldQuiet

\* An upload is about no row.
LEMMA HeldUpload ==
  ASSUME Serial, Held, Shaped', NEW w \in Workers, Serves(w), UNCHANGED files,
         req'[w].op = "upload"
  PROVE  Held'
  BY HeldQuiet DEF AboutRow

\* The idle request, and one whose forward move failed.
LEMMA MoveFailedEffect ==
  ASSUME TypeOK, NEW w \in Workers, Become(w, MoveFailed(req[w]))
  PROVE  /\ Serves(w)
         /\ \/ req'[w] = IdleReq /\ req[w].op # "upload"
            \/ SameFile(w) /\ req'[w].pc = "cleanup" /\ req[w].op = "upload"
                 /\ req'[w].area = req[w].area
<1>1. CASE req[w].op = "upload"
  BY <1>1, PcEffect DEF MoveFailed, Pc
<1>2. CASE req[w].op # "upload"
  BY <1>2, IdleEffect DEF MoveFailed
<1>3. QED
  BY <1>1, <1>2

\* The transaction of a request failed.
LEMMA TxFailedEffect ==
  ASSUME TypeOK, NEW w \in Workers, Become(w, TxFailed(req[w]))
  PROVE  /\ Serves(w)
         /\ \/ req'[w] = IdleReq /\ ~Moves(req[w].op, req[w].area)
            \/ SameFile(w) /\ req'[w].pc = "undo" /\ Moves(req[w].op, req[w].area)
                 /\ req'[w].area = req[w].area
<1>1. CASE Moves(req[w].op, req[w].area)
  BY <1>1, PcEffect DEF TxFailed, Pc
<1>2. CASE ~Moves(req[w].op, req[w].area)
  BY <1>2, IdleEffect DEF TxFailed
<1>3. QED
  BY <1>1, <1>2

\* The disk is inspected, or the request refused there.
LEMMA HeldLocate ==
  ASSUME Serial, Held, Shaped', NEW w \in Workers, Locate(w) \/ Refuse(w)
  PROVE  Held'
<1>1. TypeOK /\ req[w].pc = "locate" /\ UNCHANGED files
  BY DEF Held, Shaped, Locate, Refuse
<1>2. CASE Become(w, IdleReq)
  BY <1>1, <1>2, IdleEffect, HeldOn
<1>3. CASE \E a \in Area, q \in {"move", "read"} :
             Become(w, [req[w] EXCEPT !.area = a, !.pc = q])
  <2>1. PICK a \in Area, q \in {"move", "read"} :
           Become(w, [req[w] EXCEPT !.area = a, !.pc = q])
    BY <1>3
  <2>2. Serves(w) /\ SameFile(w) /\ req'[w].pc = q
    BY <1>1, <2>1, AreaEffect DEF Pc
  <2>3. QED
    BY <1>1, <2>2, HeldOn
<1>4. CASE Become(w, [req[w] EXCEPT !.pc = "read"])
  <2>1. Serves(w) /\ SameFile(w) /\ req'[w].pc = "read"
    BY <1>1, <1>4, PcEffect DEF Pc
  <2>2. QED
    BY <1>1, <2>1, HeldOn
<1>5. QED
  <2>1. CASE Refuse(w)
    BY <1>2, <2>1 DEF Refuse
  <2>2. CASE Locate(w)
    BY <1>3, <1>4, <2>2 DEF Locate, Area
  <2>3. QED
    BY <2>1, <2>2

\* A file is moved, forward or back, or unlinked.
LEMMA HeldDisk ==
  ASSUME Serial, Held, Shaped', NEW w \in Workers,
         \/ CheckMove(w) \/ Replace(w) \/ CheckUndo(w) \/ UndoReplace(w) \/ Unlink(w)
  PROVE  Held'
<1>1. /\ TypeOK /\ Shaped /\ UNCHANGED files
      /\ req[w].pc \in {"move", "replace", "undo", "undoReplace"} \/ Unlink(w)
  BY DEF Held, Shaped, CheckMove, Replace, CheckUndo, UndoReplace, Unlink
<1>2. CASE Become(w, IdleReq)
  BY <1>1, <1>2, IdleEffect, HeldOn
<1>3. CASE Become(w, MoveFailed(req[w])) /\ req[w].pc # "unlink"
  <2>1. /\ Serves(w)
        /\ req'[w] = IdleReq \/ (SameFile(w) /\ req'[w].pc = "cleanup")
    BY <1>1, <1>3, MoveFailedEffect
  <2>2. QED
    BY <1>1, <1>3, <2>1, HeldOn
<1>4. CASE /\ \E q \in {"replace", "undoReplace", "read"} :
                Become(w, [req[w] EXCEPT !.pc = q])
           /\ req[w].pc # "unlink"
  <2>1. PICK q \in {"replace", "undoReplace", "read"} : Become(w, [req[w] EXCEPT !.pc = q])
    BY <1>4
  <2>2. Serves(w) /\ SameFile(w) /\ req'[w].pc = q
    BY <1>1, <2>1, PcEffect DEF Pc
  <2>3. QED
    BY <1>1, <1>4, <2>1, <2>2, HeldOn
<1>5. CASE Become(w, [req[w] EXCEPT !.pc = "scan", !.area = "quarantine"])
             /\ req[w].op = "upload"
  <2>1. Become(w, [req[w] EXCEPT !.area = "quarantine", !.pc = "scan"])
    BY <1>1, <1>5 DEF TypeOK, Request
  <2>2. Serves(w) /\ SameFile(w)
    BY <1>1, <2>1, AreaEffect DEF Pc, Area, StorageArea
  <2>3. QED
    BY <1>1, <1>5, <2>2, HeldUpload DEF SameFile
<1>6. QED
  <2>1. CASE CheckMove(w)
    BY <1>3, <1>4, <2>1 DEF CheckMove
  <2>2. CASE Replace(w)
    BY <1>3, <1>4, <1>5, <2>2 DEF Replace
  <2>3. CASE CheckUndo(w)
    BY <1>2, <1>4, <2>3 DEF CheckUndo
  <2>4. CASE UndoReplace(w) \/ Unlink(w)
    BY <1>2, <2>4 DEF UndoReplace, Unlink
  <2>5. QED
    BY <2>1, <2>2, <2>3, <2>4

\* The transaction reads the row: what it will write is legal for that row.
LEMMA HeldTxRead ==
  ASSUME Serial, Held, Shaped', NEW w \in Workers, TxRead(w)
  PROVE  Held'
<1> DEFINE r == req[w]
           c == r.op \in StatusOps /\ files[r.id].status # Target(r.op)
<1>1. TypeOK /\ Shaped /\ UNCHANGED files /\ r.pc = "read"
  BY DEF Held, Shaped, TxRead
<1>2. CASE Become(w, TxFailed(r))
  <2>1. Serves(w) /\ (req'[w] = IdleReq \/ (SameFile(w) /\ req'[w].pc = "undo"))
    BY <1>1, <1>2, TxFailedEffect
  <2>2. QED
    BY <1>1, <2>1, HeldOn
<1>3. ASSUME NEW live \in BOOLEAN, Accepts(r, files[r.id], live),
             Become(w, [r EXCEPT !.pc = "write", !.change = c])
      PROVE  Held'
  <2>1. Serves(w) /\ SameFile(w) /\ req'[w].pc = "write" /\ req'[w].change = c
    BY <1>1, <1>3, ChangeEffect DEF Pc
  <2>2. AboutRow(req'[w]) => AboutRow(r)
    BY <1>1, <2>1 DEF AboutRow, SameFile
  <2>3. SUFFICES ASSUME AboutRow(r)
        PROVE  RowHeld(req'[w], files[r.id])
    BY <1>1, <2>1, <2>2, HeldQuiet DEF SameFile
  <2>4. RowHeld(r, files[r.id])
    BY <2>3 DEF Held, RowsHeld
  <2> DEFINE row == files[r.id]
  <2>5. r.op \in DeleteOps => EnsureDeletable(row)
    BY <1>3 DEF Accepts
  <2>6. r.op = "publish" => EnsurePublishReady(row, TRUE)
    BY <1>3 DEF Accepts, EnsurePublishReady
  <2>7. r.op \in StatusOps => TransitionAllowed(row, Target(r.op), live)
    BY <1>3 DEF Accepts
  <2>8. r.op \in StatusOps => IF c THEN Target(r.op) \in FILE_TRANSITIONS[row.status]
                              ELSE row.status = Target(r.op)
    BY <2>7 DEF TransitionAllowed
  <2>9. /\ req'[w].op = r.op /\ req'[w].path = r.path /\ req'[w].id = r.id
    BY <2>1 DEF SameFile
  <2> HIDE DEF c, row
  <2>10. QED
    BY <2>1, <2>4, <2>5, <2>6, <2>8, <2>9 DEF RowHeld, row
<1>4. QED
  BY <1>2, <1>3 DEF TxRead

\* What a write does to the row it was prepared for, and to no other.
LEMMA WriteEffect ==
  ASSUME Serial, Held, NEW w \in Workers, TxWrite(w)
  PROVE  LET r == req[w]
             row == files[r.id]
         IN  /\ r.pc = "write" /\ r.id \in FileIds /\ row \in Row /\ RowHeld(r, row)
             /\ UNCHANGED <<store, used, alarms>>
             /\ \/ /\ r.op \in StatusOps /\ r.change
                   /\ files' = [files EXCEPT ![r.id] = [row EXCEPT !.status = Target(r.op)]]
                   /\ Become(w, IdleReq)
                \/ /\ r.op \notin DeleteOps /\ ~r.change /\ UNCHANGED files
                   /\ Become(w, IdleReq)
                \/ /\ r.op \in DeleteOps
                   /\ files' = [files EXCEPT ![r.id] = NoRow]
                   /\ Become(w, IF r.op = "permanently_delete"
                                THEN [r EXCEPT !.pc = "unlink"] ELSE IdleReq)
                \/ UNCHANGED files /\ Become(w, TxFailed(r))
<1> DEFINE r == req[w]
           row == files[r.id]
<1>1. r.pc = "write" /\ UNCHANGED <<store, used, alarms>> /\ TypeOK /\ Shape(r)
  BY DEF TxWrite, Held, Shaped, ReqShape
<1>2. AboutRow(r) /\ r.id \in FileIds /\ (r.change => r.op \in StatusOps)
  BY <1>1 DEF Shape, AboutRow
<1>3. RowHeld(r, row) /\ row \in Row
  BY <1>1, <1>2 DEF Held, RowsHeld, RowHeld, TypeOK
<1>4. QED
  BY <1>1, <1>2, <1>3 DEF TxWrite, Row

\* A write ends the request, or leaves it without a row.
LEMMA HeldTxWrite ==
  ASSUME Serial, Held, Shaped', NEW w \in Workers, TxWrite(w)
  PROVE  Held'
<1> DEFINE r == req[w]
           row == files[r.id]
<1>1. TypeOK /\ Shaped
  BY DEF Held, Shaped
<1>2. /\ r.pc = "write" /\ r.id \in FileIds /\ row \in Row /\ RowHeld(r, row)
  BY WriteEffect
<1>3. CASE UNCHANGED files /\ Become(w, TxFailed(r))
  <2>1. Serves(w) /\ (req'[w] = IdleReq \/ (SameFile(w) /\ req'[w].pc = "undo"))
    BY <1>1, <1>3, TxFailedEffect
  <2>2. QED
    BY <1>2, <1>3, <2>1, HeldOn
<1>4. CASE UNCHANGED files /\ Become(w, IdleReq)
  BY <1>1, <1>2, <1>4, IdleEffect, HeldOn
<1>5. CASE /\ r.op \in StatusOps /\ r.change
           /\ files' = [files EXCEPT ![r.id] = [row EXCEPT !.status = Target(r.op)]]
           /\ Become(w, IdleReq)
  <2> DEFINE new == [row EXCEPT !.status = Target(r.op)]
  <2>1. new.status = Target(r.op) /\ new.match = row.match /\ new.scanner = row.scanner
    BY <1>2 DEF Row
  <2>2. \A i \in FileIds : files'[i] = IF i = r.id THEN new ELSE files[i]
    BY <1>1, <1>5 DEF TypeOK
  <2>3. Target(r.op) = "published" => r.op = "publish"
    BY <1>5 DEF Target, StatusOps
  <2>4. r.op = "publish" => row.match /\ row.scanner \in {"clean", "unavailable"}
    BY <1>2 DEF RowHeld, EnsurePublishReady
  <2> HIDE DEF new
  <2>5. PublishedApproved'
    BY <2>1, <2>2, <2>3, <2>4 DEF Held, PublishedApproved
  <2>6. Serves(w) /\ req'[w] = IdleReq
    BY <1>1, <1>5, IdleEffect
  <2>7. RowsHeld'
    BY <2>6 DEF Serial, RowsHeld, AboutRow, IdleReq
  <2>8. QED
    BY <2>5, <2>7 DEF Held
<1>6. CASE /\ r.op \in DeleteOps
           /\ files' = [files EXCEPT ![r.id] = NoRow]
           /\ Become(w, IF r.op = "permanently_delete"
                        THEN [r EXCEPT !.pc = "unlink"] ELSE IdleReq)
  <2>1. PublishedApproved'
    BY <1>1, <1>6 DEF Held, PublishedApproved, TypeOK, NoRow
  <2>2. Serves(w) /\ (req'[w] = IdleReq \/ req'[w].pc = "unlink")
    BY <1>1, <1>6, IdleEffect, PcEffect DEF Pc
  <2>3. RowsHeld'
    BY <2>2 DEF Serial, RowsHeld, AboutRow, IdleReq
  <2>4. QED
    BY <2>1, <2>3 DEF Held
<1>7. QED
  BY <1>3, <1>4, <1>5, <1>6, WriteEffect

\* Uploads: what they write is a new row, published by none of them.
LEMMA HeldUploads ==
  ASSUME Serial, Held, Shaped', NEW w \in Workers,
         \/ \E p \in Paths : UploadStart(w, p)
         \/ Streamed(w) \/ StreamFails(w) \/ PersistFails(w) \/ CleanupPaths(w)
         \/ \E i \in FileIds, scan \in ScanResults : Persist(w, i, scan)
  PROVE  Held'
<1>1. TypeOK /\ Shape(req[w])
  BY DEF Held, Shaped, ReqShape
<1>2. ASSUME NEW p \in Paths, UploadStart(w, p)
      PROVE  Held'
  <2> DEFINE n == [pc |-> "stream", op |-> "upload", id |-> 0, path |-> p,
                   area |-> "temporary", change |-> FALSE]
  <2>1. n \in Request /\ n.op = "upload"
    BY DEF Request, Pc, Operation, Area
  <2>2. Become(w, n) /\ UNCHANGED files
    BY <1>2 DEF UploadStart
  <2> HIDE DEF n
  <2>3. QED
    BY <1>1, <2>1, <2>2, BecomeEffect, HeldUpload
<1>3. CASE Streamed(w) \/ PersistFails(w)
  <2>1. req[w].op = "upload" /\ UNCHANGED files
    BY <1>1, <1>3 DEF Streamed, PersistFails, Shape
  <2>2. Serves(w) /\ SameFile(w)
    BY <1>1, <1>3, PcEffect DEF Streamed, PersistFails, Pc
  <2>3. QED
    BY <2>1, <2>2, HeldUpload DEF SameFile
<1>4. CASE StreamFails(w) \/ CleanupPaths(w)
  BY <1>1, <1>4, IdleEffect, HeldOn DEF StreamFails, CleanupPaths
<1>5. ASSUME NEW i \in FileIds, NEW scan \in ScanResults, Persist(w, i, scan)
      PROVE  Held'
  <2> DEFINE new == [path |-> req[w].path, status |-> InitialStatus(scan),
                     scanner |-> scan.scanner, match |-> scan.match]
  <2>1. new.status # "published"
    BY DEF InitialStatus
  <2>2. files' = [files EXCEPT ![i] = new] /\ Become(w, IdleReq)
    BY <1>5 DEF Persist
  <2> HIDE DEF new
  <2>3. PublishedApproved'
    BY <1>1, <2>1, <2>2 DEF Held, PublishedApproved, TypeOK
  <2>4. Serves(w) /\ req'[w] = IdleReq
    BY <1>1, <2>2, IdleEffect
  <2>5. RowsHeld'
    BY <2>4 DEF Serial, RowsHeld, AboutRow, IdleReq
  <2>6. QED
    BY <2>3, <2>5 DEF Held
<1>6. QED
  BY <1>2, <1>3, <1>4, <1>5

\* A request begins with the row it read.
LEMMA HeldGet ==
  ASSUME Serial, Held, Shaped', NEW w \in Workers, NEW op \in Operation, NEW i \in FileIds,
         Get(w, op, i)
  PROVE  Held'
<1> DEFINE n == [pc |-> "locate", op |-> op, id |-> i, path |-> files[i].path,
                 area |-> "none", change |-> FALSE]
<1>1. /\ TypeOK /\ files[i] # NoRow /\ files[i] \in Row /\ UNCHANGED files /\ Become(w, n)
      /\ op \in DeleteOps => EnsureDeletable(files[i])
  BY DEF Get, Held, Shaped, TypeOK
<1>2. n \in Request /\ n.id = i /\ n.op = op /\ n.path = files[i].path /\ n.pc = "locate"
  BY <1>1 DEF Request, Pc, Row
<1> HIDE DEF n
<1>3. Serves(w) /\ req'[w] = n
  BY <1>1, <1>2, BecomeEffect
<1>4. RowHeld(n, files[n.id])
  BY <1>1, <1>2 DEF RowHeld
<1>5. QED
  BY <1>1, <1>3, <1>4, HeldQuiet

\* A request that is alone keeps its row.
LEMMA HeldServed ==
  ASSUME Serial, Held, Shaped', NEW w \in Workers, Arrive(w) \/ WorkerStep(w)
  PROVE  Held'
<1>1. CASE Arrive(w)
  BY <1>1, HeldGet, HeldUploads DEF Arrive
<1>2. CASE WorkerStep(w)
  BY <1>2, HeldLocate, HeldDisk, HeldTxRead, HeldTxWrite, HeldUploads DEF WorkerStep
<1>3. QED
  BY <1>1, <1>2

\* Every step of the file lifecycle, with one request at a time.
LEMMA HeldNext ==
  ASSUME Serial, HInv, [Next]_vars
  PROVE  HInv'
<1>1. IInv' /\ Shaped' /\ Held
  BY NextIInv, HeldOf DEF HInv, IInv, Shaped, PathsOnce
<1>2. CASE \E w \in Workers : Arrive(w) \/ WorkerStep(w)
  BY <1>1, <1>2, HeldServed DEF HInv, Held
<1>3. CASE \E p \in Paths : CleanupTemporary(p)
  BY <1>1, <1>3 DEF CleanupTemporary, HInv, RowsHeld, PublishedApproved
<1>4. CASE Crash
  BY <1>1, <1>4 DEF Crash, HInv, RowsHeld, AboutRow, IdleReq, PublishedApproved
<1>5. CASE UNCHANGED vars
  BY <1>1, <1>5 DEF vars, HInv, RowsHeld, PublishedApproved
<1>6. QED
  BY <1>2, <1>3, <1>4, <1>5 DEF Next

\* An empty system.
LEMMA HeldInit == Init => HInv
<1> SUFFICES ASSUME Init PROVE HInv
  OBVIOUS
<1>1. RowsHeld /\ PublishedApproved
  BY DEF Init, RowsHeld, AboutRow, IdleReq, PublishedApproved, NoRow
<1>2. QED
  BY <1>1, InitIInv DEF HInv

\* With one request at a time every row is held by the request about it.
LEMMA HeldAlways == ASSUME Serial PROVE Spec => []HInv
<1>1. Init => HInv
  BY HeldInit
<1>2. HInv /\ [Next]_vars => HInv'
  BY HeldNext
<1>3. QED
  BY <1>1, <1>2, PTL DEF Spec

-----------------------------------------------------------------------------
(* Where the bytes of a row are *)

\* A request that has renamed its file and neither committed nor undone that.
Doubt(r, p) ==
    /\ r.path = p
    /\ r.pc \in {"read", "write", "undo", "undoReplace"}
    /\ Moves(r.op, r.area)

\* The file with path p, found in the areas s, counts as being in a while the request r
\* is served.
LiesIn(r, s, p, a) ==
    IF Doubt(r, p) THEN a = r.area /\ s = {MoveTo(r.op)} ELSE s = {a}

\* The bytes of every row count as being in one area, one that its status allows.
InPlace ==
    \A w \in Workers, i \in FileIds : files[i] # NoRow =>
        \E a \in AreaAllowed(files[i].status) :
            LiesIn(req[w], store[files[i].path], files[i].path, a)

\* A request that has inspected the disk knows the area its file counts as being in.
Located ==
    \A w \in Workers : AboutRow(req[w]) /\ req[w].pc \notin {"idle", "locate"} =>
        /\ AreaAccepted(req[w].op, req[w].area)
        /\ LiesIn(req[w], store[req[w].path], req[w].path, req[w].area)

PInv == HInv /\ InPlace /\ Located

\* Every area that a status allows is quarantine or software.
LEMMA AllowedAreas == \A s \in FileStatus : AreaAllowed(s) \subseteq StorageArea
  BY DEF FileStatus, AreaAllowed, StorageArea

\* A rename in doubt was one from a storage area to another area.
LEMMA DoubtFacts ==
  ASSUME NEW r \in Request, Shape(r), NEW p, Doubt(r, p)
  PROVE  r.area \in StorageArea /\ MoveTo(r.op) # r.area
  BY DEF Doubt, Shape, Moves, MoveTo, StorageArea

\* A step of w leaves the bytes of its file where they count as being, and w with the
\* area they were found in.
StaysPut(w) ==
    LET r == req[w]
        p == req[w].path
    IN  /\ Serves(w)
        /\ \A q \in Paths \ {p} : store'[q] = store[q]
        /\ \A a : LiesIn(r, store[p], p, a) => LiesIn(req'[w], store'[p], p, a)
        /\ \/ req'[w] = IdleReq
           \/ /\ SameFile(w)
              /\ IF r.pc = "locate"
                 THEN AreaAccepted(r.op, req'[w].area) /\ LiesIn(r, store[p], p, req'[w].area)
                 ELSE req'[w].area = r.area

\* What is known of a request about a row: its shape, its row and where its file is.
LEMMA AboutFacts ==
  ASSUME PInv, NEW w \in Workers, AboutRow(req[w])
  PROVE  LET r == req[w]
             row == files[r.id]
         IN  /\ TypeOK /\ IInv /\ r \in Request /\ Shape(r) /\ r.pc # "idle"
             /\ r.id \in FileIds /\ r.path \in Paths /\ row \in Row /\ row # NoRow
             /\ row.path = r.path /\ RowHeld(r, row)
             /\ store \in [Paths -> SUBSET Area]
             /\ \E a \in AreaAllowed(row.status) :
                  a \in StorageArea /\ LiesIn(r, store[r.path], r.path, a)
             /\ r.pc # "locate" =>
                  AreaAccepted(r.op, r.area) /\ LiesIn(r, store[r.path], r.path, r.area)
<1> DEFINE r == req[w]
           row == files[r.id]
<1>1. TypeOK /\ IInv /\ r \in Request /\ Shape(r) /\ store \in [Paths -> SUBSET Area]
  BY DEF PInv, HInv, IInv, TypeOK, ReqShape
<1>2. r.pc # "idle" /\ r.id \in FileIds
  BY <1>1 DEF Shape, AboutRow, IdleReq
<1>3. RowHeld(r, row) /\ row # NoRow /\ row.path = r.path
  BY DEF PInv, HInv, RowsHeld, RowHeld
<1>4. row \in Row /\ r.path \in Paths /\ row.status \in FileStatus
  BY <1>1, <1>2, <1>3 DEF TypeOK, Row
<1>5. \E a \in AreaAllowed(row.status) : LiesIn(r, store[r.path], r.path, a)
  BY <1>2, <1>3 DEF PInv, InPlace
<1>6. r.pc # "locate" => AreaAccepted(r.op, r.area) /\ LiesIn(r, store[r.path], r.path, r.area)
  BY <1>2 DEF PInv, Located
<1>7. QED
  BY <1>1, <1>2, <1>3, <1>4, <1>5, <1>6, AllowedAreas

\* A request that renames nothing in this step, and is as much in doubt as before.
LEMMA PutQuiet ==
  ASSUME NEW w \in Workers, Serves(w), UNCHANGED store, req[w].path # NoPath,
         \/ /\ req'[w] = IdleReq /\ ~Doubt(req[w], req[w].path)
         \/ /\ SameFile(w) /\ req'[w].area = req[w].area /\ req[w].pc # "locate"
            /\ Doubt(req'[w], req[w].path) <=> Doubt(req[w], req[w].path)
  PROVE  StaysPut(w)
  BY DEF StaysPut, LiesIn, SameFile, IdleReq, Doubt

\* FileService finds the file in the one area it counts as being in, or refuses.
LEMMA PutLocate ==
  ASSUME PInv, NEW w \in Workers, AboutRow(req[w]), Locate(w) \/ Refuse(w)
  PROVE  StaysPut(w)
<1> DEFINE r == req[w]
           p == r.path
<1>1. /\ r.pc = "locate" /\ UNCHANGED store /\ TypeOK /\ p \in Paths
      /\ \E a \in StorageArea : LiesIn(r, store[p], p, a)
  BY AboutFacts DEF Locate, Refuse
<1>2. ~Doubt(r, p)
  BY <1>1 DEF Doubt
<1>3. PICK b \in StorageArea : store[p] = {b}
  BY <1>1, <1>2 DEF LiesIn
<1>4. CASE Become(w, IdleReq)
  BY <1>1, <1>2, <1>4, IdleEffect, PutQuiet, FileAssumption
<1>5. ASSUME NEW a \in store[p] \cap StorageArea, AreaAccepted(r.op, a),
             Become(w, [r EXCEPT !.area = a, !.pc = IF Moves(r.op, a) THEN "move" ELSE "read"])
      PROVE  StaysPut(w)
  <2> DEFINE q == IF Moves(r.op, a) THEN "move" ELSE "read"
  <2>1. a = b /\ q \in Pc /\ a \in Area
    BY <1>3, <1>5 DEF Pc, Area
  <2>2. Serves(w) /\ SameFile(w) /\ req'[w].pc = q /\ req'[w].area = a
    BY <1>1, <1>5, <2>1, AreaEffect
  <2>3. ~Doubt(req'[w], p)
    BY <2>2 DEF Doubt, SameFile
  <2> HIDE DEF q
  <2>4. QED
    BY <1>1, <1>2, <1>3, <1>5, <2>1, <2>2, <2>3 DEF StaysPut, LiesIn
<1>6. QED
  BY <1>3, <1>4, <1>5 DEF Locate, Refuse

\* A file is renamed forward only after its checks; what fails has renamed nothing.
LEMMA PutForward ==
  ASSUME Undone, PInv, NEW w \in Workers, AboutRow(req[w]), CheckMove(w) \/ Replace(w)
  PROVE  StaysPut(w)
<1> DEFINE r == req[w]
           p == r.path
<1>1. /\ r.pc \in {"move", "replace"} /\ TypeOK /\ IInv /\ p \in Paths /\ p # NoPath
      /\ r.op # "upload" /\ Shape(r) /\ store \in [Paths -> SUBSET Area]
      /\ LiesIn(r, store[p], p, r.area)
  BY AboutFacts, FileAssumption DEF CheckMove, Replace, AboutRow
<1>2. ~Doubt(r, p) /\ store[p] = {r.area} /\ Moves(r.op, r.area)
  BY <1>1 DEF Doubt, LiesIn, Shape
<1>3. CASE UNCHANGED store /\ Become(w, MoveFailed(r))
  BY <1>1, <1>2, <1>3, MoveFailedEffect, PutQuiet
<1>4. CASE UNCHANGED store /\ Become(w, [r EXCEPT !.pc = "replace"])
  <2>1. Serves(w) /\ SameFile(w) /\ req'[w].pc = "replace" /\ req'[w].area = r.area
    BY <1>1, <1>4, PcEffect DEF Pc
  <2>2. QED
    BY <1>1, <1>2, <1>4, <2>1, PutQuiet DEF Doubt
<1>5. CASE store' = Renamed(p, r.area, MoveTo(r.op)) /\ Become(w, [r EXCEPT !.pc = "read"])
             /\ r.pc = "replace"
  <2>1. Serves(w) /\ SameFile(w) /\ req'[w].pc = "read" /\ req'[w].area = r.area
    BY <1>1, <1>5, PcEffect DEF Pc
  <2>2. Doubt(req'[w], p)
    BY <1>2, <2>1 DEF Doubt, SameFile
  <2>3. store'[p] = {MoveTo(r.op)} /\ \A q \in Paths \ {p} : store'[q] = store[q]
    BY <1>1, <1>2, <1>5 DEF Renamed
  <2>4. QED
    BY <1>1, <1>2, <1>5, <2>1, <2>2, <2>3 DEF StaysPut, LiesIn, SameFile
<1>6. QED
  <2>1. CASE CheckMove(w)
    BY <1>3, <1>4, <2>1 DEF CheckMove
  <2>2. CASE Replace(w)
    BY <1>1, <1>3, <1>5, <2>2 DEF Replace, Undone
  <2>3. QED
    BY <2>1, <2>2

\* A transaction that fails leaves the request in doubt until the rename is undone.
LEMMA PutTxFailed ==
  ASSUME PInv, NEW w \in Workers, AboutRow(req[w]), req[w].pc \in {"read", "write"},
         UNCHANGED store, Become(w, TxFailed(req[w]))
  PROVE  StaysPut(w)
<1>1. TypeOK /\ req[w].path # NoPath
  BY AboutFacts, FileAssumption
<1>2. /\ Serves(w)
      /\ \/ req'[w] = IdleReq /\ ~Moves(req[w].op, req[w].area)
         \/ SameFile(w) /\ req'[w].pc = "undo" /\ Moves(req[w].op, req[w].area)
              /\ req'[w].area = req[w].area
  BY <1>1, TxFailedEffect
<1>3. QED
  BY <1>1, <1>2, PutQuiet DEF Doubt, SameFile

\* The transaction reads its row.
LEMMA PutTxRead ==
  ASSUME PInv, NEW w \in Workers, AboutRow(req[w]), TxRead(w)
  PROVE  StaysPut(w)
<1> DEFINE r == req[w]
           c == r.op \in StatusOps /\ files[r.id].status # Target(r.op)
<1>1. TypeOK /\ r.pc = "read" /\ UNCHANGED store /\ r.path # NoPath
  BY AboutFacts, FileAssumption DEF TxRead
<1>2. CASE Become(w, TxFailed(r))
  BY <1>1, <1>2, PutTxFailed
<1>3. CASE Become(w, [r EXCEPT !.pc = "write", !.change = c])
  <2>1. Serves(w) /\ SameFile(w) /\ req'[w].pc = "write" /\ req'[w].area = r.area
    BY <1>1, <1>3, ChangeEffect DEF Pc
  <2>2. QED
    BY <1>1, <2>1, PutQuiet DEF Doubt, SameFile
<1>4. QED
  BY <1>2, <1>3 DEF TxRead

\* An operation that finds the status as it should be has not renamed anything.
LEMMA NothingToWrite ==
  ASSUME PInv, NEW w \in Workers, AboutRow(req[w]), req[w].pc = "write",
         req[w].op \notin DeleteOps, ~req[w].change
  PROVE  ~Doubt(req[w], req[w].path)
<1> DEFINE r == req[w]
           row == files[r.id]
<1> SUFFICES ASSUME Doubt(r, r.path) PROVE FALSE
  OBVIOUS
<1>1. RowHeld(r, row) /\ \E a \in AreaAllowed(row.status) : LiesIn(r, store[r.path], r.path, a)
  BY AboutFacts
<1>2. r.area \in AreaAllowed(row.status)
  BY <1>1 DEF LiesIn
<1>3. r.op = "publish" \/ (r.op = "restore_ready" /\ r.area = "software")
  BY DEF Doubt, Moves, DeleteOps
<1>4. row.status = Target(r.op)
  BY <1>1, <1>3 DEF RowHeld, StatusOps
<1>5. r.op = "publish" => row.status = "ready"
  BY <1>1 DEF RowHeld, EnsurePublishReady
<1>6. QED
  BY <1>2, <1>3, <1>4, <1>5 DEF Target, AreaAllowed

\* A write that leaves every row alone.
LEMMA PutTxWrite ==
  ASSUME Serial, PInv, NEW w \in Workers, AboutRow(req[w]), TxWrite(w), UNCHANGED files
  PROVE  StaysPut(w)
<1> DEFINE r == req[w]
           row == files[r.id]
<1>1. /\ TypeOK /\ r.pc = "write" /\ UNCHANGED store /\ r.path # NoPath
      /\ r.id \in FileIds /\ row \in Row /\ row # NoRow /\ RowHeld(r, row)
  BY AboutFacts, FileAssumption DEF TxWrite
<1>2. CASE Become(w, TxFailed(r))
  BY <1>1, <1>2, PutTxFailed
<1>3. CASE r.op \notin DeleteOps /\ ~r.change /\ Become(w, IdleReq)
  BY <1>1, <1>3, NothingToWrite, IdleEffect, PutQuiet
<1>4. CASE r.op \in StatusOps /\ r.change
             /\ files' = [files EXCEPT ![r.id] = [row EXCEPT !.status = Target(r.op)]]
  <2>1. files'[r.id].status = Target(r.op)
    BY <1>1, <1>4 DEF TypeOK, Row
  <2>2. Target(r.op) \in FILE_TRANSITIONS[row.status] /\ row.status \in FileStatus
    BY <1>1, <1>4 DEF RowHeld, Row
  <2>3. Target(r.op) # row.status
    BY <2>2 DEF FILE_TRANSITIONS, FileStatus
  <2>4. QED
    BY <2>1, <2>3
<1>5. CASE files' = [files EXCEPT ![r.id] = NoRow]
  BY <1>1, <1>5 DEF TypeOK
<1>6. QED
  BY <1>2, <1>3, <1>4, <1>5, WriteEffect, HeldOf DEF PInv

\* The rename back finds the place where the file came from free, and succeeds.
LEMMA PutUndo ==
  ASSUME Undone, PInv, NEW w \in Workers, AboutRow(req[w]), CheckUndo(w) \/ UndoReplace(w)
  PROVE  StaysPut(w)
<1> DEFINE r == req[w]
           p == r.path
<1>1. /\ r.pc \in {"undo", "undoReplace"} /\ TypeOK /\ p \in Paths /\ p # NoPath
      /\ r \in Request /\ Shape(r) /\ store \in [Paths -> SUBSET Area]
      /\ LiesIn(r, store[p], p, r.area)
  BY AboutFacts, FileAssumption DEF CheckUndo, UndoReplace
<1>2. Doubt(r, p) /\ store[p] = {MoveTo(r.op)}
  BY <1>1 DEF Doubt, LiesIn, Shape
<1>3. MoveTo(r.op) # r.area /\ r.area \in StorageArea
  BY <1>1, <1>2, DoubtFacts
<1>4. CASE CheckUndo(w)
  <2>1. Become(w, [r EXCEPT !.pc = "undoReplace"]) /\ UNCHANGED store /\ r.pc = "undo"
    BY <1>2, <1>3, <1>4 DEF CheckUndo, Undone
  <2>2. Serves(w) /\ SameFile(w) /\ req'[w].pc = "undoReplace" /\ req'[w].area = r.area
    BY <1>1, <2>1, PcEffect DEF Pc
  <2>3. QED
    BY <1>1, <1>2, <2>1, <2>2, PutQuiet DEF Doubt, SameFile
<1>5. CASE UndoReplace(w)
  <2>1. Become(w, IdleReq) /\ store' = Renamed(p, MoveTo(r.op), r.area)
    BY <1>2, <1>5 DEF UndoReplace, Undone
  <2>2. Serves(w) /\ req'[w] = IdleReq
    BY <1>1, <2>1, IdleEffect
  <2>3. store'[p] = {r.area} /\ \A q \in Paths \ {p} : store'[q] = store[q]
    BY <1>1, <1>2, <2>1 DEF Renamed
  <2>4. ~Doubt(req'[w], p)
    BY <1>1, <2>2 DEF Doubt, IdleReq
  <2>5. QED
    BY <1>2, <2>2, <2>3, <2>4 DEF StaysPut, LiesIn
<1>6. QED
  BY <1>4, <1>5

\* Whatever a request about a row does short of writing, its file stays put.
LEMMA PutStep ==
  ASSUME Serial, Undone, PInv, NEW w \in Workers, AboutRow(req[w]), WorkerStep(w),
         UNCHANGED files
  PROVE  StaysPut(w)
<1>1. Shape(req[w]) /\ req[w].op # "upload" /\ req[w].pc # "unlink"
  BY AboutFacts DEF AboutRow
<1>2. CASE Locate(w) \/ Refuse(w) \/ CheckMove(w) \/ Replace(w)
  BY <1>2, PutLocate, PutForward
<1>3. CASE TxRead(w) \/ TxWrite(w) \/ CheckUndo(w) \/ UndoReplace(w)
  BY <1>3, PutTxRead, PutTxWrite, PutUndo
<1>4. QED
  BY <1>1, <1>2, <1>3 DEF WorkerStep, Shape, Unlink, Streamed, StreamFails, PersistFails,
       CleanupPaths, Persist

\* A request that goes on, or ends, as the steps of WorkerStep have it.
Onward(w) ==
    LET r == req[w]
    IN  \/ Become(w, IdleReq)
        \/ /\ r.pc # "unlink"
           /\ \E q \in Pc :
                \/ Become(w, [r EXCEPT !.pc = q])
                \/ \E a \in Area : Become(w, [r EXCEPT !.area = a, !.pc = q])
                \/ \E c \in BOOLEAN : Become(w, [r EXCEPT !.pc = q, !.change = c])

\* A step of a request concerns its own path and no other.
LEMMA OwnPath ==
  ASSUME IInv, NEW w \in Workers, WorkerStep(w)
  PROVE  /\ Serves(w) /\ req[w].pc # "idle"
         /\ \A q \in Paths \ {req[w].path} : store'[q] = store[q]
         /\ req'[w] = IdleReq \/ SameFile(w)
         /\ req[w].pc = "unlink" => req'[w] = IdleReq
<1> DEFINE r == req[w]
<1>1. TypeOK /\ store \in [Paths -> SUBSET Area] /\ r \in Request
  BY DEF IInv, TypeOK
<1>2. /\ r.pc # "idle" /\ Onward(w)
      /\ UNCHANGED store \/ \E S : store' = [store EXCEPT ![r.path] = S]
  <2>1. CASE Locate(w) \/ Refuse(w)
    BY <2>1 DEF Locate, Refuse, Onward, Area, Pc
  <2>2. CASE CheckMove(w)
    BY <2>2 DEF CheckMove, MoveFailed, Onward, Pc
  <2>3. CASE Replace(w)
    BY <2>3 DEF Replace, Renamed, MoveFailed, Onward, Area, StorageArea, Pc
  <2>4. CASE TxRead(w)
    BY <2>4 DEF TxRead, TxFailed, Onward, Pc
  <2>5. CASE TxWrite(w)
    BY <2>5 DEF TxWrite, TxFailed, Onward, Pc
  <2>6. CASE CheckUndo(w) \/ UndoReplace(w)
    BY <2>6 DEF CheckUndo, UndoReplace, Renamed, Onward, Pc
  <2>7. CASE Unlink(w) \/ StreamFails(w) \/ CleanupPaths(w)
    BY <2>7 DEF Unlink, StreamFails, CleanupPaths, Onward
  <2>8. CASE Streamed(w) \/ PersistFails(w)
    BY <2>8 DEF Streamed, PersistFails, Onward, Pc
  <2>9. CASE \E i \in FileIds, scan \in ScanResults : Persist(w, i, scan)
    BY <2>9 DEF Persist, Onward
  <2>10. QED
    BY <2>1, <2>2, <2>3, <2>4, <2>5, <2>6, <2>7, <2>8, <2>9 DEF WorkerStep
<1>3. /\ Serves(w) /\ (req'[w] = IdleReq \/ SameFile(w))
      /\ r.pc = "unlink" => req'[w] = IdleReq
  <2>1. CASE Become(w, IdleReq)
    BY <1>1, <2>1, IdleEffect
  <2>2. ASSUME NEW q \in Pc, Become(w, [r EXCEPT !.pc = q])
        PROVE  Serves(w) /\ SameFile(w)
    BY <1>1, <2>2, PcEffect
  <2>3. ASSUME NEW q \in Pc, NEW a \in Area, Become(w, [r EXCEPT !.area = a, !.pc = q])
        PROVE  Serves(w) /\ SameFile(w)
    BY <1>1, <2>3, AreaEffect
  <2>4. ASSUME NEW q \in Pc, NEW c \in BOOLEAN, Become(w, [r EXCEPT !.pc = q, !.change = c])
        PROVE  Serves(w) /\ SameFile(w)
    BY <1>1, <2>4, ChangeEffect
  <2>5. QED
    BY <1>2, <2>1, <2>2, <2>3, <2>4 DEF Onward
<1>4. QED
  BY <1>1, <1>2, <1>3

\* A request that works on the file of a row is about that row.
LEMMA ListedIsAbout ==
  ASSUME PInv, NEW w \in Workers, NEW i \in FileIds, files[i] # NoRow,
         files[i].path = req[w].path
  PROVE  AboutRow(req[w]) /\ req[w].id = i
<1>1. TypeOK /\ Shape(req[w]) /\ files[i].path \in Paths
  BY DEF PInv, HInv, IInv, TypeOK, ReqShape, Row
<1>2. req[w].path # NoPath
  BY <1>1, FileAssumption
<1>3. req[w].pc # "idle" /\ req[w].op # "none"
  BY <1>1, <1>2 DEF Shape, IdleReq
<1>4. req[w].op # "upload" /\ req[w].pc # "unlink"
  BY DEF PInv, HInv, IInv, UploadPrivate, UnlinkUnlisted
<1>5. req[w].id = i
  BY <1>3, <1>4 DEF PInv, HInv, IInv, OwnRow
<1>6. QED
  BY <1>3, <1>4, <1>5 DEF AboutRow

\* A row that a step leaves as it is has its bytes in the same area after the step.
LEMMA RowsStay ==
  ASSUME Serial, Undone, PInv, [Next]_vars, NEW w \in Workers, NEW i \in FileIds,
         files[i] # NoRow, files'[i] = files[i],
         NEW a, LiesIn(req[w], store[files[i].path], files[i].path, a)
  PROVE  LiesIn(req'[w], store'[files[i].path], files[i].path, a)
<1> DEFINE r == req[w]
           p == files[i].path
<1>1. /\ TypeOK /\ IInv /\ Shape(r) /\ r \in Request /\ p \in Paths /\ p # NoPath /\ p \in used
      /\ files \in [FileIds -> Row \cup {NoRow}] /\ files[i].status \in FileStatus
  BY FileAssumption DEF PInv, HInv, IInv, TypeOK, ReqShape, Row, PathsOnce
<1>2. ASSUME p # r.path, store'[p] = store[p],
             req'[w].pc \notin {"read", "write", "undo", "undoReplace"} \/ req'[w].path # p
      PROVE  LiesIn(req'[w], store'[p], p, a)
  BY <1>2 DEF LiesIn, Doubt
<1>3. ASSUME NEW v \in Workers, Arrive(v)
      PROVE  LiesIn(req'[w], store'[p], p, a)
  <2>1. v = w
    BY DEF Serial
  <2>2. r.path = NoPath
    <3>1. r.pc = "idle"
      BY <1>3, <2>1 DEF Arrive, Get, UploadStart, Active
    <3>2. QED
      BY <1>1, <3>1 DEF Shape, IdleReq
  <2>3. req'[w].pc \in {"locate", "stream"}
    <3>1. \E n : Become(w, n) /\ n.pc \in {"locate", "stream"}
      <4>1. CASE \E op \in Operation, k \in FileIds : Get(w, op, k)
        BY <4>1 DEF Get
      <4>2. CASE \E q \in Paths : UploadStart(w, q)
        BY <4>2 DEF UploadStart
      <4>3. QED
        BY <1>3, <2>1, <4>1, <4>2 DEF Arrive
    <3>2. QED
      BY <1>1, <3>1 DEF Become, TypeOK
  <2>4. store'[p] = store[p]
    BY <1>1, <1>3 DEF Arrive, Get, UploadStart, TypeOK
  <2>5. QED
    BY <1>1, <1>2, <2>2, <2>3, <2>4
<1>4. ASSUME NEW v \in Workers, WorkerStep(v)
      PROVE  LiesIn(req'[w], store'[p], p, a)
  <2>1. v = w
    BY DEF Serial
  <2>2. /\ \A q \in Paths \ {r.path} : store'[q] = store[q]
        /\ req'[w] = IdleReq \/ SameFile(w)
    BY <1>1, <1>4, <2>1, OwnPath
  <2>3. CASE p # r.path
    BY <1>1, <1>2, <2>2, <2>3 DEF IdleReq, SameFile
  <2>4. CASE p = r.path
    <3>1. AboutRow(r) /\ r.id = i
      BY <2>4, ListedIsAbout
    <3>2. UNCHANGED files
      <4>1. CASE TxWrite(w)
        <5>1. (\E n : files' = [files EXCEPT ![i] = n]) \/ UNCHANGED files
          BY <3>1, <4>1, WriteEffect, HeldOf DEF PInv
        <5>2. QED
          BY <1>1, <5>1
      <4>2. CASE ~TxWrite(w)
        BY <1>1, <1>4, <2>1, <3>1, <4>2 DEF WorkerStep, AboutRow, Shape, Locate, Refuse,
             CheckMove, Replace, TxRead, CheckUndo, UndoReplace, Unlink, Streamed, StreamFails,
             PersistFails, CleanupPaths, Persist
      <4>3. QED
        BY <4>1, <4>2
    <3>3. StaysPut(w)
      BY <1>4, <2>1, <3>1, <3>2, PutStep
    <3>4. QED
      BY <2>4, <3>3 DEF StaysPut
  <2>5. QED
    BY <2>3, <2>4
<1>5. ASSUME NEW x \in Paths, CleanupTemporary(x)
      PROVE  LiesIn(req'[w], store'[p], p, a)
  <2>1. PICK b \in AreaAllowed(files[i].status) : LiesIn(r, store[p], p, b)
    BY DEF PInv, InPlace
  <2>2. b \in StorageArea /\ "temporary" \notin StorageArea
    BY <1>1, <2>1, AllowedAreas DEF StorageArea
  <2>3. "temporary" \notin store[p]
    BY <2>1, <2>2, MoveToType DEF LiesIn
  <2>4. store'[p] = store[p] /\ req' = req
    BY <1>1, <1>5, <2>3 DEF CleanupTemporary, TypeOK
  <2>5. QED
    BY <2>4
<1>6. CASE UNCHANGED vars
  BY <1>6 DEF vars
<1>7. QED
  BY <1>3, <1>4, <1>5, <1>6 DEF Next, Crash, Undone

\* An upload has created row i in quarantine.
Created(w, i) ==
    /\ files[i] = NoRow
    /\ files'[i] \in Row
    /\ files'[i].status \in {"quarantine", "ready", "rejected"}
    /\ LiesIn(req'[w], store'[files'[i].path], files'[i].path, "quarantine")

\* Row i, which may be deleted, has been.
Deleted(i) ==
    /\ files[i] \in Row
    /\ EnsureDeletable(files[i])
    /\ files'[i] = NoRow

\* Row i went from one status to another and its bytes from area a to area b: a
\* publication, a return to quarantine, or a decision that leaves the bytes alone.
Decided(w, i) ==
    LET p == files[i].path
        old == files[i].status
    IN  /\ files[i] \in Row
        /\ \E s \in FILE_TRANSITIONS[old], a, b \in StorageArea :
             /\ files'[i] = [files[i] EXCEPT !.status = s]
             /\ LiesIn(req[w], store[p], p, a)
             /\ LiesIn(req'[w], store'[p], p, b)
             /\ \/ /\ s = "published" /\ old = "ready"
                   /\ a = "quarantine" /\ b = "software"
                \/ /\ s = "ready" /\ old \in {"disabled", "archived"}
                   /\ b = "quarantine"
                \/ /\ s # "published" /\ a = b /\ a \in AreaAllowed(s)

\* Where the bytes of a file are before and after its status is set.
LEMMA DecisionAreas ==
  ASSUME NEW op \in StatusOps, NEW old \in FileStatus, NEW a \in AreaAllowed(old),
         a \in StorageArea, AreaAccepted(op, a), Target(op) \in FILE_TRANSITIONS[old],
         op = "publish" => old = "ready"
  PROVE  LET s == Target(op)
             b == IF Moves(op, a) THEN MoveTo(op) ELSE a
         IN  /\ b \in StorageArea
             /\ \/ s = "published" /\ old = "ready" /\ a = "quarantine" /\ b = "software"
                \/ s = "ready" /\ old \in {"disabled", "archived"} /\ b = "quarantine"
                \/ s # "published" /\ a = b /\ a \in AreaAllowed(s)
<1>1. CASE op = "publish"
  BY <1>1 DEF Moves, MoveTo, Target, StorageArea, AreaAccepted
<1>2. CASE op = "restore_ready"
  <2>1. Target(op) = "ready" /\ old \in {"quarantine", "disabled", "archived"}
    BY <1>2 DEF Target, FILE_TRANSITIONS, FileStatus
  <2>2. old = "quarantine" => a = "quarantine"
    BY DEF AreaAllowed
  <2>3. (IF Moves(op, a) THEN MoveTo(op) ELSE a) = "quarantine"
    BY <1>2 DEF Moves, MoveTo, StorageArea
  <2>4. "quarantine" \in AreaAllowed("ready") /\ "quarantine" \in StorageArea
    BY DEF AreaAllowed, StorageArea
  <2>5. QED
    BY <2>1, <2>2, <2>3, <2>4
<1>3. CASE op \in {"approve", "reject", "reopen"}
  BY <1>3 DEF Moves, Target, StorageArea, AreaAccepted, AreaAllowed
<1>4. CASE op \in {"disable", "archive"}
  BY <1>4 DEF Moves, Target, StorageArea, AreaAllowed
<1>5. QED
  BY <1>1, <1>2, <1>3, <1>4 DEF StatusOps

\* A write to the table changes one row, as the request about it had found and checked it.
LEMMA TxChanges ==
  ASSUME Serial, PInv, NEW w \in Workers, TxWrite(w), ~UNCHANGED files
  PROVE  LET i == req[w].id
         IN  /\ i \in FileIds
             /\ Deleted(i) \/ Decided(w, i)
             /\ \A j \in FileIds \ {i} : files'[j] = files[j]
<1> DEFINE r == req[w]
           p == r.path
           row == files[r.id]
<1>1. /\ r.pc = "write" /\ r.id \in FileIds /\ row \in Row /\ RowHeld(r, row) /\ UNCHANGED store
      /\ TypeOK
  BY WriteEffect, HeldOf DEF PInv, HInv, IInv
<1>2. AboutRow(r)
  BY <1>1 DEF PInv, HInv, IInv, ReqShape, Shape, AboutRow
<1>3. /\ Shape(r) /\ row.path = p /\ p \in Paths /\ p # NoPath /\ row.status \in FileStatus
      /\ AreaAccepted(r.op, r.area) /\ LiesIn(r, store[p], p, r.area)
      /\ \E a \in AreaAllowed(row.status) : a \in StorageArea /\ LiesIn(r, store[p], p, a)
  BY <1>1, <1>2, AboutFacts, FileAssumption DEF Row
<1>4. r.area \in AreaAllowed(row.status) /\ r.area \in StorageArea
  BY <1>3 DEF LiesIn
<1>5. CASE r.op \in DeleteOps /\ files' = [files EXCEPT ![r.id] = NoRow]
  BY <1>1, <1>5 DEF TypeOK, RowHeld, Deleted
<1>6. CASE /\ r.op \in StatusOps /\ r.change
           /\ files' = [files EXCEPT ![r.id] = [row EXCEPT !.status = Target(r.op)]]
           /\ Become(w, IdleReq)
  <2> DEFINE s == Target(r.op)
             b == IF Moves(r.op, r.area) THEN MoveTo(r.op) ELSE r.area
             new == [row EXCEPT !.status = s]
  <2>1. s \in FILE_TRANSITIONS[row.status] /\ (r.op = "publish" => row.status = "ready")
    BY <1>1, <1>6 DEF RowHeld, EnsurePublishReady
  <2>2. /\ b \in StorageArea
        /\ \/ s = "published" /\ row.status = "ready" /\ r.area = "quarantine" /\ b = "software"
           \/ s = "ready" /\ row.status \in {"disabled", "archived"} /\ b = "quarantine"
           \/ s # "published" /\ r.area = b /\ r.area \in AreaAllowed(s)
    BY <1>3, <1>4, <1>6, <2>1, DecisionAreas
  <2>3. store[p] = {b}
    BY <1>1, <1>3 DEF LiesIn, Doubt
  <2>4. req'[w] = IdleReq
    BY <1>1, <1>6, IdleEffect
  <2>5. LiesIn(req'[w], store'[p], p, b)
    BY <1>1, <2>3, <2>4 DEF LiesIn, Doubt, IdleReq
  <2>6. files'[r.id] = new /\ \A j \in FileIds \ {r.id} : files'[j] = files[j]
    BY <1>1, <1>6 DEF TypeOK
  <2> HIDE DEF s, b
  <2>7. Decided(w, r.id)
    BY <1>1, <1>3, <1>4, <2>1, <2>2, <2>5, <2>6 DEF Decided
  <2>8. QED
    BY <1>1, <2>6, <2>7
<1>7. QED
  BY <1>1, <1>5, <1>6, WriteEffect, HeldOf DEF PInv

\* An upload inserts its row while its file is in quarantine and nowhere else.
LEMMA PersistChanges ==
  ASSUME PInv, NEW w \in Workers, NEW i \in FileIds, NEW scan \in ScanResults,
         Persist(w, i, scan)
  PROVE  Created(w, i) /\ \A j \in FileIds \ {i} : files'[j] = files[j]
<1> DEFINE r == req[w]
           p == r.path
           new == [path |-> p, status |-> InitialStatus(scan),
                   scanner |-> scan.scanner, match |-> scan.match]
<1>1. /\ TypeOK /\ Shape(r) /\ r \in Request /\ r.pc = "scan" /\ files[i] = NoRow
      /\ files' = [files EXCEPT ![i] = new] /\ UNCHANGED store /\ Become(w, IdleReq)
      /\ store \in [Paths -> SUBSET Area]
  BY DEF Persist, IsNextId, PInv, HInv, IInv, TypeOK, ReqShape
<1>2. r.op = "upload" /\ p \in used /\ p \in Paths /\ p # NoPath
  BY <1>1, FileAssumption DEF Shape, TypeOK
<1>3. store[p] = {"quarantine"}
  BY <1>1, <1>2 DEF PInv, HInv, IInv, UploadPrivate, SingleCopy
<1>4. req'[w] = IdleReq
  BY <1>1, IdleEffect
<1>5. LiesIn(req'[w], store'[p], p, "quarantine")
  BY <1>1, <1>3, <1>4 DEF LiesIn, Doubt, IdleReq
<1>6. new \in Row /\ new.path = p /\ new.status \in {"quarantine", "ready", "rejected"}
  <2>1. scan \in [scanner : ScannerStatus, match : BOOLEAN]
    BY FileAssumption
  <2>2. InitialStatus(scan) \in {"quarantine", "ready", "rejected"}
    BY DEF InitialStatus
  <2>3. QED
    BY <1>2, <2>1, <2>2 DEF Row, FileStatus
<1> HIDE DEF new
<1>7. files'[i] = new /\ \A j \in FileIds \ {i} : files'[j] = files[j]
  BY <1>1 DEF TypeOK
<1>8. QED
  BY <1>1, <1>5, <1>6, <1>7 DEF Created

\* What a step may do to the table.
LEMMA RowChanges ==
  ASSUME Serial, Undone, PInv, [Next]_vars, NEW w \in Workers
  PROVE  \/ UNCHANGED files
         \/ \E i \in FileIds :
              /\ Created(w, i) \/ Deleted(i) \/ Decided(w, i)
              /\ \A j \in FileIds \ {i} : files'[j] = files[j]
<1>1. ASSUME NEW v \in Workers, Arrive(v)
      PROVE  UNCHANGED files
  BY <1>1 DEF Arrive, Get, UploadStart
<1>2. ASSUME NEW v \in Workers, WorkerStep(v), ~UNCHANGED files
      PROVE  \E i \in FileIds :
              /\ Created(w, i) \/ Deleted(i) \/ Decided(w, i)
              /\ \A j \in FileIds \ {i} : files'[j] = files[j]
  <2>1. v = w
    BY DEF Serial
  <2>2. CASE TxWrite(w)
    BY <1>2, <2>2, TxChanges
  <2>3. ASSUME NEW i \in FileIds, NEW scan \in ScanResults, Persist(w, i, scan)
        PROVE  Created(w, i) /\ \A j \in FileIds \ {i} : files'[j] = files[j]
    BY <2>3, PersistChanges
  <2>4. QED
    BY <1>2, <2>1, <2>2, <2>3 DEF WorkerStep, Locate, Refuse, CheckMove, Replace, TxRead,
         CheckUndo, UndoReplace, Unlink, Streamed, StreamFails, PersistFails, CleanupPaths
<1>3. QED
  BY <1>1, <1>2 DEF Next, vars, CleanupTemporary, Crash

\* After a step the bytes of every row are where its status allows.
LEMMA InPlaceStep ==
  ASSUME Serial, Undone, PInv, HInv', [Next]_vars
  PROVE  InPlace'
<1> SUFFICES ASSUME NEW w \in Workers, NEW i \in FileIds, files'[i] # NoRow
             PROVE  \E a \in AreaAllowed(files'[i].status) :
                      LiesIn(req'[w], store'[files'[i].path], files'[i].path, a)
  BY DEF InPlace
<1>1. CASE files'[i] = files[i]
  <2>1. PICK a \in AreaAllowed(files[i].status) :
           LiesIn(req[w], store[files[i].path], files[i].path, a)
    BY <1>1 DEF PInv, InPlace
  <2>2. LiesIn(req'[w], store'[files[i].path], files[i].path, a)
    BY <1>1, <2>1, RowsStay
  <2>3. QED
    BY <1>1, <2>1, <2>2
<1>2. CASE files'[i] # files[i]
  <2>1. Created(w, i) \/ Decided(w, i)
    BY <1>2, RowChanges DEF Deleted
  <2>2. CASE Created(w, i)
    BY <2>2 DEF Created, AreaAllowed
  <2>3. CASE Decided(w, i)
    <3> DEFINE p == files[i].path
               old == files[i].status
    <3>1. PICK s \in FILE_TRANSITIONS[old], a, b \in StorageArea :
             /\ files'[i] = [files[i] EXCEPT !.status = s]
             /\ LiesIn(req'[w], store'[p], p, b)
             /\ \/ s = "published" /\ b = "software"
                \/ s = "ready" /\ b = "quarantine"
                \/ a = b /\ a \in AreaAllowed(s)
      BY <2>3 DEF Decided
    <3>2. files'[i].status = s /\ files'[i].path = p
      BY <2>3, <3>1 DEF Decided, Row
    <3>3. b \in AreaAllowed(s)
      BY <3>1 DEF AreaAllowed
    <3>4. QED
      BY <3>1, <3>2, <3>3
  <2>4. QED
    BY <2>1, <2>2, <2>3
<1>3. QED
  BY <1>1, <1>2

\* After a step a request still knows where its file is.
LEMMA LocatedStep ==
  ASSUME Serial, Undone, PInv, HInv', [Next]_vars
  PROVE  Located'
<1> SUFFICES ASSUME NEW w \in Workers, AboutRow(req'[w]), req'[w].pc \notin {"idle", "locate"}
             PROVE  /\ AreaAccepted(req'[w].op, req'[w].area)
                    /\ LiesIn(req'[w], store'[req'[w].path], req'[w].path, req'[w].area)
  BY DEF Located
<1> DEFINE r == req[w]
<1>1. IInv /\ TypeOK
  BY DEF PInv, HInv, IInv
<1>2. CASE req' = req /\ UNCHANGED files
  <2>1. /\ AboutRow(r) /\ r.pc \notin {"idle", "locate"} /\ r.id \in FileIds
        /\ files[r.id] # NoRow /\ files[r.id].path = r.path
        /\ AreaAccepted(r.op, r.area) /\ LiesIn(r, store[r.path], r.path, r.area)
    BY <1>2, AboutFacts
  <2>2. LiesIn(req'[w], store'[r.path], r.path, r.area)
    BY <1>2, <2>1, RowsStay
  <2>3. QED
    BY <1>2, <2>1, <2>2
<1>3. ASSUME NEW v \in Workers, Arrive(v)
      PROVE  FALSE
  <2>1. v = w
    BY DEF Serial
  <2>2. \E n : Become(w, n) /\ (n.pc = "locate" \/ n.op = "upload")
    <3>1. CASE \E op \in Operation, k \in FileIds : Get(w, op, k)
      BY <3>1 DEF Get
    <3>2. CASE \E q \in Paths : UploadStart(w, q)
      BY <3>2 DEF UploadStart
    <3>3. QED
      BY <1>3, <2>1, <3>1, <3>2 DEF Arrive
  <2>3. QED
    BY <1>1, <2>2 DEF Become, TypeOK, AboutRow
<1>4. ASSUME NEW v \in Workers, WorkerStep(v)
      PROVE  /\ AreaAccepted(req'[w].op, req'[w].area)
             /\ LiesIn(req'[w], store'[req'[w].path], req'[w].path, req'[w].area)
  <2>1. v = w
    BY DEF Serial
  <2>2. SameFile(w) /\ r.pc # "unlink" /\ req'[w] # IdleReq
    BY <1>1, <1>4, <2>1, OwnPath DEF IdleReq
  <2>3. AboutRow(r)
    BY <2>2 DEF AboutRow, SameFile
  <2>4. UNCHANGED files
    <3>1. CASE TxWrite(w)
      <4>1. \/ Become(w, IdleReq) \/ UNCHANGED files
            \/ Become(w, [r EXCEPT !.pc = "unlink"])
        BY <3>1, WriteEffect, HeldOf DEF PInv
      <4>2. ~Become(w, IdleReq)
        BY <1>1, <2>2, IdleEffect
      <4>3. ~Become(w, [r EXCEPT !.pc = "unlink"])
        BY <1>1, PcEffect DEF Pc, AboutRow
      <4>4. QED
        BY <4>1, <4>2, <4>3
    <3>2. CASE ~TxWrite(w)
      <4>1. Shape(r) /\ r.op # "upload"
        BY <1>1, <2>3 DEF IInv, ReqShape, AboutRow
      <4>2. QED
        BY <1>4, <2>1, <3>2, <4>1 DEF WorkerStep, Shape, Locate, Refuse,
             CheckMove, Replace, TxRead, CheckUndo, UndoReplace, Unlink, Streamed, StreamFails,
             PersistFails, CleanupPaths, Persist
    <3>3. QED
      BY <3>1, <3>2
  <2>5. StaysPut(w)
    BY <1>4, <2>1, <2>3, <2>4, PutStep
  <2>6. /\ req'[w].path = r.path /\ req'[w].op = r.op
        /\ AreaAccepted(r.op, req'[w].area)
        /\ LiesIn(r, store[r.path], r.path, req'[w].area)
    BY <2>2, <2>3, <2>5, AboutFacts DEF StaysPut, SameFile
  <2>7. QED
    BY <2>5, <2>6 DEF StaysPut
<1>5. QED
  BY <1>2, <1>3, <1>4 DEF Next, Crash, Undone, CleanupTemporary, vars

\* In an empty system nothing is out of place.
LEMMA PlaceInit == Init => PInv
<1> SUFFICES ASSUME Init PROVE PInv
  OBVIOUS
<1>1. InPlace /\ Located
  BY DEF Init, InPlace, Located, IdleReq
<1>2. QED
  BY <1>1, HeldInit DEF PInv

\* With one request at a time, and faults that leave nothing moved, bytes stay in place.
LEMMA PlacesAlways == ASSUME Serial, Undone PROVE Spec => []PInv
<1>1. Init => PInv
  BY PlaceInit
<1>2. PInv /\ [Next]_vars => PInv'
  <2> SUFFICES ASSUME PInv, [Next]_vars PROVE PInv'
    OBVIOUS
  <2>1. HInv'
    BY HeldNext DEF PInv
  <2>2. QED
    BY <2>1, InPlaceStep, LocatedStep DEF PInv
<1>3. QED
  BY <1>1, <1>2, PTL DEF Spec

\* Requests served one after the other, whose renames succeed or leave the file where it
\* was, keep the bytes of every row that nobody works on in exactly one area, one that
\* _area_allowed expects: a failed transaction is compensated, and so on.
THEOREM BytesStayInPlace == ASSUME Serial, Undone PROVE Spec => []PlacementOK
<1>1. PInv => PlacementOK
  <2> SUFFICES ASSUME PInv, NEW i \in FileIds, files[i] # NoRow, Settled(files[i].path)
               PROVE  \E a \in AreaAllowed(files[i].status) : store[files[i].path] = {a}
    BY DEF PlacementOK
  <2>1. PICK w : w \in Workers
    BY DEF Serial
  <2>2. PICK a \in AreaAllowed(files[i].status) :
           LiesIn(req[w], store[files[i].path], files[i].path, a)
    BY <2>1 DEF PInv, InPlace
  <2>3. ~Doubt(req[w], files[i].path)
    BY <2>1 DEF Doubt, Settled
  <2>4. QED
    BY <2>2, <2>3 DEF LiesIn
<1>2. QED
  BY <1>1, PlacesAlways, PTL

-----------------------------------------------------------------------------
(* The refinement *)

\* LogicalArea for any requests R and stored files S.
AreaIn(R, S, p) ==
    IF \E w \in Workers : Doubt(R[w], p)
    THEN R[CHOOSE w \in Workers : Doubt(R[w], p)].area
    ELSE CHOOSE a \in Area : a \in S[p]

\* Where a file counts as being is its logical area.
LEMMA AreaInIs ==
  ASSUME Serial, NEW R, NEW S, NEW w \in Workers, NEW p, NEW a \in Area,
         LiesIn(R[w], S[p], p, a)
  PROVE  AreaIn(R, S, p) = a
<1>1. \A v \in Workers : v = w
  BY DEF Serial
<1>2. CASE Doubt(R[w], p)
  <2>1. (CHOOSE v \in Workers : Doubt(R[v], p)) \in Workers
    BY <1>2
  <2>2. AreaIn(R, S, p) = R[w].area
    BY <1>1, <1>2, <2>1 DEF AreaIn
  <2>3. QED
    BY <1>2, <2>2 DEF LiesIn
<1>3. CASE ~Doubt(R[w], p)
  <2>1. S[p] = {a} /\ ~\E v \in Workers : Doubt(R[v], p)
    BY <1>1, <1>3 DEF LiesIn
  <2>2. AreaIn(R, S, p) = CHOOSE b \in Area : b \in S[p]
    BY <2>1 DEF AreaIn
  <2>3. QED
    BY <2>1, <2>2
<1>4. QED
  BY <1>2, <1>3

\* What a row is to AtomicFiles, before a step and after it.
LEMMA LogicalIs ==
  ASSUME Serial, NEW w \in Workers, NEW i \in FileIds
  PROVE  /\ files[i] = NoRow => Logical[i] = Atomic!Gone
         /\ files'[i] = NoRow => Logical'[i] = Atomic!Gone
         /\ \A a \in StorageArea :
              /\ files[i] # NoRow /\ LiesIn(req[w], store[files[i].path], files[i].path, a)
                   => Logical[i] = [status |-> files[i].status, area |-> a]
              /\ files'[i] # NoRow /\ LiesIn(req'[w], store'[files'[i].path], files'[i].path, a)
                   => Logical'[i] = [status |-> files'[i].status, area |-> a]
<1>1. \A p : LogicalArea(p) = AreaIn(req, store, p)
  BY DEF LogicalArea, AreaIn, InDoubt, Doubt
<1>2. \A p : LogicalArea(p)' = AreaIn(req', store', p)
  BY DEF LogicalArea, AreaIn, InDoubt, Doubt
<1>3. /\ Logical[i] = IF files[i] = NoRow THEN [status |-> "none", area |-> "none"]
                      ELSE [status |-> files[i].status, area |-> AreaIn(req, store, files[i].path)]
      /\ Logical'[i] = IF files'[i] = NoRow THEN [status |-> "none", area |-> "none"]
                       ELSE [status |-> files'[i].status, area |-> AreaIn(req', store', files'[i].path)]
  BY <1>1, <1>2 DEF Logical
<1>4. StorageArea \subseteq Area
  BY DEF Area
<1>5. \A a \in StorageArea :
        /\ LiesIn(req[w], store[files[i].path], files[i].path, a)
             => AreaIn(req, store, files[i].path) = a
        /\ LiesIn(req'[w], store'[files'[i].path], files'[i].path, a)
             => AreaIn(req', store', files'[i].path) = a
  BY <1>4, AreaInIs
<1>6. QED
  BY <1>3, <1>5 DEF Atomic!Gone

\* Rows that a step leaves as they are look the same to AtomicFiles.
LEMMA LogicalStays ==
  ASSUME Serial, Undone, PInv, [Next]_vars, NEW w \in Workers, NEW i \in FileIds,
         files'[i] = files[i]
  PROVE  Logical'[i] = Logical[i]
<1>1. CASE files[i] = NoRow
  BY <1>1, LogicalIs
<1>2. CASE files[i] # NoRow
  <2>1. PICK a \in AreaAllowed(files[i].status) :
           LiesIn(req[w], store[files[i].path], files[i].path, a)
    BY <1>2 DEF PInv, InPlace
  <2>2. a \in StorageArea
    <3>1. files[i].status \in FileStatus
      BY <1>2 DEF PInv, HInv, IInv, TypeOK, Row
    <3>2. QED
      BY <3>1, AllowedAreas
  <2>3. LiesIn(req'[w], store'[files[i].path], files[i].path, a)
    BY <1>2, <2>1, RowsStay
  <2>4. files'[i] # NoRow /\ LiesIn(req'[w], store'[files'[i].path], files'[i].path, a)
    BY <1>2, <2>3
  <2>5. Logical[i] = [status |-> files[i].status, area |-> a]
    BY <1>2, <2>1, <2>2, LogicalIs
  <2>6. Logical'[i] = [status |-> files'[i].status, area |-> a]
    BY <2>2, <2>4, LogicalIs
  <2>7. QED
    BY <2>5, <2>6
<1>3. QED
  BY <1>1, <1>2

\* One row has changed and AtomicFiles sees one step of that row.
LEMMA LogicalStep ==
  ASSUME Serial, PInv, NEW w \in Workers, NEW i \in FileIds,
         Created(w, i) \/ Deleted(i) \/ Decided(w, i),
         \A j \in FileIds \ {i} : Logical'[j] = Logical[j]
  PROVE  Atomic!ANext
<1>1. /\ i \in 1..MaxFile
      /\ \A v : Logical'[i] = v => Logical' = [Logical EXCEPT ![i] = v]
  BY DEF Logical, FileIds
<1>2. \A row \in Row : row # NoRow /\ row.status \in FileStatus
  BY FileAssumption DEF Row, NoRow
<1>3. CASE Created(w, i)
  <2>1. /\ files[i] = NoRow /\ files'[i] # NoRow
        /\ files'[i].status \in {"quarantine", "ready", "rejected"}
        /\ LiesIn(req'[w], store'[files'[i].path], files'[i].path, "quarantine")
    BY <1>2, <1>3 DEF Created
  <2>2. "quarantine" \in StorageArea
    BY DEF StorageArea
  <2>3. /\ Logical[i] = Atomic!Gone
        /\ Logical'[i] = [status |-> files'[i].status, area |-> "quarantine"]
    BY <2>1, <2>2, LogicalIs
  <2>4. Atomic!Create(i, files'[i].status)
    BY <1>1, <2>1, <2>3 DEF Atomic!Create
  <2>5. files'[i].status \in Atomic!FileStatus
    BY <2>1 DEF Atomic!FileStatus
  <2>6. QED
    BY <1>1, <2>4, <2>5 DEF Atomic!ANext
<1>4. CASE Deleted(i)
  <2>1. files[i] # NoRow /\ files[i].status # "published" /\ files'[i] = NoRow
    BY <1>2, <1>4 DEF Deleted, EnsureDeletable
  <2>2. PICK a \in StorageArea : LiesIn(req[w], store[files[i].path], files[i].path, a)
    <3>1. files[i].status \in FileStatus
      BY <1>2, <1>4 DEF Deleted
    <3>2. QED
      BY <2>1, <3>1, AllowedAreas DEF PInv, InPlace
  <2>3. /\ Logical[i] = [status |-> files[i].status, area |-> a]
        /\ Logical'[i] = Atomic!Gone
    BY <2>1, <2>2, LogicalIs
  <2>4. Logical[i] # Atomic!Gone
    BY <2>2, <2>3 DEF Atomic!Gone, StorageArea
  <2>5. Atomic!Remove(i)
    BY <1>1, <2>1, <2>3, <2>4 DEF Atomic!Remove, Atomic!EnsureDeletable
  <2>6. QED
    BY <1>1, <2>5 DEF Atomic!ANext
<1>5. CASE Decided(w, i)
  <2> DEFINE p == files[i].path
             old == files[i].status
  <2>1. PICK s \in FILE_TRANSITIONS[old], a \in StorageArea, b \in StorageArea :
           /\ files'[i] = [files[i] EXCEPT !.status = s]
           /\ LiesIn(req[w], store[p], p, a)
           /\ LiesIn(req'[w], store'[p], p, b)
           /\ \/ /\ s = "published" /\ old = "ready"
                 /\ a = "quarantine" /\ b = "software"
              \/ /\ s = "ready" /\ old \in {"disabled", "archived"}
                 /\ b = "quarantine"
              \/ /\ s # "published" /\ a = b /\ a \in AreaAllowed(s)
    BY <1>5 DEF Decided
  <2>2. /\ files[i] \in Row /\ files[i] # NoRow /\ old \in FileStatus
        /\ files'[i].status = s /\ files'[i].path = p
    BY <1>2, <1>5, <2>1 DEF Decided, Row
  <2>3. files'[i] # NoRow
    BY <2>2, FileAssumption DEF NoRow, Row
  <2>4. /\ Logical[i] = [status |-> old, area |-> a]
        /\ Logical'[i] = [status |-> s, area |-> b]
    <3>0. files[i] # NoRow /\ LiesIn(req[w], store[files[i].path], files[i].path, a)
      BY <2>1, <2>2
    <3>1. Logical[i] = [status |-> old, area |-> a]
      BY <3>0, LogicalIs
    <3>2. LiesIn(req'[w], store'[files'[i].path], files'[i].path, b)
      BY <2>1, <2>2
    <3>3. Logical'[i] = [status |-> files'[i].status, area |-> b]
      BY <2>1, <2>3, <3>2, LogicalIs
    <3>4. QED
      BY <2>2, <3>1, <3>3
  <2>5. Logical[i] # Atomic!Gone /\ Logical[i].status = old /\ Logical[i].area = a
    BY <2>1, <2>4 DEF Atomic!Gone, StorageArea
  <2>6. CASE s = "published" /\ old = "ready" /\ a = "quarantine" /\ b = "software"
    <3>1. Atomic!Publish(i)
      BY <1>1, <2>4, <2>6 DEF Atomic!Publish
    <3>2. QED
      BY <1>1, <3>1 DEF Atomic!ANext
  <2>7. CASE s = "ready" /\ old \in {"disabled", "archived"} /\ b = "quarantine"
    <3>1. Atomic!Restore(i)
      BY <1>1, <2>4, <2>5, <2>7 DEF Atomic!Restore
    <3>2. QED
      BY <1>1, <3>1 DEF Atomic!ANext
  <2>8. CASE s # "published" /\ a = b /\ a \in AreaAllowed(s)
    <3>1. Logical' = [Logical EXCEPT ![i] = [status |-> s, area |-> a]]
      BY <1>1, <2>4, <2>8
    <3>2. [status |-> s, area |-> a] = [Logical[i] EXCEPT !.status = s]
      BY <2>4
    <3>3. s \in Atomic!FILE_TRANSITIONS[old] /\ a \in Atomic!AreaAllowed(s)
      BY <2>1, <2>8 DEF FILE_TRANSITIONS, Atomic!FILE_TRANSITIONS, AreaAllowed,
         Atomic!AreaAllowed, FileStatus, Atomic!FileStatus, StorageArea, Atomic!StorageArea
    <3>4. Atomic!Decide(i, s)
      BY <1>1, <2>5, <2>8, <3>1, <3>2, <3>3 DEF Atomic!Decide
    <3>5. s \in Atomic!FileStatus
      BY <2>1, <2>2 DEF FILE_TRANSITIONS, FileStatus, Atomic!FileStatus
    <3>6. QED
      BY <1>1, <3>4, <3>5 DEF Atomic!ANext
  <2>9. QED
    BY <2>1, <2>6, <2>7, <2>8
<1>6. QED
  BY <1>3, <1>4, <1>5

\* Every step is a step of AtomicFiles or changes nothing that AtomicFiles sees.
LEMMA AtomicNext ==
  ASSUME Serial, Undone, PInv, [Next]_vars
  PROVE  [Atomic!ANext]_Logical
<1>1. PICK w : w \in Workers
  BY DEF Serial
<1>2. CASE UNCHANGED files
  <2>1. \A i \in FileIds : Logical'[i] = Logical[i]
    BY <1>1, <1>2, LogicalStays
  <2>2. Logical' = Logical
    BY <2>1 DEF Logical
  <2>3. QED
    BY <2>2
<1>3. ASSUME NEW i \in FileIds, Created(w, i) \/ Deleted(i) \/ Decided(w, i),
             \A j \in FileIds \ {i} : files'[j] = files[j]
      PROVE  Atomic!ANext
  <2>1. \A j \in FileIds \ {i} : Logical'[j] = Logical[j]
    BY <1>1, <1>3, LogicalStays
  <2>2. QED
    BY <1>1, <1>3, <2>1, LogicalStep
<1>4. QED
  BY <1>1, <1>2, <1>3, RowChanges

\* An empty table is the initial state of AtomicFiles.
LEMMA AtomicInit == Init => Atomic!AInit
  BY DEF Init, Logical, Atomic!AInit, Atomic!Gone, FileIds

\* Served one after the other, with failures that are undone, requests behave as if bytes
\* and row changed together in one step.
THEOREM SerialIsAtomic == ASSUME Serial, Undone PROVE Spec => Atomic!ASpec
<1>1. Init => Atomic!AInit
  BY AtomicInit
<1>2. PInv /\ [Next]_vars => [Atomic!ANext]_Logical
  BY AtomicNext
<1>3. QED
  BY <1>1, <1>2, PlacesAlways, PTL DEF Spec, Atomic!ASpec

-----------------------------------------------------------------------------
(* Beside a companion *)

\* Requests on their own are requests of FileLifecycle, and in place.
AloneInPlace == companion = "none" => PInv

\* The property that the runs check of the composition, for every set of companions:
\* alone, the requests implement AtomicFiles.
THEOREM AloneIsAtomic ==
  ASSUME Serial, Undone
  PROVE  BesideSpec => ImplementsAtomicFiles
<1>1. BesideInit => Atomic!AInit /\ AloneInPlace
  BY AtomicInit, PlaceInit DEF BesideInit, CInit, AloneInPlace
<1>2. AloneInPlace /\ [BesideNext]_besideVars => AloneInPlace'
  <2> SUFFICES ASSUME AloneInPlace, [BesideNext]_besideVars, companion' = "none"
               PROVE  PInv'
    BY DEF AloneInPlace
  <2>1. companion = "none" /\ [Next]_vars
    BY DEF BesideNext, RequestsAlone, BesideCleanup, BesideBackup, BesideDownload,
       BesideRepair, BesideVerification, besideVars
  <2>2. PInv /\ HInv'
    BY <2>1, HeldNext DEF AloneInPlace, PInv
  <2>3. QED
    BY <2>1, <2>2, InPlaceStep, LocatedStep DEF PInv
<1>3. AloneInPlace /\ [BesideNext]_besideVars
        => [companion = "none" => Atomic!ANext]_<<Logical, companion>>
  <2> SUFFICES ASSUME AloneInPlace, [BesideNext]_besideVars
               PROVE  [companion = "none" => Atomic!ANext]_<<Logical, companion>>
    OBVIOUS
  <2>1. UNCHANGED companion
    BY DEF BesideNext, besideVars
  <2>2. CASE companion = "none"
    <3>1. [Next]_vars
      BY <2>2 DEF BesideNext, RequestsAlone, BesideCleanup, BesideBackup, BesideDownload,
         BesideRepair, BesideVerification, besideVars
    <3>2. [Atomic!ANext]_Logical
      BY <2>2, <3>1, AtomicNext DEF AloneInPlace
    <3>3. QED
      BY <2>1, <3>2
  <2>3. QED
    BY <2>2
<1>4. QED
  BY <1>1, <1>2, <1>3, PTL DEF BesideSpec, ImplementsAtomicFiles

\* The companions that only look at what requests change.
Onlookers == {"none", "backup", "download", "repair"}

\* What the requests do beside the repair they do alone.
LEMMA RequestsBesideRepair ==
  ASSUME RNext
  PROVE  [Next]_vars
<1>1. \/ UNCHANGED vars
      \/ \E w \in Workers : GetRow(w) \/ StreamUpload(w) \/ LocateFile(w)
                              \/ DiskStep(w) \/ WriteRow(w)
      \/ \E p \in Paths : CleanupTemporary(p)
      \/ Crash
  BY DEF RNext, Rewrite, StopAll
<1>2. ASSUME NEW w \in Workers, GetRow(w) \/ StreamUpload(w)
      PROVE  Next
  BY <1>2 DEF GetRow, StreamUpload, Next, Arrive
<1>3. ASSUME NEW w \in Workers, LocateFile(w) \/ DiskStep(w) \/ WriteRow(w)
      PROVE  Next
  <2>1. WorkerStep(w)
    BY <1>3 DEF LocateFile, DiskStep, WriteRow, WorkerStep
  <2>2. QED
    BY <2>1 DEF Next
<1>4. QED
  BY <1>1, <1>2, <1>3 DEF Next

\* A step beside an onlooker is a step of the requests, or none of theirs.
LEMMA OnlookerStep ==
  ASSUME companion \in Onlookers, [BesideNext]_besideVars
  PROVE  [Next]_vars
<1>1. CASE BesideBackup
  BY <1>1 DEF BesideBackup, BNext, BackupStep, Begin, BackupSqlite, ListArea, CopyFile,
     StorageCopied, Finish
<1>2. CASE BesideDownload
  BY <1>2 DEF BesideDownload, DNext, Administration, ChainChanges, Midnight, Authorize,
     LocateDownload, RecordAuthorizedStart, RecordBlocked, NginxServes
<1>3. CASE BesideRepair
  BY <1>3, RequestsBesideRepair DEF BesideRepair
<1>4. CASE RequestsAlone \/ UNCHANGED besideVars
  BY <1>4 DEF RequestsAlone, besideVars
<1>5. QED
  BY <1>1, <1>2, <1>3, <1>4 DEF BesideNext, BesideCleanup, BesideVerification, Onlookers

\* A backup, a download or a checksum repair changes nothing that the file service reads:
\* whatever holds of the requests alone holds beside it.
THEOREM OnlookersDisturbNothing ==
  ASSUME Companions \subseteq Onlookers
  PROVE  BesideSpec => Spec
<1>1. BesideInit => Init /\ companion \in Onlookers
  BY DEF BesideInit, CInit
<1>2. companion \in Onlookers /\ [BesideNext]_besideVars => (companion \in Onlookers)'
  BY DEF BesideNext, besideVars
<1>3. companion \in Onlookers /\ [BesideNext]_besideVars => [Next]_vars
  BY OnlookerStep
<1>4. QED
  BY <1>1, <1>2, <1>3, PTL DEF BesideSpec, Spec

\* A row keeps its path and what the upload found out about its file; only an upload
\* makes a new one, of a path of its own and not yet published.
LEMMA RowIdentity ==
  ASSUME IInv, [Next]_vars, NEW i \in FileIds
  PROVE  \/ files'[i] = NoRow
         \/ /\ files[i] # NoRow /\ files'[i].path = files[i].path
            /\ files'[i].match = files[i].match /\ files'[i].scanner = files[i].scanner
         \/ /\ files[i] = NoRow /\ files'[i].status # "published"
            /\ \E w \in Workers : req[w].op = "upload" /\ files'[i].path = req[w].path
<1>1. TypeOK /\ (files[i] = NoRow \/ files[i] \in Row)
  BY DEF IInv, TypeOK
<1>2. CASE UNCHANGED files
  BY <1>1, <1>2
<1>3. ASSUME NEW w \in Workers, TxWrite(w)
      PROVE  \/ files'[i] = NoRow
             \/ /\ files[i] # NoRow /\ files'[i].path = files[i].path
                /\ files'[i].match = files[i].match /\ files'[i].scanner = files[i].scanner
  <2> DEFINE r == req[w]
             new == [files[r.id] EXCEPT !.status = Target(r.op)]
  <2>1. \/ UNCHANGED files
        \/ files' = [files EXCEPT ![r.id] = NoRow]
        \/ files[r.id] # NoRow /\ files' = [files EXCEPT ![r.id] = new]
    BY <1>3 DEF TxWrite
  <2>2. CASE UNCHANGED files
    BY <2>2
  <2>3. CASE files' = [files EXCEPT ![r.id] = NoRow]
    BY <1>1, <2>3 DEF TypeOK
  <2>4. CASE files[r.id] # NoRow /\ files' = [files EXCEPT ![r.id] = new]
    <3>1. CASE i = r.id
      <4>1. files[i] \in Row /\ files'[i] = new
        BY <1>1, <2>4, <3>1 DEF TypeOK
      <4>2. /\ new.path = files[i].path /\ new.match = files[i].match
            /\ new.scanner = files[i].scanner
        BY <3>1, <4>1 DEF Row
      <4> HIDE DEF new
      <4>3. QED
        BY <2>4, <3>1, <4>1, <4>2
    <3>2. CASE i # r.id
      BY <1>1, <2>4, <3>2 DEF TypeOK
    <3>3. QED
      BY <3>1, <3>2
  <2>5. QED
    BY <2>1, <2>2, <2>3, <2>4
<1>4. ASSUME NEW w \in Workers, NEW k \in FileIds, NEW scan \in ScanResults, Persist(w, k, scan),
             files'[i] # files[i]
      PROVE  /\ files[i] = NoRow /\ files'[i].status # "published"
             /\ req[w].op = "upload" /\ files'[i].path = req[w].path
  <2> DEFINE new == [path |-> req[w].path, status |-> InitialStatus(scan),
                     scanner |-> scan.scanner, match |-> scan.match]
  <2>1. files' = [files EXCEPT ![k] = new] /\ files[k] = NoRow /\ req[w].pc = "scan"
    BY <1>4 DEF Persist, IsNextId
  <2>2. req[w].op = "upload"
    BY <2>1 DEF IInv, ReqShape, Shape
  <2>3. new.path = req[w].path /\ new.status # "published"
    BY DEF InitialStatus
  <2> HIDE DEF new
  <2>4. QED
    BY <1>1, <1>4, <2>1, <2>2, <2>3 DEF TypeOK
<1>5. ASSUME NEW w \in Workers, NEW k \in FileIds, NEW scan \in ScanResults, Persist(w, k, scan)
      PROVE  \/ files'[i] = files[i]
             \/ /\ files[i] = NoRow /\ files'[i].status # "published"
                /\ req[w].op = "upload" /\ files'[i].path = req[w].path
  BY <1>4, <1>5
<1>6. ASSUME NEW w \in Workers, WorkerStep(w)
      PROVE  \/ UNCHANGED files
             \/ TxWrite(w)
             \/ \E k \in FileIds, scan \in ScanResults : Persist(w, k, scan)
  BY <1>6 DEF WorkerStep, Locate, Refuse, CheckMove, Replace, TxRead,
     CheckUndo, UndoReplace, Unlink, Streamed, StreamFails, PersistFails, CleanupPaths
<1>7. CASE UNCHANGED files \/ \E w \in Workers : WorkerStep(w)
  BY <1>2, <1>3, <1>5, <1>6, <1>7
<1>8. QED
  BY <1>7 DEF Next, Arrive, Get, UploadStart, CleanupTemporary, Crash, vars

-----------------------------------------------------------------------------
(* What publications and deletions rely on *)

USE FileAssumption

\* A request that is about to write has just found its row acceptable, or was about to
\* write before.
LEMMA CheckedBeforeWrite ==
  ASSUME IInv, [Next]_vars, NEW w \in Workers, req'[w].pc = "write"
  PROVE  \/ req'[w] = req[w]
         \/ /\ UNCHANGED files /\ SameFile(w)
            /\ \E live \in BOOLEAN : Accepts(req[w], files[req[w].id], live)
<1>1. TypeOK
  BY DEF IInv
<1>2. CASE UNCHANGED req
  BY <1>2
<1>3. ASSUME NEW v \in Workers, Arrive(v)
      PROVE  req'[w] = req[w]
  <2>1. ASSUME NEW op \in Operation, NEW k \in FileIds, Get(v, op, k)
        PROVE  Serves(v) /\ req'[v].pc = "locate"
    <3> DEFINE n == [pc |-> "locate", op |-> op, id |-> k, path |-> files[k].path,
                     area |-> "none", change |-> FALSE]
    <3>1. files[k].path \in Paths
      BY <1>1, <2>1 DEF Get, TypeOK, Row
    <3>2. n \in Request
      BY <3>1 DEF Request, Pc
    <3>3. Serves(v) /\ req'[v] = n
      BY <1>1, <2>1, <3>2, BecomeEffect DEF Get
    <3>4. QED
      BY <3>3
  <2>2. ASSUME NEW q \in Paths, UploadStart(v, q)
        PROVE  Serves(v) /\ req'[v].pc = "stream"
    <3> DEFINE n == [pc |-> "stream", op |-> "upload", id |-> 0, path |-> q,
                     area |-> "temporary", change |-> FALSE]
    <3>1. n \in Request
      BY DEF Request, Pc, Operation, Area
    <3>2. Serves(v) /\ req'[v] = n
      BY <1>1, <2>2, <3>1, BecomeEffect DEF UploadStart
    <3>3. QED
      BY <3>2
  <2>3. Serves(v) /\ req'[v].pc # "write"
    BY <1>3, <2>1, <2>2 DEF Arrive
  <2>4. QED
    BY <2>3 DEF Serves
<1>4. ASSUME WorkerStep(w)
      PROVE  /\ UNCHANGED files /\ SameFile(w)
             /\ \E live \in BOOLEAN : Accepts(req[w], files[req[w].id], live)
  <2>1. ~Become(w, IdleReq)
    <3>1. Become(w, IdleReq) => req'[w] = IdleReq
      BY <1>1, IdleEffect
    <3>2. QED
      BY <3>1 DEF IdleReq
  <2>2. \A q \in Pc \ {"write"} : ~Become(w, [req[w] EXCEPT !.pc = q])
    BY <1>1, PcEffect
  <2>3. \A q \in Pc \ {"write"}, a \in Area : ~Become(w, [req[w] EXCEPT !.area = a, !.pc = q])
    BY <1>1, AreaEffect
  <2>4. ~Become(w, TxFailed(req[w]))
    BY <2>1, <2>2 DEF TxFailed, Pc
  <2>5. ~Locate(w) /\ ~Refuse(w)
    <3>1. ASSUME NEW a \in StorageArea,
                 Become(w, [req[w] EXCEPT !.area = a,
                             !.pc = IF Moves(req[w].op, a) THEN "move" ELSE "read"])
          PROVE  FALSE
      <4> DEFINE q == IF Moves(req[w].op, a) THEN "move" ELSE "read"
      <4>1. q \in Pc \ {"write"} /\ a \in Area
        BY DEF Pc, Area
      <4>2. Become(w, [req[w] EXCEPT !.area = a, !.pc = q])
        BY <3>1
      <4> HIDE DEF q
      <4>3. QED
        BY <2>3, <4>1, <4>2
    <3>2. ~Become(w, [req[w] EXCEPT !.pc = "read"])
      BY <2>2 DEF Pc
    <3>3. QED
      BY <2>1, <3>1, <3>2 DEF Locate, Refuse
  <2>6. ~CheckMove(w) /\ ~Replace(w)
    <3>1. ~Become(w, MoveFailed(req[w])) /\ \A q \in {"replace", "read"} :
            ~Become(w, [req[w] EXCEPT !.pc = q])
      BY <2>1, <2>2 DEF MoveFailed, Pc
    <3>2. ~Become(w, [req[w] EXCEPT !.pc = "scan", !.area = "quarantine"])
      <4>1. req[w] \in Request
        BY <1>1 DEF TypeOK
      <4>2. [req[w] EXCEPT !.pc = "scan", !.area = "quarantine"]
              = [req[w] EXCEPT !.area = "quarantine", !.pc = "scan"]
        BY <4>1 DEF Request
      <4>3. QED
        BY <2>3, <4>2 DEF Pc, Area, StorageArea
    <3>3. QED
      BY <3>1, <3>2 DEF CheckMove, Replace
  <2>7. ~TxWrite(w)
    <3>1. ~Become(w, [req[w] EXCEPT !.pc = "unlink"])
      BY <2>2 DEF Pc
    <3>2. QED
      BY <2>1, <2>4, <3>1 DEF TxWrite
  <2>8. ~CheckUndo(w) /\ ~UndoReplace(w) /\ ~Unlink(w)
    BY <2>1, <2>2 DEF CheckUndo, UndoReplace, Unlink, Pc
  <2>9. ~Streamed(w) /\ ~StreamFails(w) /\ ~PersistFails(w) /\ ~CleanupPaths(w)
    BY <2>1, <2>2 DEF Streamed, StreamFails, PersistFails, CleanupPaths, Pc
  <2>10. ~\E i \in FileIds, scan \in ScanResults : Persist(w, i, scan)
    BY <2>1 DEF Persist
  <2>11. TxRead(w)
    BY <1>4, <2>5, <2>6, <2>7, <2>8, <2>9, <2>10 DEF WorkerStep
  <2>12. SameFile(w)
    <3>1. req'[w] # IdleReq
      BY DEF IdleReq
    <3>2. QED
      BY <1>4, <3>1, OwnPath
  <2>13. QED
    BY <2>4, <2>11, <2>12 DEF TxRead
<1>5. ASSUME NEW v \in Workers, WorkerStep(v), v # w
      PROVE  req'[w] = req[w]
  BY <1>5, OwnPath DEF Serves
<1>6. ASSUME NEW v \in Workers, WorkerStep(v)
      PROVE  \/ req'[w] = req[w]
             \/ /\ UNCHANGED files /\ SameFile(w)
                /\ \E live \in BOOLEAN : Accepts(req[w], files[req[w].id], live)
  <2>1. CASE v = w
    BY <1>4, <1>6, <2>1
  <2>2. CASE v # w
    BY <1>5, <1>6, <2>2
  <2>3. QED
    BY <2>1, <2>2
<1>7. CASE \E x \in Paths : CleanupTemporary(x)
  BY <1>2, <1>7 DEF CleanupTemporary
<1>8. CASE Crash
  <2>1. req' = [v \in Workers |-> IdleReq]
    BY <1>8 DEF Crash
  <2>2. QED
    BY <2>1 DEF IdleReq
<1>9. QED
  BY <1>2, <1>3, <1>6, <1>7, <1>8 DEF Next, vars

\* Only the write of a publication makes a row published.
LEMMA PublishedByWrite ==
  ASSUME IInv, [Next]_vars, NEW i \in FileIds,
         files'[i].status = "published", files[i].status # "published"
  PROVE  \E w \in Workers : req[w].pc = "write" /\ req[w].op = "publish" /\ req[w].id = i
<1>1. TypeOK
  BY DEF IInv
<1>2. ~UNCHANGED files
  OBVIOUS
<1>3. ASSUME NEW w \in Workers, TxWrite(w)
      PROVE  req[w].pc = "write" /\ req[w].op = "publish" /\ req[w].id = i
  <2> DEFINE r == req[w]
             new == [files[r.id] EXCEPT !.status = Target(r.op)]
  <2>1. /\ r.pc = "write"
        /\ \/ files' = [files EXCEPT ![r.id] = NoRow]
           \/ r.change /\ files[r.id] # NoRow /\ files' = [files EXCEPT ![r.id] = new]
    BY <1>2, <1>3 DEF TxWrite
  <2>2. i = r.id
    BY <1>1, <2>1 DEF TypeOK
  <2>3. files' # [files EXCEPT ![r.id] = NoRow]
    BY <1>1, <2>2 DEF TypeOK, NoRow
  <2>4. files'[i] = new /\ files[i] \in Row
    BY <1>1, <2>1, <2>2, <2>3 DEF TypeOK
  <2>5. Target(r.op) = "published"
    <3>1. new.status = Target(r.op)
      BY <2>2, <2>4 DEF Row
    <3> HIDE DEF new
    <3>2. QED
      BY <2>4, <3>1
  <2>6. r.op \in StatusOps
    BY <2>1, <2>3 DEF IInv, ReqShape, Shape
  <2>7. r.op = "publish"
    BY <2>5, <2>6 DEF Target, StatusOps
  <2>8. QED
    BY <2>1, <2>2, <2>7
<1>4. ASSUME NEW w \in Workers, NEW k \in FileIds, NEW scan \in ScanResults, Persist(w, k, scan)
      PROVE  FALSE
  <2> DEFINE new == [path |-> req[w].path, status |-> InitialStatus(scan),
                     scanner |-> scan.scanner, match |-> scan.match]
  <2>1. files' = [files EXCEPT ![k] = new]
    BY <1>4 DEF Persist
  <2>2. new.status # "published"
    BY DEF InitialStatus
  <2> HIDE DEF new
  <2>3. QED
    BY <1>1, <2>1, <2>2 DEF TypeOK
<1>5. ASSUME NEW w \in Workers, WorkerStep(w)
      PROVE  TxWrite(w)
  BY <1>2, <1>4, <1>5 DEF WorkerStep, Locate, Refuse, CheckMove, Replace, TxRead,
     CheckUndo, UndoReplace, Unlink, Streamed, StreamFails, PersistFails, CleanupPaths
<1>6. QED
  BY <1>2, <1>3, <1>5 DEF Next, Arrive, Get, UploadStart, CleanupTemporary, Crash, vars

\* A new row never gets the id of a row that some request still works on.
FreshIds ==
    \A i \in FileIds : files[i] = NoRow /\ files'[i] # NoRow => \A w \in Workers : req[w].id # i

\* SELECT ... FOR UPDATE, as the code asks for it: between its check and its commit a
\* transaction has the row for itself.
RowLocked ==
    \A v, w \in Workers :
        req[v].pc = "write" /\ req[w].pc = "write" /\ req[v].id = req[w].id => v = w

\* The row that a publication is about to write, if it is still there, passed the checks.
PublishesApproved ==
    \A w \in Workers : req[w].pc = "write" /\ req[w].op = "publish" =>
        \/ files[req[w].id] = NoRow
        \/ /\ files[req[w].id].match
           /\ files[req[w].id].scanner \in {"clean", "unavailable"}

\* The row that a deletion is about to remove is not published.
DeletesUnpublished ==
    \A w \in Workers : req[w].pc = "write" /\ req[w].op \in DeleteOps =>
        files[req[w].id].status # "published"

LEMMA PublishesApprovedStep ==
  ASSUME IInv, PublishesApproved, [Next]_vars, [FreshIds]_vars
  PROVE  PublishesApproved'
<1> SUFFICES ASSUME NEW w \in Workers, req'[w].pc = "write", req'[w].op = "publish"
             PROVE  \/ files'[req'[w].id] = NoRow
                    \/ /\ files'[req'[w].id].match
                       /\ files'[req'[w].id].scanner \in {"clean", "unavailable"}
  BY DEF PublishesApproved
<1>1. CASE req'[w] = req[w]
  <2> DEFINE i == req[w].id
  <2>1. i \in FileIds
    BY <1>1 DEF IInv, ReqShape, Shape
  <2>2. files[i] # NoRow
          => files[i].match /\ files[i].scanner \in {"clean", "unavailable"}
    BY <1>1 DEF PublishesApproved
  <2>3. files[i] = NoRow => files'[i] = NoRow
    BY <2>1 DEF FreshIds, vars
  <2>4. \/ files'[i] = NoRow
        \/ /\ files[i] # NoRow
           /\ files'[i].match = files[i].match /\ files'[i].scanner = files[i].scanner
    BY <2>1, <2>3, RowIdentity
  <2>5. QED
    BY <1>1, <2>2, <2>4
<1>2. ASSUME UNCHANGED files, SameFile(w), NEW live \in BOOLEAN,
             Accepts(req[w], files[req[w].id], live)
      PROVE  files'[req'[w].id].match /\ files'[req'[w].id].scanner \in {"clean", "unavailable"}
  BY <1>2 DEF SameFile, Accepts, EnsurePublishReady
<1>3. QED
  BY <1>1, <1>2, CheckedBeforeWrite

LEMMA PublishedApprovedStep ==
  ASSUME IInv, PublishesApproved, PublishedApproved, [Next]_vars
  PROVE  PublishedApproved'
<1> SUFFICES ASSUME NEW i \in FileIds, files'[i].status = "published"
             PROVE  files'[i].match /\ files'[i].scanner \in {"clean", "unavailable"}
  BY DEF PublishedApproved
<1>1. files'[i] # NoRow
  BY DEF NoRow
<1>2. /\ files[i] # NoRow /\ files'[i].match = files[i].match
      /\ files'[i].scanner = files[i].scanner
  BY <1>1, RowIdentity
<1>3. files[i].match /\ files[i].scanner \in {"clean", "unavailable"}
  <2>1. CASE files[i].status = "published"
    BY <2>1 DEF PublishedApproved
  <2>2. CASE files[i].status # "published"
    BY <1>2, <2>2, PublishedByWrite DEF PublishesApproved
  <2>3. QED
    BY <2>1, <2>2
<1>4. QED
  BY <1>2, <1>3

\* However many requests overlap, with every fault and crash, a published file passed
\* _ensure_publish_ready's checks of its signature and scan: provided no row id that a
\* request works on is given out again.
THEOREM PublishedAreApproved == Spec /\ [][FreshIds]_vars => []PublishedApproved
<1> DEFINE Inv == IInv /\ PublishesApproved /\ PublishedApproved
<1>1. Init => Inv
  <2>1. Init => PublishesApproved /\ PublishedApproved
    BY DEF Init, PublishesApproved, PublishedApproved, IdleReq, NoRow
  <2>2. QED
    BY <2>1, InitIInv
<1>2. Inv /\ [Next]_vars /\ [FreshIds]_vars => Inv'
  BY NextIInv, PublishesApprovedStep, PublishedApprovedStep
<1>3. QED
  BY <1>1, <1>2, PTL DEF Spec

LEMMA DeletesUnpublishedStep ==
  ASSUME IInv, DeletesUnpublished, RowLocked, [Next]_vars
  PROVE  DeletesUnpublished'
<1> SUFFICES ASSUME NEW w \in Workers, req'[w].pc = "write", req'[w].op \in DeleteOps
             PROVE  files'[req'[w].id].status # "published"
  BY DEF DeletesUnpublished
<1>1. CASE req'[w] = req[w]
  <2> DEFINE i == req[w].id
  <2>1. i \in FileIds
    BY <1>1 DEF IInv, ReqShape, Shape, DeleteOps
  <2>2. files[i].status # "published"
    BY <1>1 DEF DeletesUnpublished
  <2>3. ASSUME files'[i].status = "published"
        PROVE  FALSE
    <3>1. PICK v \in Workers : req[v].pc = "write" /\ req[v].op = "publish" /\ req[v].id = i
      BY <2>1, <2>2, <2>3, PublishedByWrite
    <3>2. v = w
      BY <1>1, <3>1 DEF RowLocked
    <3>3. QED
      BY <1>1, <3>1, <3>2 DEF DeleteOps
  <2>4. QED
    BY <1>1, <2>3
<1>2. ASSUME UNCHANGED files, SameFile(w), NEW live \in BOOLEAN,
             Accepts(req[w], files[req[w].id], live)
      PROVE  files'[req'[w].id].status # "published"
  BY <1>2 DEF SameFile, Accepts, EnsureDeletable
<1>3. QED
  BY <1>1, <1>2, CheckedBeforeWrite

LEMMA PublishedStep ==
  ASSUME IInv, DeletesUnpublished, [Next]_vars, NEW i \in FileIds, files[i].status = "published"
  PROVE  files'[i] # NoRow
<1>1. TypeOK /\ files[i] # NoRow
  BY DEF IInv, NoRow
<1>2. CASE UNCHANGED files
  BY <1>1, <1>2
<1>3. ASSUME NEW w \in Workers, TxWrite(w)
      PROVE  files'[i] # NoRow
  <2> DEFINE r == req[w]
             new == [files[r.id] EXCEPT !.status = Target(r.op)]
  <2>1. \/ UNCHANGED files
        \/ /\ r.pc = "write" /\ r.op \in DeleteOps
           /\ files' = [files EXCEPT ![r.id] = NoRow]
        \/ files[r.id] # NoRow /\ files' = [files EXCEPT ![r.id] = new]
    BY <1>3 DEF TxWrite
  <2>2. CASE r.pc = "write" /\ r.op \in DeleteOps /\ files' = [files EXCEPT ![r.id] = NoRow]
    <3>1. i # r.id
      BY <2>2 DEF DeletesUnpublished
    <3>2. QED
      BY <1>1, <2>2, <3>1 DEF TypeOK
  <2>3. CASE files[r.id] # NoRow /\ files' = [files EXCEPT ![r.id] = new]
    <3>1. CASE i = r.id
      <4>1. files'[i] = new /\ files[i] \in Row
        BY <1>1, <2>3, <3>1 DEF TypeOK
      <4>2. new.path = files[i].path /\ files[i].path \in Paths
        BY <3>1, <4>1 DEF Row
      <4> HIDE DEF new
      <4>3. QED
        BY <4>1, <4>2 DEF NoRow
    <3>2. CASE i # r.id
      BY <1>1, <2>3, <3>2 DEF TypeOK
    <3>3. QED
      BY <3>1, <3>2
  <2>4. QED
    BY <1>1, <2>1, <2>2, <2>3
<1>4. ASSUME NEW w \in Workers, NEW k \in FileIds, NEW scan \in ScanResults, Persist(w, k, scan)
      PROVE  files'[i] = files[i]
  BY <1>1, <1>4 DEF Persist, IsNextId, TypeOK
<1>5. ASSUME NEW w \in Workers, WorkerStep(w)
      PROVE  files'[i] # NoRow
  BY <1>1, <1>2, <1>3, <1>4, <1>5 DEF WorkerStep, Locate, Refuse, CheckMove, Replace, TxRead,
     CheckUndo, UndoReplace, Unlink, Streamed, StreamFails, PersistFails, CleanupPaths
<1>6. QED
  BY <1>2, <1>5 DEF Next, Arrive, Get, UploadStart, CleanupTemporary, Crash, vars

\* However many requests overlap, with every fault and crash, no deletion removes the row
\* of a published file: provided the database honours the FOR UPDATE that every transaction
\* of the file service asks for.
THEOREM PublishedStay == Spec /\ []RowLocked => PublishedNeverDeleted
<1> DEFINE Inv == IInv /\ DeletesUnpublished
           Stay == \A i \in FileIds : files[i].status = "published" => files'[i] # NoRow
<1>1. Init => Inv
  <2>1. Init => DeletesUnpublished
    BY DEF Init, DeletesUnpublished, IdleReq
  <2>2. QED
    BY <2>1, InitIInv
<1>2. Inv /\ RowLocked /\ [Next]_vars => Inv'
  BY NextIInv, DeletesUnpublishedStep
<1>3. Inv /\ [Next]_vars => [Stay]_vars
  BY PublishedStep
<1>4. QED
  BY <1>1, <1>2, <1>3, PTL DEF Spec, PublishedNeverDeleted

-----------------------------------------------------------------------------
(* Requests together *)

\* The operations whose requests do not disturb each other's files.
TogetherOps == {"upload", "verify_integrity", "publish", "disable", "archive",
                "delete_metadata", "permanently_delete"}

\* Only those, and no failure that leaves a file moved without a critical entry.
Together == Ops \subseteq TogetherOps /\ Faults \cap {"fsync", "crash"} = {}

\* The rename of p that a request has done and neither committed nor undone.
Publishes(r, p) == Doubt(r, p) /\ r.op = "publish"
Stages(r, p) == Doubt(r, p) /\ r.op = "permanently_delete"

\* With requests R, the file p of a row with status s, found in the areas c, belongs in
\* e: one deletion may have staged it from there, one publication may have put it there.
BelongsIn(R, c, p, s, e) ==
    /\ c = IF \E w \in Workers : Stages(R[w], p) THEN {"deletions"} ELSE {e}
    /\ \A w \in Workers : Stages(R[w], p) => R[w].area = e
    /\ \A v, w \in Workers : Stages(R[v], p) /\ Stages(R[w], p) => v = w
    /\ \A v, w \in Workers : Publishes(R[v], p) /\ Publishes(R[w], p) => v = w
    /\ IF \E w \in Workers : Publishes(R[w], p) THEN e = "software" /\ s # "published"
       ELSE e \in AreaAllowed(s)

\* Every request is for one of these operations.
OnlyTogether == \A w \in Workers : req[w].op \in TogetherOps \cup {"none"}

\* The id of a request names its own row, or none any more.
RowsKept ==
    \A w \in Workers : req[w].op \notin {"none", "upload"} =>
        files[req[w].id] = NoRow \/ files[req[w].id].path = req[w].path

\* A publication that got to its write has a status to set.
PublishWrites ==
    \A w \in Workers : req[w].pc = "write" /\ req[w].op = "publish" => req[w].change

\* The bytes of every row, unless a critical entry names its file, belong somewhere.
BytesBelong ==
    \A i \in FileIds : files[i] # NoRow /\ files[i].path \notin alarms =>
        \E e \in StorageArea :
            BelongsIn(req, store[files[i].path], files[i].path, files[i].status, e)

\* What every step of these requests preserves.
TInv == IInv /\ OnlyTogether /\ RowsKept /\ PublishWrites /\ BytesBelong

\* Of these operations, publications and permanent deletions rename.
LEMMA TogetherMoves ==
  ASSUME NEW op \in TogetherOps \cup {"none"}, NEW a
  PROVE  Moves(op, a) <=> op \in {"publish", "permanently_delete"}
  BY DEF TogetherOps, Moves

\* Which renames are in doubt is all that matters of the requests.
LEMMA SteadyBelongs ==
  ASSUME NEW v \in Workers, Serves(v), NEW p,
         Doubt(req'[v], p) <=> Doubt(req[v], p),
         Doubt(req[v], p) => req'[v].op = req[v].op /\ req'[v].area = req[v].area,
         NEW c, NEW s, NEW t, t = s \/ t \in {"disabled", "archived"},
         NEW e \in StorageArea, BelongsIn(req, c, p, s, e)
  PROVE  BelongsIn(req', c, p, t, e)
<1>1. \A w \in Workers :
        /\ Publishes(req'[w], p) <=> Publishes(req[w], p)
        /\ Stages(req'[w], p) <=> Stages(req[w], p)
        /\ Stages(req[w], p) => req'[w].area = req[w].area
  BY DEF Serves, Publishes, Stages
<1>2. e \in AreaAllowed(s) => e \in AreaAllowed(t)
  BY DEF AreaAllowed
<1>3. s # "published" => t # "published"
  OBVIOUS
<1> HIDE DEF Publishes, Stages
<1>4. QED
  BY <1>1, <1>2, <1>3 DEF BelongsIn

\* A publication renames the file out of quarantine: it belongs in software from now on.
LEMMA PublishRenames ==
  ASSUME NEW v \in Workers, Serves(v), NEW p,
         ~Doubt(req[v], p), Publishes(req'[v], p),
         NEW s, NEW e \in StorageArea, BelongsIn(req, {"quarantine"}, p, s, e)
  PROVE  BelongsIn(req', {"software"}, p, s, "software")
<1>1. \A w \in Workers \ {v} : req'[w] = req[w]
  BY DEF Serves
<1>2. \A w \in Workers : ~Stages(req[w], p)
  BY DEF BelongsIn
<1>3. e = "quarantine" /\ \A w \in Workers : ~Publishes(req[w], p)
  BY <1>2 DEF BelongsIn
<1>4. s # "published"
  BY <1>3 DEF BelongsIn, AreaAllowed
<1>5. ~Stages(req'[v], p)
  BY DEF Stages, Publishes
<1>6. \A w \in Workers : ~Stages(req'[w], p) /\ (Publishes(req'[w], p) <=> w = v)
  BY <1>1, <1>2, <1>3, <1>5
<1>7. QED
  BY <1>4, <1>6 DEF BelongsIn

\* A permanent deletion stages the file: it belongs where it was found.
LEMMA StageRenames ==
  ASSUME NEW v \in Workers, Serves(v), NEW p, NEW a \in StorageArea,
         ~Doubt(req[v], p), Stages(req'[v], p), req'[v].area = a,
         NEW s, NEW e \in StorageArea, BelongsIn(req, {a}, p, s, e)
  PROVE  BelongsIn(req', {"deletions"}, p, s, a)
<1>1. \A w \in Workers \ {v} : req'[w] = req[w]
  BY DEF Serves
<1>2. \A w \in Workers : ~Stages(req[w], p)
  BY DEF BelongsIn, StorageArea
<1>3. e = a
  BY <1>2 DEF BelongsIn
<1>4. ~Publishes(req'[v], p) /\ ~Publishes(req[v], p)
  BY DEF Stages, Publishes
<1>5. \A w \in Workers : /\ Stages(req'[w], p) <=> w = v
                         /\ Publishes(req'[w], p) <=> Publishes(req[w], p)
  BY <1>1, <1>2, <1>4
<1>6. QED
  BY <1>3, <1>5 DEF BelongsIn

\* A publication commits: the file may stay where it is.
LEMMA PublishCommits ==
  ASSUME NEW v \in Workers, Serves(v), NEW p,
         Publishes(req[v], p), ~Doubt(req'[v], p),
         NEW c, NEW s, NEW e \in StorageArea, BelongsIn(req, c, p, s, e)
  PROVE  BelongsIn(req', c, p, "published", e)
<1>1. \A w \in Workers \ {v} : req'[w] = req[w]
  BY DEF Serves
<1>2. ~Publishes(req'[v], p) /\ ~Stages(req'[v], p) /\ ~Stages(req[v], p)
  BY DEF Stages, Publishes
<1>3. \A w \in Workers : /\ ~Publishes(req'[w], p)
                         /\ Stages(req'[w], p) <=> Stages(req[w], p)
                         /\ Stages(req[w], p) => req'[w].area = req[w].area
  BY <1>1, <1>2 DEF BelongsIn
<1>4. e = "software" /\ e \in AreaAllowed("published")
  BY DEF BelongsIn, AreaAllowed
<1>5. QED
  BY <1>3, <1>4 DEF BelongsIn

\* A publication finds its file in software and takes it back to quarantine.
LEMMA PublishUndone ==
  ASSUME NEW v \in Workers, Serves(v), NEW p,
         Publishes(req[v], p), ~Doubt(req'[v], p),
         NEW c, "software" \in c, NEW s \in FileStatus,
         NEW e \in StorageArea, BelongsIn(req, c, p, s, e)
  PROVE  BelongsIn(req', {"quarantine"}, p, s, "quarantine")
<1>1. \A w \in Workers \ {v} : req'[w] = req[w]
  BY DEF Serves
<1>2. ~Publishes(req'[v], p) /\ ~Stages(req'[v], p) /\ ~Stages(req[v], p)
  BY DEF Stages, Publishes
<1>3. \A w \in Workers : ~Stages(req[w], p)
  BY DEF BelongsIn
<1>4. \A w \in Workers : ~Publishes(req'[w], p) /\ ~Stages(req'[w], p)
  BY <1>1, <1>2, <1>3 DEF BelongsIn
<1>5. "quarantine" \in AreaAllowed(s)
  BY DEF BelongsIn, AreaAllowed, FileStatus, StorageArea
<1>6. QED
  BY <1>4, <1>5 DEF BelongsIn

\* A deletion takes its file back to where it belongs.
LEMMA StageUndone ==
  ASSUME NEW v \in Workers, Serves(v), NEW p,
         Stages(req[v], p), ~Doubt(req'[v], p),
         NEW c, NEW s, NEW e \in StorageArea, BelongsIn(req, c, p, s, e)
  PROVE  BelongsIn(req', {req[v].area}, p, s, e)
<1>1. \A w \in Workers \ {v} : req'[w] = req[w]
  BY DEF Serves
<1>2. ~Stages(req'[v], p) /\ ~Publishes(req'[v], p) /\ ~Publishes(req[v], p)
  BY DEF Stages, Publishes
<1>3. \A w \in Workers : /\ ~Stages(req'[w], p)
                         /\ Publishes(req'[w], p) <=> Publishes(req[w], p)
  BY <1>1, <1>2 DEF BelongsIn
<1>4. req[v].area = e
  BY DEF BelongsIn
<1>5. QED
  BY <1>3, <1>4 DEF BelongsIn

\* The file of a row: a request that works on it is about that row.
LEMMA ListedFacts ==
  ASSUME TInv, NEW i \in FileIds, files[i] # NoRow
  PROVE  /\ files[i].path \in Paths /\ files[i].path # NoPath /\ files[i].path \in used
         /\ files[i].status \in FileStatus
         /\ \A w \in Workers : req[w].path = files[i].path =>
              /\ req[w].op \notin {"none", "upload"} /\ req[w].op \in TogetherOps
              /\ req[w].pc \notin {"idle", "unlink"} /\ req[w].id = i
<1>1. IInv /\ TypeOK /\ files[i] \in Row
  BY DEF TInv, IInv, TypeOK
<1>2. files[i].path \in Paths /\ files[i].path # NoPath /\ files[i].status \in FileStatus
  BY <1>1 DEF Row
<1>3. files[i].path \in used
  BY <1>1 DEF IInv, PathsOnce
<1>4. ASSUME NEW w \in Workers, req[w].path = files[i].path
      PROVE  /\ req[w].op \notin {"none", "upload"} /\ req[w].op \in TogetherOps
             /\ req[w].pc \notin {"idle", "unlink"} /\ req[w].id = i
  <2>1. req[w].pc # "idle" /\ req[w].op # "none"
    BY <1>1, <1>2, <1>4 DEF IInv, ReqShape, Shape, IdleReq
  <2>2. req[w].op # "upload" /\ req[w].pc # "unlink"
    BY <1>1, <1>4 DEF IInv, UploadPrivate, UnlinkUnlisted
  <2>3. req[w].id = i
    BY <1>1, <1>4, <2>1, <2>2 DEF IInv, OwnRow
  <2>4. QED
    BY <2>1, <2>2, <2>3 DEF TInv, OnlyTogether
<1>5. QED
  BY <1>2, <1>3, <1>4

\* What the proof of one step is about: row i stays, and its file raises no alarm.
Kept(i) == files[i] # NoRow /\ files'[i] # NoRow /\ files[i].path \notin alarms'

\* The file of row i belongs somewhere after the step, too.
StillBelongs(i) ==
    /\ files'[i].path = files[i].path
    /\ \E e \in StorageArea :
         BelongsIn(req', store'[files[i].path], files[i].path, files'[i].status, e)

\* A step that renames nothing, settles no doubt, and at most disables or archives.
LEMMA SteadyStep ==
  ASSUME TInv, NEW v \in Workers, Serves(v), NEW i \in FileIds, Kept(i), alarms \subseteq alarms',
         store'[files[i].path] = store[files[i].path],
         files'[i].path = files[i].path,
         files'[i].status = files[i].status \/ files'[i].status \in {"disabled", "archived"},
         Doubt(req'[v], files[i].path) <=> Doubt(req[v], files[i].path),
         Doubt(req[v], files[i].path) => req'[v].op = req[v].op /\ req'[v].area = req[v].area
  PROVE  StillBelongs(i)
<1> DEFINE p == files[i].path
<1>1. PICK e \in StorageArea : BelongsIn(req, store[p], p, files[i].status, e)
  BY DEF TInv, BytesBelong, Kept
<1>2. BelongsIn(req', store[p], p, files'[i].status, e)
  BY <1>1, SteadyBelongs
<1>3. QED
  BY <1>2 DEF StillBelongs

\* A step of a request leaves the files of other rows alone.
LEMMA OtherFiles ==
  ASSUME TInv, NEW v \in Workers, WorkerStep(v), NEW i \in FileIds, Kept(i),
         alarms \subseteq alarms', files[i].path # req[v].path
  PROVE  StillBelongs(i)
<1> DEFINE r == req[v]
           p == files[i].path
<1>1. p \in Paths /\ p # NoPath /\ IInv /\ TypeOK
  BY ListedFacts DEF TInv, IInv, Kept
<1>2. Serves(v) /\ store'[p] = store[p] /\ (req'[v] = IdleReq \/ SameFile(v))
  BY <1>1, OwnPath
<1>3. ~Doubt(r, p) /\ ~Doubt(req'[v], p)
  BY <1>1, <1>2 DEF Doubt, SameFile, IdleReq
<1>4. files'[i] = files[i]
  <2>1. CASE TxWrite(v)
    <3>1. r.op \notin {"none", "upload"} /\ r.id \in FileIds
      BY <1>1, <2>1 DEF TxWrite, IInv, ReqShape, Shape
    <3>2. r.id # i
      BY <3>1 DEF TInv, RowsKept, Kept
    <3>3. QED
      BY <1>1, <2>1, <3>1, <3>2 DEF TxWrite, TypeOK
  <2>2. CASE \E j \in FileIds, scan \in ScanResults : Persist(v, j, scan)
    BY <1>1, <2>2 DEF Persist, IsNextId, TypeOK, Kept
  <2>3. QED
    BY <2>1, <2>2 DEF WorkerStep, Locate, Refuse, CheckMove, Replace, TxRead,
         CheckUndo, UndoReplace, Unlink, Streamed, StreamFails, PersistFails, CleanupPaths
<1>5. QED
  BY <1>2, <1>3, <1>4, SteadyStep

\* A transaction that failed stays in doubt of what it had renamed.
LEMMA FailedBelongs ==
  ASSUME TInv, NEW v \in Workers, NEW i \in FileIds, Kept(i), files[i].path = req[v].path,
         req[v].pc \in {"read", "write"}, Become(v, TxFailed(req[v])),
         UNCHANGED <<files, store, alarms>>
  PROVE  StillBelongs(i)
<1> DEFINE p == files[i].path
<1>1. p # NoPath /\ TypeOK
  BY ListedFacts DEF TInv, IInv, Kept
<1>2. /\ Serves(v)
      /\ \/ req'[v] = IdleReq /\ ~Moves(req[v].op, req[v].area)
         \/ SameFile(v) /\ req'[v].pc = "undo" /\ Moves(req[v].op, req[v].area)
              /\ req'[v].area = req[v].area
  BY <1>1, TxFailedEffect
<1>3. Doubt(req'[v], p) <=> Doubt(req[v], p)
  BY <1>1, <1>2 DEF Doubt, SameFile, IdleReq
<1>4. Doubt(req[v], p) => req'[v].op = req[v].op /\ req'[v].area = req[v].area
  BY <1>2 DEF Doubt, SameFile
<1>5. QED
  BY <1>2, <1>3, <1>4, SteadyStep

\* Inspecting the disk, and the checks before a rename.
LEMMA LooksBelong ==
  ASSUME TInv, NEW v \in Workers, NEW i \in FileIds, Kept(i), files[i].path = req[v].path,
         Locate(v) \/ Refuse(v) \/ CheckMove(v)
  PROVE  StillBelongs(i)
<1> DEFINE r == req[v]
           p == files[i].path
<1>1. /\ p # NoPath /\ TypeOK /\ r.op \in TogetherOps /\ r.op # "upload"
      /\ r.pc \in {"locate", "move"} /\ UNCHANGED <<files, store, alarms>>
  BY ListedFacts DEF TInv, IInv, Kept, Locate, Refuse, CheckMove
<1>2. ~Doubt(r, p)
  BY <1>1 DEF Doubt
<1>3. Serves(v) /\ ~Doubt(req'[v], p)
  <2>1. CASE Become(v, IdleReq)
    <3>1. Serves(v) /\ req'[v] = IdleReq
      BY <1>1, <2>1, IdleEffect
    <3>2. QED
      BY <3>1 DEF Doubt, IdleReq
  <2>2. CASE r.op = "delete_metadata" /\ Become(v, [r EXCEPT !.pc = "read"])
    <3>1. Serves(v) /\ SameFile(v)
      BY <1>1, <2>2, PcEffect DEF Pc
    <3>2. QED
      BY <2>2, <3>1 DEF Doubt, SameFile, Moves
  <2>3. ASSUME NEW a \in StorageArea,
               Become(v, [r EXCEPT !.area = a, !.pc = IF Moves(r.op, a) THEN "move" ELSE "read"])
        PROVE  Serves(v) /\ ~Doubt(req'[v], p)
    <3> DEFINE q == IF Moves(r.op, a) THEN "move" ELSE "read"
    <3>1. a \in Area /\ q \in Pc
      BY DEF Area, Pc
    <3>2. Serves(v) /\ SameFile(v) /\ req'[v].pc = q /\ req'[v].area = a
      BY <1>1, <2>3, <3>1, AreaEffect
    <3>3. QED
      BY <3>2 DEF Doubt, SameFile
  <2>4. CASE Become(v, [r EXCEPT !.pc = "replace"])
    <3>1. Serves(v) /\ SameFile(v) /\ req'[v].pc = "replace"
      BY <1>1, <2>4, PcEffect DEF Pc
    <3>2. QED
      BY <3>1 DEF Doubt
  <2>5. CASE Locate(v)
    BY <2>2, <2>3, <2>5 DEF Locate
  <2>6. QED
    BY <1>1, <2>1, <2>4, <2>5 DEF Refuse, CheckMove, MoveFailed
<1>4. QED
  BY <1>1, <1>2, <1>3, SteadyStep

\* The rename itself.
LEMMA ReplaceBelongs ==
  ASSUME Together, TInv, NEW v \in Workers, NEW i \in FileIds, Kept(i),
         files[i].path = req[v].path, Replace(v)
  PROVE  StillBelongs(i)
<1> DEFINE r == req[v]
           p == files[i].path
           s == files[i].status
<1>1. /\ p # NoPath /\ p \in Paths /\ TypeOK /\ IInv /\ r.op \in TogetherOps /\ r.op # "upload"
      /\ r.pc = "replace" /\ UNCHANGED <<files, alarms>>
  BY ListedFacts DEF TInv, IInv, Kept, Replace
<1>2. ~Doubt(r, p)
  BY <1>1 DEF Doubt
<1>3. /\ r.op \in {"publish", "permanently_delete"} /\ r.area \in StorageArea
      /\ r.op = "publish" => r.area = "quarantine"
  BY <1>1, TogetherMoves DEF IInv, ReqShape, Shape
<1>4. CASE UNCHANGED store /\ Become(v, MoveFailed(r))
  <2>1. Serves(v) /\ req'[v] = IdleReq
    BY <1>1, <1>4, MoveFailedEffect
  <2>2. ~Doubt(req'[v], p)
    BY <2>1 DEF Doubt, IdleReq
  <2>3. QED
    BY <1>1, <1>2, <1>4, <2>1, <2>2, SteadyStep
<1>5. CASE /\ r.area \in store[p] /\ store' = Renamed(p, r.area, MoveTo(r.op))
           /\ Become(v, [r EXCEPT !.pc = "read"])
  <2>1. Serves(v) /\ SameFile(v) /\ req'[v].pc = "read" /\ req'[v].area = r.area
    BY <1>1, <1>5, PcEffect DEF Pc
  <2>2. Doubt(req'[v], p) /\ req'[v].op = r.op
    BY <1>1, <1>3, <2>1 DEF Doubt, SameFile, Moves
  <2>3. store[p] = {r.area}
    BY <1>1, <1>5 DEF IInv, SingleCopy
  <2>4. store'[p] = {MoveTo(r.op)}
    BY <1>1, <1>5, <2>3 DEF Renamed, TypeOK
  <2>5. PICK e \in StorageArea : BelongsIn(req, {r.area}, p, s, e)
    BY <1>1, <2>3 DEF TInv, BytesBelong, Kept
  <2>6. CASE r.op = "publish"
    <3>1. Publishes(req'[v], p) /\ MoveTo(r.op) = "software" /\ r.area = "quarantine"
      BY <1>3, <2>2, <2>6 DEF Publishes, MoveTo
    <3>2. BelongsIn(req', {"software"}, p, s, "software")
      BY <1>2, <2>1, <2>5, <3>1, PublishRenames
    <3>3. QED
      BY <1>1, <2>4, <3>1, <3>2 DEF StillBelongs, StorageArea
  <2>7. CASE r.op = "permanently_delete"
    <3>1. Stages(req'[v], p) /\ MoveTo(r.op) = "deletions"
      BY <2>2, <2>7 DEF Stages, MoveTo
    <3>2. BelongsIn(req', {"deletions"}, p, s, r.area)
      BY <1>2, <1>3, <2>1, <2>5, <3>1, StageRenames
    <3>3. QED
      BY <1>1, <1>3, <2>4, <3>1, <3>2 DEF StillBelongs
  <2>8. QED
    BY <1>3, <2>6, <2>7
<1>6. QED
  BY <1>1, <1>4, <1>5 DEF Replace, Together

\* The SELECT of the transaction.
LEMMA TxReadBelongs ==
  ASSUME TInv, NEW v \in Workers, NEW i \in FileIds, Kept(i), files[i].path = req[v].path,
         TxRead(v)
  PROVE  StillBelongs(i)
<1> DEFINE r == req[v]
           p == files[i].path
           c == r.op \in StatusOps /\ files[r.id].status # Target(r.op)
<1>1. TypeOK /\ r.pc = "read" /\ UNCHANGED <<files, store, alarms>>
  BY DEF TInv, IInv, TxRead
<1>2. CASE Become(v, TxFailed(r))
  BY <1>1, <1>2, FailedBelongs
<1>3. CASE Become(v, [r EXCEPT !.pc = "write", !.change = c])
  <2>1. Serves(v) /\ SameFile(v) /\ req'[v].pc = "write" /\ req'[v].area = r.area
    BY <1>1, <1>3, ChangeEffect DEF Pc
  <2>2. Doubt(req'[v], p) <=> Doubt(r, p)
    BY <1>1, <2>1 DEF Doubt, SameFile
  <2>3. QED
    BY <1>1, <2>1, <2>2, SteadyStep DEF SameFile
<1>4. QED
  BY <1>2, <1>3 DEF TxRead

\* The UPDATE, the DELETE, or neither.
LEMMA TxWriteBelongs ==
  ASSUME TInv, NEW v \in Workers, NEW i \in FileIds, Kept(i), files[i].path = req[v].path,
         TxWrite(v)
  PROVE  StillBelongs(i)
<1> DEFINE r == req[v]
           p == files[i].path
           s == files[i].status
<1>1. /\ p # NoPath /\ TypeOK /\ IInv /\ r.op \in TogetherOps /\ r.op # "upload" /\ r.id = i
      /\ r.pc = "write" /\ UNCHANGED <<store, alarms>>
  BY ListedFacts DEF TInv, IInv, Kept, TxWrite
<1>2. CASE UNCHANGED files /\ Become(v, TxFailed(r))
  BY <1>1, <1>2, FailedBelongs
<1>3. CASE r.op \notin DeleteOps /\ Become(v, IdleReq)
             /\ files' = IF r.change THEN [files EXCEPT ![i].status = Target(r.op)] ELSE files
  <2>1. Serves(v) /\ req'[v] = IdleReq
    BY <1>1, <1>3, IdleEffect
  <2>2. ~Doubt(req'[v], p)
    BY <2>1 DEF Doubt, IdleReq
  <2>3. Doubt(r, p) <=> r.op = "publish"
    BY <1>1, <1>3, TogetherMoves DEF Doubt, DeleteOps
  <2>4. CASE r.op = "publish"
    <3>1. r.change
      BY <1>1, <2>4 DEF TInv, PublishWrites
    <3>2. files'[i].path = p /\ files'[i].status = "published"
      BY <1>1, <1>3, <2>4, <3>1 DEF TypeOK, Row, Target, Kept
    <3>3. PICK e \in StorageArea : BelongsIn(req, store[p], p, s, e)
      BY <1>1 DEF TInv, BytesBelong, Kept
    <3>4. Publishes(r, p)
      BY <2>3, <2>4 DEF Publishes
    <3>5. BelongsIn(req', store[p], p, "published", e)
      BY <2>1, <2>2, <3>3, <3>4, PublishCommits
    <3>6. QED
      BY <1>1, <3>2, <3>5 DEF StillBelongs
  <2>5. CASE r.op # "publish"
    <3>1. r.change => r.op \in {"disable", "archive"}
      BY <1>1, <2>5 DEF IInv, ReqShape, Shape, StatusOps, TogetherOps
    <3>2. files[i] \in Row
      BY <1>1 DEF TypeOK, Kept
    <3>3. /\ files'[i].path = p
          /\ files'[i].status = s \/ files'[i].status \in {"disabled", "archived"}
      BY <1>1, <1>3, <3>1, <3>2 DEF TypeOK, Row, Target
    <3>4. QED
      BY <1>1, <2>1, <2>2, <2>3, <2>5, <3>3, SteadyStep
  <2>6. QED
    BY <2>4, <2>5
<1>4. CASE files' = [files EXCEPT ![i] = NoRow]
  BY <1>1, <1>4 DEF TypeOK, Kept
<1>5. QED
  BY <1>1, <1>2, <1>3, <1>4 DEF TxWrite

\* The rename back, or the critical entry that it failed.
LEMMA UndoBelongs ==
  ASSUME TInv, NEW v \in Workers, NEW i \in FileIds, Kept(i), files[i].path = req[v].path,
         CheckUndo(v) \/ UndoReplace(v)
  PROVE  StillBelongs(i)
<1> DEFINE r == req[v]
           p == files[i].path
           s == files[i].status
<1>1. /\ p # NoPath /\ p \in Paths /\ s \in FileStatus /\ TypeOK /\ IInv
      /\ r.op \in TogetherOps /\ r.pc \in {"undo", "undoReplace"} /\ UNCHANGED files
  BY ListedFacts DEF TInv, IInv, Kept, CheckUndo, UndoReplace
<1>2. /\ Doubt(r, p) /\ r.op \in {"publish", "permanently_delete"} /\ r.area \in StorageArea
      /\ r.op = "publish" => r.area = "quarantine"
  BY <1>1, TogetherMoves DEF IInv, ReqShape, Shape, Doubt
<1>3. CASE UNCHANGED <<store, alarms>> /\ Become(v, [r EXCEPT !.pc = "undoReplace"])
  <2>1. Serves(v) /\ SameFile(v) /\ req'[v].pc = "undoReplace" /\ req'[v].area = r.area
    BY <1>1, <1>3, PcEffect DEF Pc
  <2>2. Doubt(req'[v], p)
    BY <1>2, <2>1 DEF Doubt, SameFile
  <2>3. QED
    BY <1>1, <1>2, <1>3, <2>1, <2>2, SteadyStep DEF SameFile
<1>4. CASE /\ MoveTo(r.op) \in store[p] /\ store' = Renamed(p, MoveTo(r.op), r.area)
           /\ Become(v, IdleReq) /\ UNCHANGED alarms
  <2>1. Serves(v) /\ req'[v] = IdleReq
    BY <1>1, <1>4, IdleEffect
  <2>2. ~Doubt(req'[v], p)
    BY <2>1 DEF Doubt, IdleReq
  <2>3. store[p] = {MoveTo(r.op)}
    BY <1>1, <1>4 DEF IInv, SingleCopy
  <2>4. store'[p] = {r.area}
    BY <1>1, <1>4, <2>3 DEF Renamed, TypeOK
  <2>5. PICK e \in StorageArea : BelongsIn(req, store[p], p, s, e)
    BY <1>1, <1>4 DEF TInv, BytesBelong, Kept
  <2>6. CASE r.op = "publish"
    <3>1. Publishes(r, p) /\ "software" \in store[p] /\ r.area = "quarantine"
      BY <1>2, <1>4, <2>6 DEF Publishes, MoveTo
    <3>2. BelongsIn(req', {"quarantine"}, p, s, "quarantine")
      BY <1>1, <2>1, <2>2, <2>5, <3>1, PublishUndone
    <3>3. QED
      BY <1>1, <2>4, <3>1, <3>2 DEF StillBelongs, StorageArea
  <2>7. CASE r.op = "permanently_delete"
    <3>1. Stages(r, p)
      BY <1>2, <2>7 DEF Stages
    <3>2. BelongsIn(req', {r.area}, p, s, e)
      BY <2>1, <2>2, <2>5, <3>1, StageUndone
    <3>3. QED
      BY <1>1, <2>4, <3>2 DEF StillBelongs
  <2>8. QED
    BY <1>2, <2>6, <2>7
<1>5. CASE alarms' = alarms \cup {p}
  BY <1>5 DEF Kept
<1>6. QED
  BY <1>1, <1>3, <1>4, <1>5 DEF CheckUndo, UndoReplace

\* A step of a request leaves the file of every row where it belongs.
LEMMA WorkerBelongs ==
  ASSUME Together, TInv, NEW v \in Workers, WorkerStep(v), NEW i \in FileIds, Kept(i)
  PROVE  StillBelongs(i)
<1> DEFINE r == req[v]
<1>1. alarms \subseteq alarms'
  BY DEF WorkerStep, Locate, Refuse, CheckMove, Replace, TxRead, TxWrite, CheckUndo, UndoReplace,
         Unlink, Streamed, StreamFails, PersistFails, CleanupPaths, Persist
<1>2. CASE files[i].path # r.path
  BY <1>1, <1>2, OtherFiles
<1>3. CASE files[i].path = r.path
  <2>1. Shape(r) /\ r.op # "upload" /\ r.pc # "unlink"
    BY <1>3, ListedFacts DEF TInv, IInv, ReqShape, Kept
  <2>2. r.pc \notin {"stream", "scan", "cleanup"}
    BY <2>1 DEF Shape
  <2>3. CASE Locate(v) \/ Refuse(v) \/ CheckMove(v)
    BY <1>3, <2>3, LooksBelong
  <2>4. CASE Replace(v)
    BY <1>3, <2>4, ReplaceBelongs
  <2>5. CASE TxRead(v)
    BY <1>3, <2>5, TxReadBelongs
  <2>6. CASE TxWrite(v)
    BY <1>3, <2>6, TxWriteBelongs
  <2>7. CASE CheckUndo(v) \/ UndoReplace(v)
    BY <1>3, <2>7, UndoBelongs
  <2>8. QED
    BY <2>1, <2>2, <2>3, <2>4, <2>5, <2>6, <2>7 DEF WorkerStep, Unlink, Streamed, StreamFails,
         PersistFails, CleanupPaths, Persist
<1>4. QED
  BY <1>2, <1>3

\* A new row comes with its file in quarantine, known to its upload alone.
LEMMA PersistBelongs ==
  ASSUME TInv, NEW v \in Workers, NEW i \in FileIds, NEW scan \in ScanResults,
         Persist(v, i, scan)
  PROVE  /\ files[i] = NoRow /\ files'[i].path = req[v].path
         /\ BelongsIn(req', store'[req[v].path], req[v].path, files'[i].status, "quarantine")
<1> DEFINE r == req[v]
           p == r.path
<1>1. /\ TypeOK /\ IInv /\ r.pc = "scan" /\ r.op = "upload" /\ p \in used /\ p \in Paths
      /\ UNCHANGED store /\ files[i] = NoRow
  BY DEF Persist, IsNextId, TInv, IInv, ReqShape, Shape, TypeOK
<1>2. store[p] = {"quarantine"}
  BY <1>1 DEF IInv, UploadPrivate, SingleCopy
<1>3. Serves(v) /\ req'[v] = IdleReq
  BY <1>1, IdleEffect DEF Persist
<1>4. \A w \in Workers : ~Doubt(req'[w], p)
  BY <1>1, <1>3 DEF Serves, Doubt, IdleReq, IInv, UploadPrivate
<1>5. files'[i].path = p /\ files'[i].status = InitialStatus(scan)
  BY <1>1 DEF Persist, TypeOK
<1>6. "quarantine" \in AreaAllowed(files'[i].status)
  BY <1>5 DEF InitialStatus, AreaAllowed
<1>7. BelongsIn(req', {"quarantine"}, p, files'[i].status, "quarantine")
  BY <1>4, <1>6 DEF BelongsIn, Publishes, Stages
<1>8. QED
  BY <1>1, <1>2, <1>5, <1>7

\* A new request has renamed nothing.
LEMMA ArriveBelongs ==
  ASSUME TInv, NEW v \in Workers, Arrive(v), NEW i \in FileIds, Kept(i)
  PROVE  StillBelongs(i)
<1> DEFINE p == files[i].path
<1>1. TypeOK /\ p \in Paths /\ p \in used /\ UNCHANGED <<files, alarms>>
  BY ListedFacts DEF TInv, IInv, Kept, Arrive, Get, UploadStart
<1>2. req[v].pc = "idle" /\ store'[p] = store[p]
  BY <1>1 DEF Arrive, Get, UploadStart, Active, TypeOK
<1>3. Serves(v) /\ req'[v].pc \in {"locate", "stream"}
  <2>1. PICK n : Become(v, n) /\ n \in Request /\ n.pc \in {"locate", "stream"}
    <3>1. ASSUME NEW op \in Operation, NEW k \in FileIds, Get(v, op, k)
          PROVE  \E n : Become(v, n) /\ n \in Request /\ n.pc \in {"locate", "stream"}
      <4>1. files[k].path \in Paths
        BY <1>1, <3>1 DEF Get, TypeOK, Row
      <4>2. [pc |-> "locate", op |-> op, id |-> k, path |-> files[k].path,
             area |-> "none", change |-> FALSE] \in Request
        BY <4>1 DEF Request, Pc
      <4>3. QED
        BY <3>1, <4>2 DEF Get
    <3>2. ASSUME NEW q \in Paths, UploadStart(v, q)
          PROVE  \E n : Become(v, n) /\ n \in Request /\ n.pc \in {"locate", "stream"}
      <4>1. [pc |-> "stream", op |-> "upload", id |-> 0, path |-> q,
             area |-> "temporary", change |-> FALSE] \in Request
        BY DEF Request, Pc, Operation, Area
      <4>2. QED
        BY <3>2, <4>1 DEF UploadStart
    <3>3. QED
      BY <3>1, <3>2 DEF Arrive
  <2>2. QED
    BY <1>1, <2>1, BecomeEffect
<1>4. ~Doubt(req[v], p) /\ ~Doubt(req'[v], p)
  BY <1>2, <1>3 DEF Doubt
<1>5. QED
  BY <1>1, <1>2, <1>3, <1>4, SteadyStep

\* The cleaner of temporary files removes none that a row names.
LEMMA CleanupBelongs ==
  ASSUME TInv, NEW x \in Paths, CleanupTemporary(x), NEW i \in FileIds, Kept(i)
  PROVE  StillBelongs(i)
<1> DEFINE p == files[i].path
<1>1. TypeOK /\ p \in Paths /\ UNCHANGED <<files, req, alarms>>
  BY ListedFacts DEF TInv, IInv, Kept, CleanupTemporary
<1>2. PICK e \in StorageArea : BelongsIn(req, store[p], p, files[i].status, e)
  BY <1>1 DEF TInv, BytesBelong, Kept
<1>3. "temporary" \notin store[p]
  BY <1>2 DEF BelongsIn, StorageArea
<1>4. store'[p] = store[p]
  BY <1>1, <1>3 DEF CleanupTemporary, TypeOK
<1>5. QED
  BY <1>1, <1>2, <1>4 DEF StillBelongs

\* After a step the file of every row belongs somewhere.
LEMMA BytesBelongStep ==
  ASSUME Together, TInv, [Next]_vars
  PROVE  BytesBelong'
<1> SUFFICES ASSUME NEW i \in FileIds, files'[i] # NoRow, files'[i].path \notin alarms'
             PROVE  \E e \in StorageArea :
                      BelongsIn(req', store'[files'[i].path], files'[i].path, files'[i].status, e)
  BY DEF BytesBelong
<1>1. CASE UNCHANGED vars
  BY <1>1 DEF vars, TInv, BytesBelong
<1>2. CASE Next /\ files[i] # NoRow
  <2>1. Kept(i)
    BY <1>2, RowIdentity DEF TInv, Kept
  <2>2. StillBelongs(i)
    BY <1>2, <2>1, WorkerBelongs, ArriveBelongs, CleanupBelongs DEF Next, Crash, Together
  <2>3. QED
    BY <2>2 DEF StillBelongs
<1>3. CASE Next /\ files[i] = NoRow
  <2>1. PICK v \in Workers, scan \in ScanResults : Persist(v, i, scan)
    <3>1. ASSUME NEW v \in Workers, WorkerStep(v)
          PROVE  \E scan \in ScanResults : Persist(v, i, scan)
      <4>1. CASE TxWrite(v)
        <5>1. TypeOK
          BY DEF TInv, IInv
        <5>2. files'[i] = files[i] \/ files'[i] = NoRow
          BY <1>3, <4>1, <5>1 DEF TxWrite, TypeOK
        <5>3. QED
          BY <1>3, <5>2
      <4>2. CASE \E j \in FileIds, scan \in ScanResults : Persist(v, j, scan)
        BY <1>3, <4>2 DEF Persist, TInv, IInv, TypeOK
      <4>3. QED
        BY <1>3, <3>1, <4>1, <4>2 DEF WorkerStep, Locate, Refuse, CheckMove, Replace, TxRead,
           CheckUndo, UndoReplace, Unlink, Streamed, StreamFails, PersistFails, CleanupPaths
    <3>2. QED
      BY <1>3, <3>1 DEF Next, Arrive, Get, UploadStart, CleanupTemporary, Crash
  <2>2. /\ files'[i].path = req[v].path
        /\ BelongsIn(req', store'[req[v].path], req[v].path, files'[i].status, "quarantine")
    BY <2>1, PersistBelongs
  <2>3. QED
    BY <2>2 DEF StorageArea
<1>4. QED
  BY <1>1, <1>2, <1>3

\* The operations of the requests, the rows they name and what publications write.
LEMMA RequestsStep ==
  ASSUME Together, TInv, [Next]_vars, [FreshIds]_vars
  PROVE  (OnlyTogether /\ RowsKept /\ PublishWrites)'
<1>1. IInv /\ TypeOK
  BY DEF TInv, IInv
<1>2. CASE UNCHANGED <<req, files>>
  BY <1>2 DEF TInv, OnlyTogether, RowsKept, PublishWrites
<1>3. ASSUME NEW v \in Workers, Serves(v), NEW w \in Workers,
             req'[w].op \notin {"none", "upload"},
             v # w \/ SameFile(v), FreshIds
      PROVE  files'[req'[w].id] = NoRow \/ files'[req'[w].id].path = req'[w].path
  <2>1. req'[w].op = req[w].op /\ req'[w].id = req[w].id /\ req'[w].path = req[w].path
    BY <1>3 DEF Serves, SameFile
  <2>2. req[w].id \in FileIds
    BY <1>1, <1>3, <2>1 DEF IInv, ReqShape, Shape
  <2>3. files[req[w].id] = NoRow \/ files[req[w].id].path = req[w].path
    BY <1>3, <2>1 DEF TInv, RowsKept
  <2>4. files[req[w].id] = NoRow => files'[req[w].id] = NoRow
    BY <1>3, <2>2 DEF FreshIds
  <2>5. files[req[w].id] # NoRow =>
          files'[req[w].id] = NoRow \/ files'[req[w].id].path = files[req[w].id].path
    BY <1>1, <2>2, RowIdentity
  <2>6. QED
    BY <2>1, <2>3, <2>4, <2>5
<1>4. ASSUME NEW v \in Workers, Arrive(v)
      PROVE  (OnlyTogether /\ RowsKept /\ PublishWrites)'
  <2>1. /\ UNCHANGED files /\ Serves(v) /\ req'[v].op \in Ops
        /\ req'[v].pc \in {"locate", "stream"}
        /\ req'[v].op # "upload" => files[req'[v].id].path = req'[v].path
    <3>1. ASSUME NEW op \in Operation, NEW k \in FileIds, Get(v, op, k)
          PROVE  /\ UNCHANGED files /\ Serves(v) /\ req'[v].op \in Ops
                 /\ req'[v].pc = "locate" /\ files[req'[v].id].path = req'[v].path
      <4> DEFINE n == [pc |-> "locate", op |-> op, id |-> k, path |-> files[k].path,
                       area |-> "none", change |-> FALSE]
      <4>1. files[k].path \in Paths
        BY <1>1, <3>1 DEF Get, TypeOK, Row
      <4>2. n \in Request
        BY <4>1 DEF Request, Pc
      <4>3. Serves(v) /\ req'[v] = n
        BY <1>1, <3>1, <4>2, BecomeEffect DEF Get
      <4>4. QED
        BY <3>1, <4>3 DEF Get
    <3>2. ASSUME NEW q \in Paths, UploadStart(v, q)
          PROVE  /\ UNCHANGED files /\ Serves(v) /\ req'[v].op \in Ops
                 /\ req'[v].pc = "stream" /\ req'[v].op = "upload"
      <4> DEFINE n == [pc |-> "stream", op |-> "upload", id |-> 0, path |-> q,
                       area |-> "temporary", change |-> FALSE]
      <4>1. n \in Request
        BY DEF Request, Pc, Operation, Area
      <4>2. Serves(v) /\ req'[v] = n
        BY <1>1, <3>2, <4>1, BecomeEffect DEF UploadStart
      <4>3. QED
        BY <3>2, <4>2 DEF UploadStart
    <3>3. QED
      BY <1>4, <3>1, <3>2 DEF Arrive
  <2>2. OnlyTogether' /\ PublishWrites'
    BY <2>1 DEF Together, TInv, OnlyTogether, PublishWrites, Serves
  <2>3. RowsKept'
    BY <2>1 DEF TInv, RowsKept, Serves
  <2>4. QED
    BY <2>2, <2>3
<1>5. ASSUME NEW v \in Workers, WorkerStep(v), FreshIds
      PROVE  (OnlyTogether /\ RowsKept /\ PublishWrites)'
  <2>1. Serves(v) /\ (req'[v] = IdleReq \/ SameFile(v))
    BY <1>1, <1>5, OwnPath
  <2>2. OnlyTogether'
    BY <2>1 DEF TInv, OnlyTogether, Serves, SameFile, IdleReq
  <2>3. RowsKept'
    <3> SUFFICES ASSUME NEW w \in Workers, req'[w].op \notin {"none", "upload"}
                 PROVE  files'[req'[w].id] = NoRow \/ files'[req'[w].id].path = req'[w].path
      BY DEF RowsKept
    <3>1. v # w \/ SameFile(v)
      BY <2>1 DEF IdleReq
    <3>2. QED
      BY <1>3, <1>5, <2>1, <3>1
  <2>4. PublishWrites'
    <3> SUFFICES ASSUME NEW w \in Workers, req'[w].pc = "write", req'[w].op = "publish"
                 PROVE  req'[w].change
      BY DEF PublishWrites
    <3>1. CASE w # v
      BY <2>1, <3>1 DEF TInv, PublishWrites, Serves
    <3>2. CASE w = v
      <4>1. req[v].op = "publish"
        BY <2>1, <3>2 DEF SameFile, IdleReq
      <4>2. ~Become(v, IdleReq)
        <5>1. Become(v, IdleReq) => req'[v] = IdleReq
          BY <1>1, IdleEffect
        <5>2. QED
          BY <3>2, <5>1 DEF IdleReq
      <4>3. \A q \in Pc \ {"write"} : ~Become(v, [req[v] EXCEPT !.pc = q])
        BY <1>1, <3>2, PcEffect
      <4>4. \A q \in Pc \ {"write"}, a \in Area : ~Become(v, [req[v] EXCEPT !.area = a, !.pc = q])
        BY <1>1, <3>2, AreaEffect
      <4>5. TxRead(v)
        <5>1. ~Locate(v) /\ ~Refuse(v)
          <6>1. ASSUME NEW a \in StorageArea,
                       Become(v, [req[v] EXCEPT !.area = a,
                                   !.pc = IF Moves(req[v].op, a) THEN "move" ELSE "read"])
                PROVE  FALSE
            <7> DEFINE q == IF Moves(req[v].op, a) THEN "move" ELSE "read"
            <7>1. q \in Pc \ {"write"} /\ a \in Area
              BY DEF Pc, Area
            <7>2. Become(v, [req[v] EXCEPT !.area = a, !.pc = q])
              BY <6>1
            <7> HIDE DEF q
            <7>3. QED
              BY <4>4, <7>1, <7>2
          <6>2. QED
            BY <4>1, <4>2, <6>1 DEF Locate, Refuse
        <5>2. ~CheckMove(v) /\ ~Replace(v)
          BY <4>1, <4>2, <4>3 DEF CheckMove, Replace, MoveFailed, Pc
        <5>3. ~TxWrite(v)
          <6>1. ~Become(v, TxFailed(req[v]))
            BY <4>2, <4>3 DEF TxFailed, Pc
          <6>2. QED
            BY <4>1, <4>2, <6>1 DEF TxWrite, DeleteOps
        <5>4. ~CheckUndo(v) /\ ~UndoReplace(v) /\ ~Unlink(v)
          BY <4>2, <4>3 DEF CheckUndo, UndoReplace, Unlink, Pc
        <5>5. ~Streamed(v) /\ ~StreamFails(v) /\ ~PersistFails(v) /\ ~CleanupPaths(v)
          BY <4>2, <4>3 DEF Streamed, StreamFails, PersistFails, CleanupPaths, Pc
        <5>6. ~\E i \in FileIds, scan \in ScanResults : Persist(v, i, scan)
          BY <4>2 DEF Persist
        <5>7. QED
          BY <1>5, <5>1, <5>2, <5>3, <5>4, <5>5, <5>6 DEF WorkerStep
      <4> DEFINE c == req[v].op \in StatusOps /\ files[req[v].id].status # Target(req[v].op)
      <4>6. ~Become(v, TxFailed(req[v]))
        BY <4>2, <4>3 DEF TxFailed, Pc
      <4>7. /\ Become(v, [req[v] EXCEPT !.pc = "write", !.change = c])
            /\ \E live \in BOOLEAN : Accepts(req[v], files[req[v].id], live)
        BY <4>5, <4>6 DEF TxRead
      <4>8. c
        BY <4>1, <4>7 DEF Accepts, EnsurePublishReady, StatusOps, Target
      <4>9. c \in BOOLEAN
        OBVIOUS
      <4> HIDE DEF c
      <4>10. req'[v].change = c
        BY <1>1, <4>7, <4>9, ChangeEffect DEF Pc
      <4>11. QED
        BY <3>2, <4>8, <4>10
    <3>3. QED
      BY <3>1, <3>2
  <2>5. QED
    BY <2>2, <2>3, <2>4
<1>6. CASE \E x \in Paths : CleanupTemporary(x)
  BY <1>2, <1>6 DEF CleanupTemporary
<1>7. CASE UNCHANGED vars
  BY <1>2, <1>7 DEF vars
<1>8. QED
  BY <1>4, <1>5, <1>6, <1>7 DEF Next, Crash, Together

\* In an empty system no file is anywhere.
LEMMA TogetherInit == Init => TInv
<1> SUFFICES ASSUME Init PROVE TInv
  OBVIOUS
<1>1. OnlyTogether /\ RowsKept /\ PublishWrites /\ BytesBelong
  BY DEF Init, OnlyTogether, RowsKept, PublishWrites, BytesBelong, IdleReq
<1>2. QED
  BY <1>1, InitIInv DEF TInv

\* Any number of requests, for any number of files, that only upload, verify, publish,
\* disable, archive and delete keep the bytes of every row that nobody works on in
\* exactly one area, one that _area_allowed expects, unless a critical entry names the
\* file: provided no row id that a request works on is given out again.
THEOREM BytesStayTogether ==
  ASSUME Together PROVE Spec /\ [][FreshIds]_vars => []PlacementOK
<1>1. Init => TInv
  BY TogetherInit
<1>2. TInv /\ [Next]_vars /\ [FreshIds]_vars => TInv'
  <2> SUFFICES ASSUME TInv, [Next]_vars, [FreshIds]_vars PROVE TInv'
    OBVIOUS
  <2>1. IInv'
    BY NextIInv DEF TInv
  <2>2. QED
    BY <2>1, BytesBelongStep, RequestsStep DEF TInv
<1>3. TInv => PlacementOK
  <2> SUFFICES ASSUME TInv, NEW i \in FileIds, files[i] # NoRow, Settled(files[i].path),
                      files[i].path \notin alarms
               PROVE  \E a \in AreaAllowed(files[i].status) : store[files[i].path] = {a}
    BY DEF PlacementOK
  <2> DEFINE p == files[i].path
  <2>1. PICK e \in StorageArea : BelongsIn(req, store[p], p, files[i].status, e)
    BY DEF TInv, BytesBelong
  <2>2. \A w \in Workers : ~Publishes(req[w], p) /\ ~Stages(req[w], p)
    BY DEF Settled, Publishes, Stages, Doubt
  <2>3. QED
    BY <2>1, <2>2 DEF BelongsIn
<1>4. QED
  BY <1>1, <1>2, <1>3, PTL DEF Spec

HIDE FileAssumption

-----------------------------------------------------------------------------
(* Orphan cleanup *)

\* Someone who changes the areas of an unlisted path while nothing is uploaded.
LEMMA UnlistedStep ==
  ASSUME IInv, ~Uploading, UNCHANGED <<files, used, req, alarms>>,
         store' \in [Paths -> SUBSET Area], NEW p \in Paths,
         \A q \in Paths \ {p} : store'[q] = store[q],
         \A a, b \in store'[p] : a = b,
         store[p] = {} => store'[p] = {},
         \A i \in FileIds : files[i].path # p
  PROVE  IInv'
<1>1. TypeOK'
  BY DEF IInv, TypeOK
<1>2. ReqShape' /\ OwnRow' /\ UnlinkUnlisted'
  <2>1. ReqShape /\ OwnRow /\ UnlinkUnlisted /\ files' = files /\ used' = used /\ req' = req
    BY DEF IInv
  <2>2. ReqShape'
    BY <2>1 DEF ReqShape, Shape
  <2>3. OwnRow' /\ UnlinkUnlisted'
    BY <2>1 DEF OwnRow, UnlinkUnlisted
  <2>4. QED
    BY <2>2, <2>3
<1>3. PathsOnce' /\ SingleCopy'
  BY DEF IInv, PathsOnce, SingleCopy
<1>4. UploadPrivate'
  BY DEF IInv, UploadPrivate, Uploading
<1>5. RowHasBytes'
  BY DEF IInv, RowHasBytes, TypeOK, Row
<1>6. QED
  BY <1>1, <1>2, <1>3, <1>4, <1>5 DEF IInv

\* From its SELECT on, in a maintenance window, the cleaner knows every listed path, and
\* what it has found and staged is unknown to it.
CleanerKnows ==
    /\ cleaner.pc = "idle" => cleaner = IdleCleaner
    /\ cleaner.pc # "idle" =>
         ~Uploading /\ \A i \in FileIds : files[i] # NoRow => files[i].path \in cleaner.known
    /\ \A f \in cleaner.found : f[1] \notin cleaner.known
    /\ cleaner.pc = "unlink" => cleaner.staged \in Paths \ cleaner.known

CInv == IInv /\ CTypeOK /\ CleanerKnows

\* A path the cleaner does not know is listed by no row.
LEMMA UnknownUnlisted ==
  ASSUME CInv, cleaner.pc # "idle", NEW p \in Paths \ cleaner.known, NEW i \in FileIds
  PROVE  files[i].path # p
  BY FileAssumption DEF CInv, CleanerKnows, IInv, TypeOK, NoRow

\* The cleaner looks on: the SELECT and the two walks.
LEMMA CleanerLooks ==
  ASSUME MaintenanceWindow, CInv,
         \/ Snapshot
         \/ Walk("walkQuarantine", "quarantine", "walkSoftware")
         \/ Walk("walkSoftware", "software", "delete")
         \/ CleanerDone
  PROVE  CInv'
<1>1. IInv' /\ UNCHANGED vars /\ TypeOK' /\ (Uploading' <=> Uploading)
  <2>1. UNCHANGED vars
    BY DEF Snapshot, Walk, CleanerDone
  <2>2. IInv'
    BY <2>1, NextIInv DEF CInv
  <2>3. QED
    BY <2>1, <2>2 DEF vars, Uploading, IInv
<1>2. CASE Snapshot
  <2>1. /\ cleaner = IdleCleaner /\ ~Uploading
        /\ cleaner' = [cleaner EXCEPT !.pc = "walkQuarantine",
                                      !.known = {p \in Paths : Listed(p)}]
    BY <1>2 DEF Snapshot, CInv, CleanerKnows
  <2>2. cleaner' = [pc |-> "walkQuarantine", known |-> {p \in Paths : Listed(p)},
                    found |-> {}, staged |-> NoPath]
    BY <2>1 DEF IdleCleaner
  <2>3. \A i \in FileIds : files[i] # NoRow => files[i].path \in Paths /\ Listed(files[i].path)
    BY DEF CInv, IInv, TypeOK, Row, Listed
  <2>4. CTypeOK'
    BY <1>1, <2>2 DEF CTypeOK
  <2>5. \A i \in FileIds : files'[i] # NoRow => files'[i].path \in cleaner'.known
    BY <1>1, <2>2, <2>3 DEF vars
  <2>6. cleaner'.pc = "walkQuarantine" /\ cleaner'.found = {}
    BY <2>2
  <2>7. CleanerKnows'
    BY <1>1, <2>1, <2>5, <2>6 DEF CleanerKnows
  <2>8. QED
    BY <1>1, <2>4, <2>7 DEF CInv
<1>3. CASE CleanerDone
  <2>1. CTypeOK' /\ CleanerKnows'
    BY <1>1, <1>3 DEF CleanerDone, IdleCleaner, CTypeOK, CleanerKnows
  <2>2. QED
    BY <1>1, <2>1 DEF CInv
<1>4. ASSUME NEW pc \in {"walkQuarantine", "walkSoftware"}, NEW a \in StorageArea,
             NEW next \in {"walkSoftware", "delete"}, Walk(pc, a, next)
      PROVE  CInv'
  <2>1. /\ cleaner.pc = pc
        /\ cleaner' = [cleaner EXCEPT !.pc = next, !.found = @ \cup Unknown(a)]
    BY <1>4 DEF Walk
  <2>2. /\ cleaner'.pc = next /\ cleaner'.known = cleaner.known
        /\ cleaner'.staged = cleaner.staged /\ cleaner'.found = cleaner.found \cup Unknown(a)
        /\ Unknown(a) \subseteq Paths \X StorageArea
        /\ \A f \in Unknown(a) : f[1] \notin cleaner.known
    BY <2>1 DEF CInv, CTypeOK, Unknown
  <2>3. CTypeOK'
    BY <1>1, <2>1, <2>2 DEF CInv, CTypeOK
  <2>4. CleanerKnows'
    BY <1>1, <2>1, <2>2 DEF CInv, CleanerKnows, vars
  <2>5. QED
    BY <1>1, <2>3, <2>4 DEF CInv
<1>5. QED
  BY <1>2, <1>3, <1>4 DEF StorageArea

\* The cleaner stages a file, or unlinks the one it has staged.
LEMMA CleanerRemoves ==
  ASSUME CInv, (\E p \in Paths, a \in StorageArea : StageOrphan(p, a)) \/ UnlinkOrphan
  PROVE  CInv'
<1>1. /\ IInv /\ TypeOK /\ UNCHANGED <<files, used, req, alarms>> /\ (Uploading' <=> Uploading)
      /\ store \in [Paths -> SUBSET Area] /\ "deletions" \in Area
  BY DEF CInv, IInv, TypeOK, StageOrphan, UnlinkOrphan, Uploading, Area
<1>2. ASSUME NEW p \in Paths, NEW a \in StorageArea, StageOrphan(p, a)
      PROVE  CInv'
  <2>1. /\ cleaner.pc = "delete" /\ ~Uploading /\ p \in Paths \ cleaner.known
        /\ \A i \in FileIds : files[i].path # p
    BY <1>2, UnknownUnlisted DEF StageOrphan, CInv, CleanerKnows
  <2>2. IInv'
    <3>1. CASE UNCHANGED store
      BY <1>1, <3>1, NextIInv DEF vars
    <3>2. CASE a \in store[p] /\ store' = Renamed(p, a, "deletions")
      <4>1. /\ store' \in [Paths -> SUBSET Area] /\ store[p] = {a} /\ store'[p] = {"deletions"}
            /\ \A q \in Paths \ {p} : store'[q] = store[q]
        BY <1>1, <3>2 DEF Renamed, IInv, SingleCopy
      <4>2. QED
        BY <1>1, <2>1, <4>1, UnlistedStep
    <3>3. QED
      BY <1>2, <3>1, <3>2 DEF StageOrphan
  <2>3. /\ cleaner'.pc \in {"delete", "unlink"} /\ cleaner'.known = cleaner.known
        /\ cleaner'.found = cleaner.found \ {<<p, a>>}
        /\ cleaner'.pc = "unlink" => cleaner'.staged = p
        /\ cleaner'.staged \in Paths \cup {NoPath}
        /\ cleaner' \in [pc : {"idle", "walkQuarantine", "walkSoftware", "delete", "unlink"},
                         known : SUBSET Paths, found : SUBSET (Paths \X StorageArea),
                         staged : Paths \cup {NoPath}]
    BY <1>2 DEF StageOrphan, CInv, CTypeOK
  <2>4. CTypeOK'
    BY <2>2, <2>3 DEF IInv, CTypeOK
  <2>5. CleanerKnows'
    BY <1>1, <2>1, <2>3 DEF CInv, CleanerKnows
  <2>6. QED
    BY <2>2, <2>4, <2>5 DEF CInv
<1>3. CASE UnlinkOrphan
  <2> DEFINE p == cleaner.staged
  <2>1. /\ cleaner.pc = "unlink" /\ ~Uploading /\ p \in Paths \ cleaner.known
        /\ \A i \in FileIds : files[i].path # p
    BY <1>3, UnknownUnlisted DEF UnlinkOrphan, CInv, CleanerKnows
  <2>2. IInv'
    <3>1. CASE UNCHANGED store
      BY <1>1, <3>1, NextIInv DEF vars
    <3>2. CASE store' = [store EXCEPT ![p] = @ \ {"deletions"}]
      <4>1. /\ store' \in [Paths -> SUBSET Area] /\ store'[p] \subseteq store[p]
            /\ \A q \in Paths \ {p} : store'[q] = store[q]
            /\ \A x, y \in store'[p] : x = y
        BY <1>1, <2>1, <3>2 DEF IInv, SingleCopy
      <4>2. QED
        BY <1>1, <2>1, <4>1, UnlistedStep
    <3>3. QED
      BY <1>3, <3>1, <3>2 DEF UnlinkOrphan
  <2>3. /\ cleaner'.pc = "delete" /\ cleaner'.known = cleaner.known
        /\ cleaner'.found = cleaner.found
        /\ cleaner' \in [pc : {"idle", "walkQuarantine", "walkSoftware", "delete", "unlink"},
                         known : SUBSET Paths, found : SUBSET (Paths \X StorageArea),
                         staged : Paths \cup {NoPath}]
    BY <1>3 DEF UnlinkOrphan, CInv, CTypeOK
  <2>4. CTypeOK'
    BY <2>2, <2>3 DEF IInv, CTypeOK
  <2>5. CleanerKnows'
    BY <1>1, <2>1, <2>3 DEF CInv, CleanerKnows
  <2>6. QED
    BY <2>2, <2>4, <2>5 DEF CInv
<1>4. QED
  BY <1>2, <1>3

\* Requests beside the cleaner: no row is added while it runs.
LEMMA CleanerApplication ==
  ASSUME MaintenanceWindow, CInv, ApplicationStep
  PROVE  CInv'
<1>1. IInv' /\ TypeOK' /\ IInv /\ [Next]_vars
  <2>1. Next
    BY DEF ApplicationStep, Next, Arrive
  <2>2. IInv'
    BY <2>1, NextIInv DEF CInv
  <2>3. QED
    BY <2>1, <2>2 DEF CInv, IInv
<1>2. CASE cleaner' = IdleCleaner
  BY <1>1, <1>2 DEF CInv, CTypeOK, CleanerKnows, IdleCleaner
<1>3. CASE cleaner' = cleaner /\ cleaner.pc = "idle"
  BY <1>2, <1>3 DEF CInv, CleanerKnows
<1>4. CASE cleaner' = cleaner /\ cleaner.pc # "idle"
  <2>1. ~Uploading /\ \A i \in FileIds : files[i] # NoRow => files[i].path \in cleaner.known
    BY <1>4 DEF CInv, CleanerKnows
  <2>2. \A i \in FileIds : files'[i] # NoRow => files'[i].path \in cleaner.known
    BY <1>1, <2>1, RowIdentity DEF Uploading
  <2>3. ~Uploading'
    <3>1. ASSUME NEW w \in Workers, NEW op \in Operation, NEW k \in FileIds, Get(w, op, k),
                 NEW v \in Workers, req'[v].op = "upload"
          PROVE  FALSE
      BY <1>1, <2>1, <3>1 DEF Get, Become, IInv, TypeOK, Uploading
    <3>2. ASSUME NEW w \in Workers, WorkerStep(w), NEW v \in Workers, req'[v].op = "upload"
          PROVE  FALSE
      <4>1. Serves(w) /\ (req'[w] = IdleReq \/ SameFile(w))
        BY <1>1, <3>2, OwnPath
      <4>2. QED
        BY <2>1, <3>2, <4>1 DEF Serves, SameFile, IdleReq, Uploading
    <3>3. CASE req' = req \/ req' = [w \in Workers |-> IdleReq]
      BY <2>1, <3>3 DEF Uploading, IdleReq
    <3>4. QED
      BY <1>4, <3>1, <3>2, <3>3 DEF ApplicationStep, CleanupTemporary, Crash, Uploading
  <2>4. CTypeOK' /\ CleanerKnows'
    BY <1>1, <1>4, <2>2, <2>3 DEF CInv, CTypeOK, CleanerKnows
  <2>5. QED
    BY <1>1, <2>4 DEF CInv
<1>5. QED
  BY <1>2, <1>3, <1>4 DEF ApplicationStep

\* The invariant of orphan cleanup in a maintenance window.
LEMMA CleanerAlways == ASSUME MaintenanceWindow PROVE CSpec => []CInv
<1>1. CInit => CInv
  <2> SUFFICES ASSUME CInit PROVE CInv
    OBVIOUS
  <2>1. IInv /\ TypeOK
    BY InitIInv DEF CInit, IInv
  <2>2. QED
    BY <2>1 DEF CInit, CInv, CTypeOK, CleanerKnows, IdleCleaner
<1>2. CInv /\ [CNext]_cvars => CInv'
  <2> SUFFICES ASSUME CInv, [CNext]_cvars PROVE CInv'
    OBVIOUS
  <2>1. CASE CleanerStep
    BY <2>1, CleanerLooks, CleanerRemoves DEF CleanerStep
  <2>2. CASE ApplicationStep
    BY <2>2, CleanerApplication
  <2>3. CASE UNCHANGED cvars
    <3>1. UNCHANGED vars /\ cleaner' = cleaner /\ IInv'
      BY <2>3, NextIInv DEF cvars, vars, CInv
    <3>2. CTypeOK' /\ CleanerKnows'
      BY <3>1 DEF CInv, CTypeOK, CleanerKnows, IInv, Uploading, vars
    <3>3. QED
      BY <3>1, <3>2 DEF CInv
  <2>4. QED
    BY <2>1, <2>2, <2>3 DEF CNext
<1>3. QED
  BY <1>1, <1>2, PTL DEF CSpec

\* In a maintenance window cleanup_orphans unlinks no file that a row names, although it
\* compares with one SELECT from before its walk and looks nothing up again.
THEOREM OrphansAreUnreferenced ==
  ASSUME MaintenanceWindow PROVE CSpec => []DeletesOnlyUnreferenced
<1>1. CInv => DeletesOnlyUnreferenced
  <2> SUFFICES ASSUME CInv, cleaner.pc = "unlink", NEW i \in FileIds
               PROVE  files[i].path # cleaner.staged
    BY DEF DeletesOnlyUnreferenced, Listed
  <2>1. cleaner.staged \in Paths \ cleaner.known
    BY DEF CInv, CleanerKnows
  <2>2. QED
    BY <2>1, UnknownUnlisted
<1>2. QED
  BY <1>1, CleanerAlways, PTL

\* Nor does it take away, at any other point, the bytes of a row.
THEOREM CleanupSparesRows ==
  ASSUME MaintenanceWindow PROVE CSpec => []RowHasBytes
<1>1. CInv => RowHasBytes
  BY DEF CInv, IInv
<1>2. QED
  BY <1>1, CleanerAlways, PTL

-----------------------------------------------------------------------------
(* A backup beside requests that move nothing *)

\* The operations that may rename a stored file, other than an upload.
MovingOps == {"publish", "restore_ready", "permanently_delete"}

NoMoves == \A w \in Workers : req[w].op \notin MovingOps

\* A file at rest in an area: worked on by no upload.
AtRest(p, a) ==
    /\ p \in used
    /\ store[p] = {a}
    /\ \A w \in Workers : req[w].op = "upload" => req[w].path # p

\* A file at rest stays so, whatever requests that move nothing do.
LEMMA RestStays ==
  ASSUME IInv, NoMoves, [Next]_vars, NEW p \in Paths, NEW a \in StorageArea, AtRest(p, a)
  PROVE  store'[p] = {a} /\ p \in used'
<1>1. TypeOK /\ store \in [Paths -> SUBSET Area]
  BY DEF IInv, TypeOK
<1>2. ASSUME NEW w \in Workers, WorkerStep(w)
      PROVE  store'[p] = store[p] /\ used' = used
  <2>1. used' = used
    BY <1>2 DEF WorkerStep, Locate, Refuse, CheckMove, Replace, TxRead, TxWrite,
       CheckUndo, UndoReplace, Unlink, Streamed, StreamFails, PersistFails, CleanupPaths, Persist
  <2>2. CASE p # req[w].path
    BY <1>2, <2>1, <2>2, OwnPath
  <2>3. CASE p = req[w].path
    <3>1. Shape(req[w]) /\ req[w].op # "upload" /\ req[w].op \notin MovingOps
      BY <2>3 DEF IInv, ReqShape, NoMoves, AtRest
    <3>2. ~Moves(req[w].op, req[w].area)
      BY <3>1 DEF Moves, MovingOps
    <3>3. req[w].pc \notin {"replace", "undoReplace", "unlink", "stream", "cleanup"}
      BY <3>1, <3>2 DEF Shape, MovingOps
    <3>4. UNCHANGED store
      BY <1>2, <3>3 DEF WorkerStep, Locate, Refuse, CheckMove, Replace, TxRead, TxWrite,
         CheckUndo, UndoReplace, Unlink, Streamed, StreamFails, PersistFails, CleanupPaths, Persist
    <3>5. QED
      BY <2>1, <3>4
  <2>4. QED
    BY <2>2, <2>3
<1>3. ASSUME NEW w \in Workers, Arrive(w)
      PROVE  store'[p] = store[p] /\ p \in used'
  BY <1>1, <1>3 DEF Arrive, Get, UploadStart, AtRest
<1>4. ASSUME NEW q \in Paths, CleanupTemporary(q)
      PROVE  store'[p] = store[p] /\ used' = used
  BY <1>1, <1>4 DEF CleanupTemporary, AtRest, StorageArea
<1>5. QED
  BY <1>2, <1>3, <1>4 DEF Next, Crash, vars, AtRest

\* Nor does an upload begin on it.
LEMMA RestUndisturbed ==
  ASSUME IInv, [Next]_vars, NEW p \in Paths, NEW a, AtRest(p, a), NEW w \in Workers,
         req'[w].op = "upload"
  PROVE  req'[w].path # p
<1>1. TypeOK
  BY DEF IInv
<1>2. ASSUME NEW v \in Workers, WorkerStep(v)
      PROVE  req'[w].path # p
  <2>1. Serves(v) /\ (req'[v] = IdleReq \/ SameFile(v))
    BY <1>2, OwnPath
  <2>2. QED
    BY <2>1 DEF Serves, SameFile, IdleReq, AtRest
<1>3. ASSUME NEW v \in Workers, NEW op \in Operation, NEW i \in FileIds, Get(v, op, i)
      PROVE  req'[w].path # p
  BY <1>1, <1>3 DEF Get, Become, TypeOK, AtRest
<1>4. ASSUME NEW v \in Workers, NEW q \in Paths, UploadStart(v, q)
      PROVE  req'[w].path # p
  BY <1>1, <1>4 DEF UploadStart, Become, TypeOK, AtRest
<1>5. QED
  BY <1>2, <1>3, <1>4 DEF Next, Arrive, CleanupTemporary, Crash, vars, AtRest, IdleReq

\* The file of a row that lies in one place is at rest there.
LEMMA ListedAtRest ==
  ASSUME IInv, NEW i \in FileIds, files[i] # NoRow, NEW a, store[files[i].path] = {a}
  PROVE  files[i] \in Row /\ files[i].path \in Paths /\ AtRest(files[i].path, a)
<1>1. files[i] \in Row /\ files[i].path \in Paths /\ files[i].path \in used
  BY DEF IInv, TypeOK, Row, PathsOnce
<1>2. \A w \in Workers : req[w].op = "upload" => req[w].path # files[i].path
  BY DEF IInv, UploadPrivate
<1>3. QED
  BY <1>1, <1>2 DEF AtRest

BackupState == [pc : {"idle", "database", "storage", "done"}, rows : SUBSET Row,
                sound : SUBSET Row, todo : SUBSET StorageArea,
                pending : SUBSET (Paths \X StorageArea), got : SUBSET (Paths \X StorageArea)]

\* What hangs together in a backup b.
BackupShape(b) ==
    /\ b \in BackupState
    /\ b.pc \in {"idle", "database"} => b.sound = {}
    /\ b.pc = "database" => b.todo = StorageArea /\ b.pending = {} /\ b.got = {}

\* The file with path p is still to be listed, still to be copied or copied by the backup
\* b, from area a and from nowhere else.
Tracked(b, p, a) ==
    /\ \A c \in StorageArea \ {a} : <<p, c>> \notin b.pending \cup b.got
    /\ \/ b.pc = "storage" /\ a \in b.todo
       \/ b.pc = "storage" /\ <<p, a>> \in b.pending
       \/ <<p, a>> \in b.got

\* The files of the rows that were sound are at rest ever since, and tracked.
SoundTracked ==
    \A row \in backup.sound : \E a \in AreaAllowed(row.status) :
        AtRest(row.path, a) /\ Tracked(backup, row.path, a)

\* While a backup runs no operation is asked for that moves a stored file.
QuietWhileCopying == backup.pc # "idle" => NoMoves

BackInv == IInv /\ QuietWhileCopying /\ BackupShape(backup) /\ SoundTracked

\* The requests of a step leave what is in the backup as it is.
LEMMA BackupBesideRequests ==
  ASSUME BackInv, [Next]_vars, QuietWhileCopying', UNCHANGED backup
  PROVE  BackInv'
<1>1. IInv'
  BY NextIInv DEF BackInv
<1>2. ASSUME NEW row \in backup.sound, NEW a \in AreaAllowed(row.status), AtRest(row.path, a)
      PROVE  AtRest(row.path, a)'
  <2>1. row.path \in Paths /\ row.status \in FileStatus
    BY DEF BackInv, BackupShape, BackupState, Row
  <2>2. a \in StorageArea
    BY <2>1, AllowedAreas
  <2>3. NoMoves /\ IInv
    BY DEF BackInv, QuietWhileCopying, BackupShape
  <2>4. store'[row.path] = {a} /\ row.path \in used'
    BY <1>2, <2>1, <2>2, <2>3, RestStays
  <2>5. \A w \in Workers : req'[w].op = "upload" => req'[w].path # row.path
    BY <1>2, <2>1, <2>3, RestUndisturbed
  <2>6. QED
    BY <2>4, <2>5 DEF AtRest
<1>3. SoundTracked'
  BY <1>2 DEF BackInv, SoundTracked
<1>4. QED
  BY <1>1, <1>3 DEF BackInv

\* What is at rest stays so while only the backup goes on.
LEMMA RestKept ==
  ASSUME UNCHANGED vars, NEW p, NEW a, AtRest(p, a)
  PROVE  AtRest(p, a)'
  BY DEF AtRest, vars

\* A step of the backup copies the rows, lists an area or copies a file.
LEMMA BackupProceeds ==
  ASSUME BackInv, BackupStep, QuietWhileCopying'
  PROVE  BackInv'
<1>1. UNCHANGED vars
  BY DEF BackupStep, Begin, BackupSqlite, ListArea, CopyFile, StorageCopied, Finish
<1>2. IInv'
  BY <1>1, NextIInv DEF BackInv
<1>3. SUFFICES BackupShape(backup') /\ SoundTracked'
  BY <1>2 DEF BackInv
<1>4. BackupShape(backup) /\ backup \in BackupState
  BY DEF BackInv, BackupShape
<1>5. ASSUME backup'.sound = backup.sound,
             \A row \in backup.sound : \A a \in AreaAllowed(row.status) :
               AtRest(row.path, a) /\ Tracked(backup, row.path, a) =>
                 Tracked(backup', row.path, a)
      PROVE  SoundTracked'
  BY <1>1, <1>5, RestKept DEF BackInv, SoundTracked
<1>6. CASE backup' = IdleBackup
  BY <1>6 DEF BackupShape, IdleBackup, BackupState, SoundTracked
<1>7. CASE Begin
  <2>1. backup' = [pc |-> "database", rows |-> {}, sound |-> {}, todo |-> StorageArea,
                   pending |-> {}, got |-> {}]
    BY <1>7 DEF Begin, IdleBackup, Order
  <2>2. QED
    BY <2>1 DEF BackupShape, BackupState, SoundTracked
<1>8. CASE BackupSqlite
  <2> DEFINE sound == {row \in TableRows : InOnePlace(row)}
  <2>1. /\ backup.pc = "database"
        /\ backup' = [backup EXCEPT !.pc = "storage", !.rows = TableRows, !.sound = sound]
    BY <1>8 DEF BackupSqlite, After, Order
  <2>2. TableRows \subseteq Row
    BY DEF BackInv, IInv, TypeOK, TableRows
  <2>3. \A row \in sound : \E a \in AreaAllowed(row.status) : AtRest(row.path, a)
    <3>1. SUFFICES ASSUME NEW i \in FileIds, files[i] # NoRow, NEW a \in AreaAllowed(files[i].status),
                          store[files[i].path] = {a}
                   PROVE  AtRest(files[i].path, a)
      BY DEF TableRows, InOnePlace
    <3>2. QED
      BY <3>1, ListedAtRest DEF BackInv
  <2> HIDE DEF sound
  <2>4. /\ backup' \in BackupState /\ backup'.sound = sound /\ backup'.pc = "storage"
        /\ backup'.todo = StorageArea /\ backup'.pending = {} /\ backup'.got = {}
    <3>1. sound \subseteq TableRows
      BY DEF sound
    <3>2. QED
      BY <1>4, <2>1, <2>2, <3>1 DEF BackupState, BackupShape
  <2>5. BackupShape(backup')
    BY <2>4 DEF BackupShape
  <2>6. SoundTracked'
    <3> SUFFICES ASSUME NEW row \in sound
                 PROVE  \E a \in AreaAllowed(row.status) :
                          AtRest(row.path, a)' /\ Tracked(backup', row.path, a)
      BY <2>4 DEF SoundTracked
    <3>1. PICK a \in AreaAllowed(row.status) : AtRest(row.path, a)
      BY <2>3
    <3>2. a \in StorageArea
      <4>1. row \in Row
        BY <2>4 DEF BackupState
      <4>2. QED
        BY <4>1, AllowedAreas DEF Row
    <3>3. QED
      BY <1>1, <2>4, <3>1, <3>2, RestKept DEF Tracked
  <2>7. QED
    BY <2>5, <2>6
<1>9. ASSUME NEW a \in StorageArea, ListArea(a)
      PROVE  BackupShape(backup') /\ SoundTracked'
  <2> DEFINE here == {<<p, a>> : p \in {q \in Paths : a \in store[q]}}
  <2>1. /\ backup.pc = "storage" /\ backup.pending = {}
        /\ backup' = [backup EXCEPT !.todo = @ \ {a}, !.pending = here]
    BY <1>9 DEF ListArea
  <2>2. here \in SUBSET (Paths \X StorageArea)
    OBVIOUS
  <2>3. \A p \in Paths, c \in StorageArea : <<p, c>> \in here <=> c = a /\ a \in store[p]
    OBVIOUS
  <2> HIDE DEF here
  <2>4. /\ backup' \in BackupState /\ backup'.sound = backup.sound /\ backup'.pc = "storage"
        /\ backup'.todo = backup.todo \ {a} /\ backup'.pending = here
        /\ backup'.got = backup.got
    BY <1>4, <2>1, <2>2 DEF BackupState
  <2>5. ASSUME NEW row \in backup.sound, NEW b \in AreaAllowed(row.status),
               AtRest(row.path, b), Tracked(backup, row.path, b)
        PROVE  Tracked(backup', row.path, b)
    <3>1. row.path \in Paths /\ b \in StorageArea
      <4>1. row \in Row
        BY <1>4 DEF BackupState
      <4>2. QED
        BY <4>1, AllowedAreas DEF Row
    <3>2. \A c \in StorageArea : <<row.path, c>> \in here <=> c = a /\ a = b
      BY <2>3, <2>5, <3>1 DEF AtRest
    <3>3. QED
      BY <2>1, <2>4, <2>5, <3>1, <3>2 DEF Tracked
  <2>6. BackupShape(backup')
    BY <2>4 DEF BackupShape
  <2>7. QED
    BY <1>5, <2>4, <2>5, <2>6
<1>10. ASSUME NEW p \in Paths, NEW a \in StorageArea, CopyFile(p, a), backup' # IdleBackup
       PROVE  BackupShape(backup') /\ SoundTracked'
  <2>1. /\ backup.pc = "storage" /\ <<p, a>> \in backup.pending
        /\ backup' = [backup EXCEPT !.pending = @ \ {<<p, a>>}, !.got = @ \cup {<<p, a>>}]
    BY <1>10 DEF CopyFile
  <2>2. /\ backup' \in BackupState /\ backup'.sound = backup.sound /\ backup'.pc = "storage"
        /\ backup'.todo = backup.todo /\ backup'.pending = backup.pending \ {<<p, a>>}
        /\ backup'.got = backup.got \cup {<<p, a>>}
    BY <1>4, <2>1 DEF BackupState
  <2>3. QED
    BY <1>4, <1>5, <2>1, <2>2 DEF BackupShape, Tracked
<1>11. ASSUME StorageCopied
       PROVE  BackupShape(backup') /\ SoundTracked'
  <2>1. /\ backup.pc = "storage" /\ backup.todo = {} /\ backup.pending = {}
        /\ backup' = [backup EXCEPT !.pc = "done"]
    BY <1>11 DEF StorageCopied, After, Order
  <2>2. /\ backup' \in BackupState /\ backup'.sound = backup.sound /\ backup'.pc = "done"
        /\ backup'.todo = backup.todo /\ backup'.pending = backup.pending
        /\ backup'.got = backup.got
    BY <1>4, <2>1 DEF BackupState
  <2>3. QED
    BY <1>4, <1>5, <2>1, <2>2 DEF BackupShape, Tracked
<1>12. QED
  BY <1>6, <1>7, <1>8, <1>9, <1>10, <1>11 DEF BackupStep, Finish

\* The backup is idle beside anything else.
BackupAlone ==
    IF companion = "backup" THEN BackInv ELSE backup = IdleBackup

\* A backup taken while uploads, decisions and removals of records go on, but nothing
\* that moves a stored file, holds the file of every row that was in order when the table
\* was copied: it is copied before the files, and none of them leaves its place after.
THEOREM BackupsAreConsistent ==
  ASSUME OpsBeside["backup"] \cap MovingOps = {}
  PROVE  BesideSpec => []BackupConsistent
<1>1. BesideInit => BackupAlone
  <2> SUFFICES ASSUME BesideInit PROVE BackInv /\ backup = IdleBackup
    BY DEF BackupAlone
  <2>1. IInv /\ backup = IdleBackup
    BY InitIInv DEF BesideInit, CInit, BInit
  <2>2. QED
    BY <2>1 DEF BackInv, QuietWhileCopying, BackupShape, SoundTracked, IdleBackup, BackupState
<1>2. BackupAlone /\ [BesideNext]_besideVars => BackupAlone'
  <2> SUFFICES ASSUME BackupAlone, [BesideNext]_besideVars PROVE BackupAlone'
    OBVIOUS
  <2>1. companion' = companion
    BY DEF BesideNext, besideVars
  <2>2. CASE companion # "backup"
    BY <2>1, <2>2 DEF BackupAlone, BesideNext, RequestsAlone, BesideCleanup, BesideBackup,
       BesideDownload, BesideRepair, BesideVerification, besideVars
  <2>3. ASSUME companion = "backup", BesideNext
        PROVE  QuietWhileCopying'
    BY <2>3 DEF BesideNext, Requested, QuietWhileCopying, NoMoves, MovingOps
  <2>4. CASE companion = "backup" /\ BesideNext /\ BackupStep
    BY <2>1, <2>3, <2>4, BackupProceeds DEF BackupAlone
  <2>5. CASE companion = "backup" /\ BesideNext /\ Next /\ UNCHANGED backup
    BY <2>1, <2>3, <2>5, BackupBesideRequests DEF BackupAlone
  <2>6. CASE companion = "backup" /\ UNCHANGED besideVars
    <3>1. UNCHANGED vars /\ UNCHANGED backup
      BY <2>6 DEF besideVars
    <3>2. QuietWhileCopying'
      BY <2>6, <3>1 DEF BackupAlone, BackInv, QuietWhileCopying, NoMoves, vars
    <3>3. QED
      BY <2>1, <2>6, <3>1, <3>2, BackupBesideRequests DEF BackupAlone
  <2>7. QED
    BY <2>2, <2>4, <2>5, <2>6 DEF BesideNext, RequestsAlone, BesideCleanup, BesideBackup,
       BesideDownload, BesideRepair, BesideVerification, BNext
<1>3. BackupAlone => BackupConsistent
  <2> SUFFICES ASSUME BackupAlone, backup.pc = "done", NEW row \in backup.sound
               PROVE  \E a \in AreaAllowed(row.status) :
                        {b \in StorageArea : <<row.path, b>> \in backup.got} = {a}
    BY DEF BackupConsistent
  <2>1. BackInv
    BY DEF BackupAlone, IdleBackup
  <2>2. PICK a \in AreaAllowed(row.status) : Tracked(backup, row.path, a)
    BY <2>1 DEF BackInv, SoundTracked
  <2>3. a \in StorageArea
    BY <2>1, AllowedAreas DEF BackInv, BackupShape, BackupState, Row
  <2>4. QED
    BY <2>2, <2>3 DEF Tracked
<1>4. QED
  BY <1>1, <1>2, <1>3, PTL DEF BesideSpec

\* In a backup beside requests that are served one after the other, with failures that
\* are undone, every row was sound when the table was copied.
AllSound == backup.sound = backup.rows

BackupInPlace ==
    IF companion = "backup" THEN PInv /\ QuietWhileCopying /\ AllSound
                            ELSE backup = IdleBackup

\* Then a backup holds the files of all its rows: no request leaves a file out of place
\* when it ends, and none of those beside the backup has one out of place meanwhile.
THEOREM BackupsAreWhole ==
  ASSUME Serial, Undone, OpsBeside["backup"] \cap MovingOps = {}
  PROVE  BesideSpec => []AllSound
<1>1. BesideInit => BackupInPlace
  BY PlaceInit DEF BesideInit, CInit, BInit, BackupInPlace, QuietWhileCopying, AllSound, IdleBackup
<1>2. BackupInPlace /\ [BesideNext]_besideVars => BackupInPlace'
  <2> SUFFICES ASSUME BackupInPlace, [BesideNext]_besideVars PROVE BackupInPlace'
    OBVIOUS
  <2>1. companion' = companion
    BY DEF BesideNext, besideVars
  <2>2. CASE companion # "backup"
    BY <2>1, <2>2 DEF BackupInPlace, BesideNext, RequestsAlone, BesideCleanup, BesideBackup,
       BesideDownload, BesideRepair, BesideVerification, besideVars
  <2>3. CASE companion = "backup"
    <3>1. \/ BesideNext /\ BackupStep /\ UNCHANGED vars
          \/ BesideNext /\ [Next]_vars /\ UNCHANGED backup
          \/ UNCHANGED <<vars, backup>>
      BY <2>3 DEF BesideNext, RequestsAlone, BesideCleanup, BesideBackup, BesideDownload,
         BesideRepair, BesideVerification, BNext, besideVars, BackupStep, Begin,
         BackupSqlite, ListArea, CopyFile, StorageCopied, Finish
    <3>2. [Next]_vars
      BY <3>1
    <3>3. PInv /\ QuietWhileCopying /\ AllSound
      BY <2>3 DEF BackupInPlace
    <3>4. PInv'
      <4>1. HInv'
        BY <3>2, <3>3, HeldNext DEF PInv
      <4>2. QED
        BY <3>2, <3>3, <4>1, InPlaceStep, LocatedStep DEF PInv
    <3>5. QuietWhileCopying'
      <4>1. CASE BesideNext
        BY <2>3, <4>1 DEF BesideNext, Requested, QuietWhileCopying, NoMoves, MovingOps
      <4>2. CASE UNCHANGED <<vars, backup>>
        BY <3>3, <4>2 DEF QuietWhileCopying, NoMoves, vars
      <4>3. QED
        BY <3>1, <4>1, <4>2
    <3>6. AllSound'
      <4>1. CASE UNCHANGED backup
        BY <3>3, <4>1 DEF AllSound
      <4>2. CASE BackupSqlite
        <5>1. NoMoves
          BY <3>3, <4>2 DEF QuietWhileCopying, BackupSqlite
        <5>2. ASSUME NEW i \in FileIds, files[i] # NoRow
              PROVE  InOnePlace(files[i])
          <6>1. PICK w : Workers = {w}
            BY DEF Serial
          <6>2. PICK a \in AreaAllowed(files[i].status) :
                  LiesIn(req[w], store[files[i].path], files[i].path, a)
            BY <3>3, <5>2, <6>1 DEF PInv, InPlace
          <6>3. ~Doubt(req[w], files[i].path)
            <7>1. req[w].op = "upload" => req[w].path # files[i].path
              BY <3>3, <5>2, <6>1 DEF PInv, HInv, IInv, UploadPrivate
            <7>2. req[w].op \notin MovingOps
              BY <5>1, <6>1 DEF NoMoves
            <7>3. QED
              BY <7>1, <7>2 DEF Doubt, Moves, MovingOps
          <6>4. QED
            BY <6>2, <6>3 DEF LiesIn, InOnePlace
        <5>3. {row \in TableRows : InOnePlace(row)} = TableRows
          BY <5>2 DEF TableRows
        <5>4. QED
          <6>1. backup' = [backup EXCEPT !.pc = After("database"), !.rows = TableRows,
                                         !.sound = TableRows]
            BY <4>2, <5>3 DEF BackupSqlite
          <6>2. QED
            BY <6>1 DEF AllSound
      <4>3. CASE BackupStep /\ ~BackupSqlite
        <5>1. CASE Begin \/ StorageCopied \/ Finish
          <6>1. CASE Begin
            BY <3>3, <6>1 DEF Begin, AllSound, IdleBackup
          <6>2. CASE StorageCopied
            BY <3>3, <6>2 DEF StorageCopied, AllSound
          <6>3. CASE Finish
            BY <6>3 DEF Finish, AllSound, IdleBackup
          <6>4. QED
            BY <5>1, <6>1, <6>2, <6>3
        <5>2. ASSUME NEW a \in StorageArea, ListArea(a)
              PROVE  AllSound'
          BY <3>3, <5>2 DEF ListArea, AllSound
        <5>3. ASSUME NEW a \in StorageArea, NEW p \in Paths, CopyFile(p, a)
              PROVE  AllSound'
          BY <3>3, <5>3 DEF CopyFile, AllSound, IdleBackup
        <5>4. QED
          BY <4>3, <5>1, <5>2, <5>3 DEF BackupStep
      <4>4. QED
        BY <3>1, <4>1, <4>2, <4>3
    <3>7. QED
      BY <2>1, <2>3, <3>4, <3>5, <3>6 DEF BackupInPlace
  <2>4. QED
    BY <2>2, <2>3
<1>3. BackupInPlace => AllSound
  BY DEF BackupInPlace, AllSound, IdleBackup
<1>4. QED
  BY <1>1, <1>2, <1>3, PTL DEF BesideSpec

-----------------------------------------------------------------------------
(* Downloads *)

ReaderState == [pc : {"idle", "locate", "count", "grant", "blocked"},
                id : FileIds \cup {0}, path : Paths \cup {NoPath}, count : BOOLEAN]

\* What has been shown to the public is approved, and never a file that is still being
\* uploaded; a download past its checks, and one that was served, is of a shown file.
ShownInv ==
    /\ reader \in [Readers -> ReaderState]
    /\ shown \subseteq used
    /\ \A r \in Readers : reader[r].pc \in {"locate", "count", "grant"} => reader[r].path \in shown
    /\ served \subseteq shown
    /\ \A i \in FileIds : files[i].status = "published" => files[i].path \in shown
    /\ \A w \in Workers : req[w].op = "upload" => req[w].path \notin shown
    /\ \A i \in FileIds : files[i].path \in shown =>
         files[i].match /\ files[i].scanner \in {"clean", "unavailable"}

DownInv == HInv /\ ShownInv

\* A download goes on.
LEMMA ReaderSteps ==
  ASSUME DownInv, NEW r \in Readers,
         \/ \E i \in FileIds, isAdmin, sameName, count \in BOOLEAN :
              Authorize(r, i, isAdmin, sameName, count)
         \/ LocateDownload(r) \/ RecordAuthorizedStart(r) \/ RecordBlocked(r)
         \/ NginxServes(r)
  PROVE  ShownInv'
<1> DEFINE q == reader[r]
<1>1. /\ UNCHANGED vars /\ shown' = shown /\ q \in ReaderState /\ reader \in [Readers -> ReaderState]
  BY DEF DownInv, ShownInv, Authorize, LocateDownload, RecordAuthorizedStart, RecordBlocked,
     NginxServes
<1>2. SUFFICES /\ served' \subseteq shown
               /\ \E n \in ReaderState : ReaderBecomes(r, n)
                    /\ (n.pc \in {"locate", "count", "grant"} => n.path \in shown)
  <2>1. PICK n \in ReaderState : ReaderBecomes(r, n)
           /\ (n.pc \in {"locate", "count", "grant"} => n.path \in shown)
    BY <1>2
  <2>2. reader' \in [Readers -> ReaderState]
    BY <1>1, <2>1 DEF ReaderBecomes
  <2>3. \A s \in Readers : reader'[s].pc \in {"locate", "count", "grant"} => reader'[s].path \in shown
    BY <1>1, <2>1 DEF ReaderBecomes, DownInv, ShownInv
  <2>4. QED
    BY <1>1, <1>2, <2>2, <2>3 DEF DownInv, ShownInv, vars
<1>3. IdleReader \in ReaderState /\ IdleReader.pc = "idle" /\ served \subseteq shown
  BY DEF IdleReader, ReaderState, DownInv, ShownInv
<1>4. ASSUME NEW i \in FileIds, NEW isAdmin \in BOOLEAN, NEW sameName \in BOOLEAN,
             NEW count \in BOOLEAN, Authorize(r, i, isAdmin, sameName, count)
      PROVE  /\ served' \subseteq shown
             /\ \E n \in ReaderState : ReaderBecomes(r, n)
                  /\ (n.pc \in {"locate", "count", "grant"} => n.path \in shown)
  <2> DEFINE pc == IF sameName /\ CanDownloadFile(files[i], isAdmin) THEN "locate" ELSE "blocked"
             n == [id |-> i, path |-> files[i].path, count |-> count, pc |-> pc]
  <2>1. ReaderBecomes(r, n) /\ files[i] # NoRow /\ served' = served
    BY <1>4 DEF Authorize
  <2>2. files[i].path \in Paths
    BY <2>1 DEF DownInv, HInv, IInv, TypeOK, Row
  <2>3. n \in ReaderState
    BY <2>2 DEF ReaderState
  <2>4. n.pc \in {"locate", "count", "grant"} => n.path \in shown
    BY DEF CanDownloadFile, DownInv, ShownInv
  <2> HIDE DEF n
  <2>5. QED
    BY <1>3, <2>1, <2>3, <2>4
<1>5. ASSUME NEW pc \in {"count", "grant"}, q.pc \in {"locate", "count"},
             ReaderBecomes(r, [q EXCEPT !.pc = pc]), served' = served
      PROVE  /\ served' \subseteq shown
             /\ \E n \in ReaderState : ReaderBecomes(r, n)
                  /\ (n.pc \in {"locate", "count", "grant"} => n.path \in shown)
  <2> DEFINE n == [q EXCEPT !.pc = pc]
  <2>1. n \in ReaderState /\ n.path = q.path
    BY <1>1 DEF ReaderState
  <2>2. q.path \in shown
    BY <1>5 DEF DownInv, ShownInv
  <2>3. ReaderBecomes(r, n)
    BY <1>5
  <2> HIDE DEF n
  <2>4. QED
    BY <1>3, <1>5, <2>1, <2>2, <2>3
<1>6. CASE LocateDownload(r)
  <2>1. /\ q.pc = "locate" /\ served' = served
        /\ \/ ReaderBecomes(r, IdleReader)
           \/ \E pc \in {"count", "grant"} : ReaderBecomes(r, [q EXCEPT !.pc = pc])
    BY <1>6 DEF LocateDownload
  <2>2. QED
    BY <1>3, <1>5, <2>1
<1>7. CASE RecordAuthorizedStart(r)
  <2>1. /\ q.pc = "count" /\ served' = served
        /\ ReaderBecomes(r, IdleReader) \/ ReaderBecomes(r, [q EXCEPT !.pc = "grant"])
    BY <1>7 DEF RecordAuthorizedStart
  <2>2. QED
    BY <1>3, <1>5, <2>1
<1>8. CASE RecordBlocked(r)
  BY <1>3, <1>8 DEF RecordBlocked
<1>9. CASE NginxServes(r)
  <2>1. q.pc = "grant" /\ ReaderBecomes(r, IdleReader) /\ served' \subseteq served \cup {q.path}
    BY <1>9 DEF NginxServes
  <2>2. q.path \in shown
    BY <2>1 DEF DownInv, ShownInv
  <2>3. QED
    BY <1>3, <2>1, <2>2
<1>10. QED
  BY <1>4, <1>6, <1>7, <1>8, <1>9

\* A step of the administrators shows what it has published.
LEMMA AdministrationStep ==
  ASSUME Serial, DownInv, Administration
  PROVE  DownInv'
<1>1. HInv' /\ IInv /\ IInv' /\ TypeOK' /\ Next
  BY HeldNext DEF Administration, DownInv, HInv, IInv
<1>2. /\ reader' = reader /\ served' = served
      /\ shown' = shown \cup {files'[i].path : i \in {j \in FileIds : files'[j].status = "published"}}
  BY <1>1 DEF Administration
<1>3. used \subseteq used'
  BY <1>1 DEF Next, WorkerStep, Arrive, Get, UploadStart, Locate, Refuse, CheckMove, Replace,
     TxRead, TxWrite, CheckUndo, UndoReplace, Unlink, Streamed, StreamFails, PersistFails,
     CleanupPaths, Persist, CleanupTemporary, Crash
<1>4. \A i \in FileIds : files'[i].status = "published" => files'[i] # NoRow /\ files'[i].path \in used'
  BY <1>1 DEF IInv, PathsOnce, NoRow
<1>5. shown' \subseteq used' /\ served' \subseteq shown' /\ shown \subseteq shown'
  BY <1>2, <1>3, <1>4 DEF DownInv, ShownInv
<1>6. \A w \in Workers : req'[w].op = "upload" => req'[w].path \notin shown'
  <2> SUFFICES ASSUME NEW w \in Workers, req'[w].op = "upload"
               PROVE  req'[w].path \notin shown'
    OBVIOUS
  <2>1. \A i \in FileIds : files'[i].path # req'[w].path
    BY <1>1 DEF IInv, UploadPrivate
  <2>2. req'[w].path \notin shown
    <3>1. ASSUME NEW v \in Workers, WorkerStep(v)
          PROVE  req'[w].path \notin shown
      <4>1. Serves(v) /\ (req'[v] = IdleReq \/ SameFile(v))
        BY <1>1, <3>1, OwnPath
      <4>2. QED
        BY <4>1 DEF Serves, SameFile, IdleReq, DownInv, ShownInv
    <3>2. ASSUME NEW v \in Workers, NEW op \in Operation, NEW i \in FileIds, Get(v, op, i)
          PROVE  req'[w].path \notin shown
      BY <1>1, <3>2 DEF Get, Become, IInv, TypeOK, DownInv, ShownInv
    <3>3. ASSUME NEW v \in Workers, NEW p \in Paths, UploadStart(v, p)
          PROVE  req'[w].path \notin shown
      BY <1>1, <3>3 DEF UploadStart, Become, IInv, TypeOK, DownInv, ShownInv
    <3>4. QED
      BY <1>1, <3>1, <3>2, <3>3 DEF Next, Arrive, CleanupTemporary, Crash, IdleReq, DownInv, ShownInv
  <2>3. QED
    BY <1>2, <2>1, <2>2
<1>7. ASSUME NEW i \in FileIds, files'[i].path \in shown'
      PROVE  files'[i].match /\ files'[i].scanner \in {"clean", "unavailable"}
  <2>1. PublishedApproved'
    BY <1>1 DEF HInv
  <2>2. CASE files'[i].path \in shown
    <3>1. files'[i] # NoRow
      BY <1>1, <2>2, FileAssumption DEF DownInv, ShownInv, IInv, TypeOK, NoRow
    <3>2. files'[i].path = files[i].path /\ files'[i].match = files[i].match
            /\ files'[i].scanner = files[i].scanner
      BY <1>1, <2>2, <3>1, RowIdentity DEF DownInv, ShownInv
    <3>3. QED
      BY <2>2, <3>2 DEF DownInv, ShownInv
  <2>3. CASE files'[i].path \notin shown
    <3>1. PICK j \in FileIds : files'[j].status = "published" /\ files'[j].path = files'[i].path
      BY <1>2, <1>7, <2>3
    <3>2. i = j
      BY <1>1, <1>4, <3>1 DEF IInv, PathsOnce
    <3>3. QED
      BY <2>1, <3>1, <3>2 DEF PublishedApproved
  <2>4. QED
    BY <2>2, <2>3
<1>8. ShownInv'
  <2>1. \A r \in Readers : reader'[r].pc \in {"locate", "count", "grant"} => reader'[r].path \in shown'
    BY <1>2, <1>5 DEF DownInv, ShownInv
  <2>2. \A i \in FileIds : files'[i].status = "published" => files'[i].path \in shown'
    BY <1>2
  <2>3. reader' \in [Readers -> ReaderState]
    BY <1>2 DEF DownInv, ShownInv
  <2>4. QED
    BY <1>5, <1>6, <1>7, <2>1, <2>2, <2>3 DEF ShownInv
<1>9. QED
  BY <1>1, <1>8 DEF DownInv

\* The invariant of downloads beside requests that are served one at a time.
LEMMA DownAlways == ASSUME Serial PROVE DSpec => []DownInv
<1>1. DInit => DownInv
  <2> SUFFICES ASSUME DInit PROVE DownInv
    OBVIOUS
  <2>1. HInv
    BY HeldInit DEF DInit
  <2>2. ShownInv
    BY DEF DInit, Init, ShownInv, ReaderState, IdleReader, NoRow, IdleReq
  <2>3. QED
    BY <2>1, <2>2 DEF DownInv
<1>2. DownInv /\ [DNext]_dvars => DownInv'
  <2> SUFFICES ASSUME DownInv, [DNext]_dvars PROVE DownInv'
    OBVIOUS
  <2>1. CASE Administration
    BY <2>1, AdministrationStep
  <2>2. ASSUME UNCHANGED vars, ShownInv'
        PROVE  DownInv'
    BY <2>2, HeldNext DEF DownInv
  <2>3. CASE ChainChanges \/ Midnight \/ UNCHANGED dvars
    <3>1. /\ UNCHANGED vars /\ reader' = reader /\ shown' = shown /\ served' = served
      BY <2>3 DEF ChainChanges, Midnight, dvars, vars
    <3>2. ShownInv'
      BY <3>1 DEF DownInv, ShownInv, vars
    <3>3. QED
      BY <2>2, <3>1, <3>2
  <2>4. ASSUME NEW r \in Readers,
               \/ \E i \in FileIds, isAdmin, sameName, count \in BOOLEAN :
                    Authorize(r, i, isAdmin, sameName, count)
               \/ LocateDownload(r) \/ RecordAuthorizedStart(r) \/ RecordBlocked(r)
               \/ NginxServes(r)
        PROVE  DownInv'
    <3>1. UNCHANGED vars
      BY <2>4 DEF Authorize, LocateDownload, RecordAuthorizedStart, RecordBlocked, NginxServes
    <3>2. ShownInv'
      BY <2>4, ReaderSteps
    <3>3. QED
      BY <2>2, <3>1, <3>2
  <2>5. QED
    BY <2>1, <2>3, <2>4 DEF DNext
<1>3. QED
  BY <1>1, <1>2, PTL DEF DSpec

\* Whatever happens between the four steps of a download, Nginx sends only files that
\* were published once, and none that their scan or signature condemn.
THEOREM DownloadsArePublished == ASSUME Serial PROVE DSpec => []ServesOnlyPublished
<1>1. DownInv => ServesOnlyPublished
  BY DEF DownInv, ShownInv, ServesOnlyPublished
<1>2. QED
  BY <1>1, DownAlways, PTL

-----------------------------------------------------------------------------
(* The counters of a download *)

\* The counters of a file.
Stats == [total : Nat, started : [Days -> Nat], blocked : [Days -> Nat]]

\* The counters are numbers, one for each day, and the total is the sum of the days.
CountersInv ==
    /\ day \in Days
    /\ stats \in [FileIds -> Stats]
    /\ \A i \in FileIds : stats[i].total = SumOf(stats[i].started, Days)

\* What the model sums is the sum of the lemmas.
LEMMA StartedSum ==
  \A i : MapThenSumSet(LAMBDA d : stats[i].started[d], Days) = SumOf(stats[i].started, Days)
BY DEF MapThenSumSet, MapThenFoldSet, SumOf, SumRule, Chosen

\* There are finitely many days.
LEMMA DaysAreFinite == IsFiniteSet(Days)
BY DownloadAssumption, FS_Interval DEF Days

\* A file without downloads has the right counters.
LEMMA NoStatsAgree == NoStats \in Stats /\ NoStats.total = SumOf(NoStats.started, Days)
<1>1. NoStats \in Stats /\ NoStats.total = 0
  BY DEF NoStats, Stats
<1>2. \A d \in Days : NoStats.started[d] = 0
  BY DEF NoStats
<1>3. SumOf(NoStats.started, Days) = 0
  BY <1>2, DaysAreFinite, SumIsNatural
<1>4. QED
  BY <1>1, <1>3

\* A start that is counted adds one to the total and one to its day.
LEMMA StartAgrees ==
  ASSUME NEW s \in Stats, s.total = SumOf(s.started, Days), NEW d \in Days,
         NEW t, t = [s EXCEPT !.total = @ + 1, !.started[d] = @ + 1]
  PROVE  t \in Stats /\ t.total = SumOf(t.started, Days)
<1>0. /\ s.total \in Nat /\ s.started \in [Days -> Nat] /\ s.blocked \in [Days -> Nat]
      /\ t = [total |-> s.total + 1, started |-> [s.started EXCEPT ![d] = @ + 1],
              blocked |-> s.blocked]
  BY DEF Stats
<1>1. t \in Stats /\ t.total = s.total + 1
  <2>1. [s.started EXCEPT ![d] = @ + 1] \in [Days -> Nat] /\ s.total + 1 \in Nat
    BY <1>0
  <2>2. QED
    BY <1>0, <2>1 DEF Stats
<1> DEFINE f == s.started
           g == t.started
<1>2. \A x \in Days : f[x] \in Int
  BY <1>0
<1>3. \A x \in Days : g[x] = IF x = d THEN f[x] + 1 ELSE f[x]
  BY <1>0
<1>4. SumOf(g, Days) = SumOf(f, Days) + 1
  <2> HIDE DEF f, g
  <2>1. SumOf(g, Days) = SumOf(f, Days) + (IF d \in Days THEN 1 ELSE 0)
    BY <1>2, <1>3, DaysAreFinite, SumMoves
  <2>2. QED
    BY <2>1
<1>5. QED
  BY <1>1, <1>4

\* The counters agree at first, and every step leaves them so.
LEMMA CountersAlways == DSpec => []CountersInv
<1>1. DInit => CountersInv
  <2> SUFFICES ASSUME DInit PROVE CountersInv
    OBVIOUS
  <2>1. day \in Days /\ stats = [i \in FileIds |-> NoStats]
    BY DownloadAssumption DEF DInit, Days
  <2>2. QED
    BY <2>1, NoStatsAgree DEF CountersInv
<1>2. CountersInv /\ [DNext]_dvars => CountersInv'
  <2> SUFFICES ASSUME CountersInv, [DNext]_dvars PROVE CountersInv'
    OBVIOUS
  <2>1. /\ day \in Days /\ stats \in [FileIds -> Stats]
        /\ \A i \in FileIds : stats[i].total = SumOf(stats[i].started, Days)
    BY DEF CountersInv
  <2>2. ASSUME day' \in Days, stats' \in [FileIds -> Stats],
               \A i \in FileIds : \/ stats'[i] = stats[i]
                                  \/ stats'[i].total = SumOf(stats'[i].started, Days)
        PROVE  CountersInv'
    BY <2>1, <2>2 DEF CountersInv, Days
  <2>3. CASE Administration
    <3>1. stats' = CascadedStats /\ day' = day
      BY <2>3 DEF Administration
    <3>2. \A i \in FileIds : stats'[i] = NoStats \/ stats'[i] = stats[i]
      BY <3>1 DEF CascadedStats
    <3>3. stats' \in [FileIds -> Stats]
      BY <2>1, <3>1, NoStatsAgree DEF CascadedStats
    <3>4. QED
      BY <2>1, <2>2, <3>1, <3>2, <3>3, NoStatsAgree
  <2>4. CASE ChainChanges \/ UNCHANGED dvars
    BY <2>1, <2>2, <2>4 DEF ChainChanges, dvars
  <2>5. CASE Midnight
    BY <2>1, <2>2, <2>5, DownloadAssumption DEF Midnight, Days
  <2>6. ASSUME NEW r \in Readers, NEW i \in FileIds, NEW isAdmin \in BOOLEAN,
               NEW sameName \in BOOLEAN, NEW count \in BOOLEAN,
               Authorize(r, i, isAdmin, sameName, count)
        PROVE  CountersInv'
    BY <2>1, <2>2, <2>6 DEF Authorize
  <2>7. ASSUME NEW r \in Readers, LocateDownload(r) \/ NginxServes(r)
        PROVE  CountersInv'
    BY <2>1, <2>2, <2>7 DEF LocateDownload, NginxServes
  <2>8. ASSUME NEW r \in Readers, RecordAuthorizedStart(r)
        PROVE  CountersInv'
    <3> DEFINE i == reader[r].id
               t == [stats[i] EXCEPT !.total = @ + 1, !.started[day] = @ + 1]
    <3>1. day' = day
      BY <2>8 DEF RecordAuthorizedStart
    <3>2. CASE UNCHANGED stats
      BY <2>1, <2>2, <3>1, <3>2
    <3>3. CASE stats' = [stats EXCEPT ![i] = t]
      <4>1. CASE i \in FileIds
        <5>1. stats[i] \in Stats /\ stats[i].total = SumOf(stats[i].started, Days)
          BY <2>1, <4>1
        <5>2. t \in Stats /\ t.total = SumOf(t.started, Days)
          BY <2>1, <5>1, StartAgrees
        <5> HIDE DEF t, i
        <5>3. QED
          BY <2>1, <2>2, <3>1, <3>3, <4>1, <5>2
      <4>2. CASE i \notin FileIds
        <5> HIDE DEF t, i
        <5>1. stats' = stats
          BY <2>1, <3>3, <4>2
        <5>2. QED
          BY <2>1, <2>2, <3>1, <5>1
      <4>3. QED
        BY <4>1, <4>2
    <3>4. QED
      BY <2>8, <3>2, <3>3 DEF RecordAuthorizedStart
  <2>9. ASSUME NEW r \in Readers, RecordBlocked(r)
        PROVE  CountersInv'
    <3>1. day' = day
      BY <2>9 DEF RecordBlocked
    <3>2. UNCHANGED stats \/ stats' = [stats EXCEPT ![reader[r].id].blocked[day] = @ + 1]
      BY <2>9 DEF RecordBlocked
    <3>3. stats' \in [FileIds -> Stats]
      <4> DEFINE i == reader[r].id
                 t == [stats[i] EXCEPT !.blocked[day] = @ + 1]
      <4>1. i \in FileIds => t \in Stats
        <5>1. i \in FileIds => /\ stats[i] \in Stats
                               /\ t = [total |-> stats[i].total, started |-> stats[i].started,
                                       blocked |-> [stats[i].blocked EXCEPT ![day] = @ + 1]]
          BY <2>1 DEF Stats
        <5> HIDE DEF t, i
        <5>2. QED
          BY <2>1, <5>1 DEF Stats
      <4>2. UNCHANGED stats \/ stats' = [stats EXCEPT ![i] = t]
        BY <3>2
      <4> HIDE DEF t, i
      <4>3. QED
        BY <2>1, <4>1, <4>2
    <3>4. \A i \in FileIds : /\ stats'[i].total = stats[i].total
                             /\ stats'[i].started = stats[i].started
      BY <2>1, <3>2 DEF Stats
    <3>5. QED
      BY <2>1, <2>2, <3>1, <3>3, <3>4
  <2>10. QED
    BY <2>3, <2>4, <2>5, <2>6, <2>7, <2>8, <2>9 DEF DNext
<1>3. QED
  BY <1>1, <1>2, PTL DEF DSpec

\* Whatever happens between the steps of a download, its row deleted or its id given out
\* again, the total of a file is the sum of its days (DownloadService.record_authorized_start,
\* ON DELETE CASCADE).
THEOREM CountersAlwaysAgree == DSpec => []CountersAgree
<1>1. CountersInv => CountersAgree
  BY StartedSum DEF CountersInv, CountersAgree
<1>2. QED
  BY <1>1, CountersAlways, PTL

-----------------------------------------------------------------------------
(* A checksum repair beside the requests *)

\* Among numbers with a bound, one is the largest.
LEMMA LargestOf ==
  ASSUME NEW n \in Nat, NEW S \in SUBSET (0..n), S # {}
  PROVE  Max(S) \in S /\ \A i \in S : i <= Max(S)
<1> DEFINE T == {n - i : i \in S}
<1>1. T \in SUBSET Nat /\ T # {}
  <2>1. \A i \in S : n - i \in Nat
    OBVIOUS
  <2>2. QED
    BY <2>1
<1>2. PICK k \in T : \A m \in T : k <= m
  BY <1>1, SmallestOf
<1>3. PICK j \in S : k = n - j
  BY <1>2
<1>4. \A i \in S : j >= i
  <2>1. SUFFICES ASSUME NEW i \in S PROVE j >= i
    OBVIOUS
  <2>2. k <= n - i
    BY <1>2
  <2>3. QED
    BY <1>3, <2>2
<1>5. QED
  BY <1>4 DEF Max

\* The rows of a loop come one by one.
LEMMA FirstIsOne ==
  ASSUME NEW rows, rows # {}, \A r \in rows : r.id \in Nat
  PROVE  First(rows) \in rows
<1>1. {r.id : r \in rows} \in SUBSET Nat /\ {r.id : r \in rows} # {}
  OBVIOUS
<1>2. PICK k \in {r.id : r \in rows} : \A m \in {r.id : r \in rows} : k <= m
  BY <1>1, SmallestOf
<1>3. QED
  BY <1>2 DEF First

\* A file that is written gets a stamp within the bound.
LEMMA StampBound ==
  ASSUME bytes \in [Paths -> Bytes], NEW p \in Paths, NextStamp <= MaxStamp
  PROVE  NextStamp \in 0..MaxStamp
<1> DEFINE S == {bytes[q].stamp : q \in Paths}
<1>1. S \in SUBSET (0..MaxStamp) /\ S # {}
  BY DEF Bytes
<1>2. Max(S) \in S
  BY <1>1, LargestOf, RepairAssumption
<1>3. Max(S) \in 0..MaxStamp
  BY <1>1, <1>2
<1>4. QED
  BY <1>3, RepairAssumption DEF NextStamp

RepairState == [pc : {"idle", "inspect", "load", "flush", "done"}, dry : BOOLEAN,
                include : BOOLEAN, todo : SUBSET SnapshotRow, changes : SUBSET Change,
                loaded : SUBSET Change, flushed : SUBSET Change]

\* A request has a checksum, and as long as the repair holds the write lock the rows it
\* has updated are there.
RepairTyped ==
    /\ IInv
    /\ RTypeOK
    /\ repair \in RepairState
    /\ \A w \in Workers : req[w].pc # "idle" => want[w] \in Contents
    /\ \A c \in repair.flushed : files[c.id] # NoRow

\* A step of the repair keeps its state what it is, and writes checksums of rows.
LEMMA RepairStepTypes ==
  ASSUME RepairTyped, RepairStep, UNCHANGED vars
  PROVE  /\ repair' \in RepairState
         /\ sums' \in [FileIds -> Contents \cup {NoSum}]
         /\ \A i \in FileIds : sums'[i] = NoSum <=> files[i] = NoRow
         /\ \A c \in repair'.flushed : files[c.id] # NoRow
         /\ UNCHANGED <<bytes, want>>
<1>1. /\ repair \in RepairState /\ files \in [FileIds -> Row \cup {NoRow}]
      /\ bytes \in [Paths -> Bytes] /\ sums \in [FileIds -> Contents \cup {NoSum}]
      /\ \A i \in FileIds : sums[i] = NoSum <=> files[i] = NoRow
      /\ \A c \in repair.flushed : files[c.id] # NoRow
  BY DEF RepairTyped, RTypeOK, TypeOK
<1>2. UNCHANGED <<bytes, want>>
  BY DEF RepairStep, TakeSnapshot, Inspect, Inspected, Load, Flush, Commit, RepairDone
<1>3. CASE UNCHANGED sums /\ repair' = IdleRepair
  BY <1>1, <1>2, <1>3 DEF IdleRepair, RepairState
<1>4. ASSUME NEW dry \in BOOLEAN, NEW include \in BOOLEAN, TakeSnapshot(dry, include)
      PROVE  repair' \in RepairState /\ repair'.flushed = {} /\ UNCHANGED sums
  <2> DEFINE row(i) == [id |-> i, path |-> files[i].path, status |-> files[i].status,
                        sum |-> sums[i]]
             todo == {row(i) : i \in {j \in FileIds : files[j] # NoRow}}
  <2>1. \A i \in {j \in FileIds : files[j] # NoRow} : row(i) \in SnapshotRow
    BY <1>1 DEF SnapshotRow, Row
  <2>2. todo \in SUBSET SnapshotRow
    BY <2>1
  <2>3. repair' = [IdleRepair EXCEPT !.pc = "inspect", !.dry = dry, !.include = include,
                                     !.todo = todo]
    BY <1>4 DEF TakeSnapshot
  <2> HIDE DEF todo
  <2>4. QED
    BY <1>4, <2>2, <2>3 DEF IdleRepair, RepairState, TakeSnapshot
<1>5. CASE Inspect
  <2> DEFINE row == First(repair.todo)
             change == [id |-> row.id, content |-> bytes[row.path].content,
                        stamp |-> bytes[row.path].stamp]
  <2>1. row \in SnapshotRow
    <3>1. repair.todo # {} /\ repair.todo \subseteq SnapshotRow
      BY <1>1, <1>5 DEF Inspect, RepairState
    <3>2. \A r \in repair.todo : r.id \in Nat
      BY <3>1 DEF SnapshotRow, FileIds
    <3>3. QED
      BY <3>1, <3>2, FirstIsOne
  <2>2. change \in Change
    BY <1>1, <2>1 DEF SnapshotRow, Change, Bytes
  <2>3. repair' = [repair EXCEPT !.todo = @ \ {row},
                     !.changes = IF ToRepair(row) THEN @ \cup {change} ELSE @]
    BY <1>5 DEF Inspect
  <2> HIDE DEF row, change
  <2> DEFINE rest == repair.todo \ {row}
             more == IF ToRepair(row) THEN repair.changes \cup {change} ELSE repair.changes
  <2>4. rest \in SUBSET SnapshotRow /\ more \in SUBSET Change
    BY <1>1, <2>2 DEF RepairState
  <2>5. repair' = [repair EXCEPT !.todo = rest, !.changes = more]
    BY <2>3
  <2> HIDE DEF rest, more
  <2>6. repair' \in RepairState /\ repair'.flushed = repair.flushed
    BY <1>1, <2>4, <2>5 DEF RepairState
  <2>7. UNCHANGED sums
    BY <1>5 DEF Inspect
  <2>8. QED
    BY <1>1, <1>2, <2>6, <2>7
<1>6. CASE Inspected
  <2>1. repair' \in RepairState /\ repair'.flushed = repair.flushed /\ UNCHANGED sums
    BY <1>1, <1>6 DEF RepairState, Inspected
  <2>2. QED
    BY <1>1, <1>2, <2>1
<1>7. CASE Load
  <2> DEFINE c == First(repair.changes)
  <2>1. c \in Change
    <3>1. repair.changes # {} /\ repair.changes \subseteq Change
      BY <1>1, <1>7 DEF Load, RepairState
    <3>2. \A r \in repair.changes : r.id \in Nat
      BY <3>1 DEF Change, FileIds
    <3>3. QED
      BY <3>1, <3>2, FirstIsOne
  <2>2. \/ repair' = [repair EXCEPT !.changes = @ \ {c}, !.loaded = {c}, !.pc = "flush"]
        \/ repair' = [repair EXCEPT !.changes = @ \ {c}]
    BY <1>7 DEF Load
  <2> HIDE DEF c
  <2> DEFINE rest == repair.changes \ {c}
  <2>3. rest \in SUBSET Change /\ {c} \in SUBSET Change
    BY <1>1, <2>1 DEF RepairState
  <2>4. \/ repair' = [repair EXCEPT !.changes = rest, !.loaded = {c}, !.pc = "flush"]
        \/ repair' = [repair EXCEPT !.changes = rest]
    BY <2>2
  <2> HIDE DEF rest
  <2>5. CASE repair' = [repair EXCEPT !.changes = rest]
    <3>1. repair' \in RepairState /\ repair'.flushed = repair.flushed
      BY <1>1, <2>3, <2>5 DEF RepairState
    <3>2. QED
      BY <1>1, <1>2, <1>7, <3>1 DEF Load
  <2>6. CASE repair' = [repair EXCEPT !.changes = rest, !.loaded = {c}, !.pc = "flush"]
    <3>1. repair' \in RepairState /\ repair'.flushed = repair.flushed
      BY <1>1, <2>3, <2>6 DEF RepairState
    <3>2. QED
      BY <1>1, <1>2, <1>7, <3>1 DEF Load
  <2>7. QED
    BY <2>4, <2>5, <2>6
<1>8. CASE Flush /\ repair' # IdleRepair
  <2>1. /\ \A c \in repair.loaded : files[c.id] # NoRow
        /\ repair' = [repair EXCEPT !.pc = "load", !.loaded = {},
                                    !.flushed = @ \cup repair.loaded]
        /\ UNCHANGED sums
    BY <1>8 DEF Flush
  <2>2. repair' \in RepairState /\ repair'.flushed = repair.flushed \cup repair.loaded
    BY <1>1, <2>1 DEF RepairState
  <2>3. QED
    BY <1>1, <1>2, <2>1, <2>2
<1>9. CASE Commit /\ repair' # IdleRepair
  <2> DEFINE of(i) == CHOOSE c \in repair.flushed : c.id = i
  <2>1. /\ sums' = [i \in FileIds |-> IF \E c \in repair.flushed : c.id = i
                                      THEN of(i).content ELSE sums[i]]
        /\ repair' = [repair EXCEPT !.pc = "done", !.flushed = {}]
    BY <1>9 DEF Commit
  <2>2. \A i \in FileIds : (\E c \in repair.flushed : c.id = i) =>
          of(i).content \in Contents /\ files[i] # NoRow
    <3>1. SUFFICES ASSUME NEW i \in FileIds, \E c \in repair.flushed : c.id = i
                   PROVE  of(i).content \in Contents /\ files[i] # NoRow
      OBVIOUS
    <3>2. of(i) \in repair.flushed /\ of(i).id = i
      BY <3>1
    <3> HIDE DEF of
    <3>3. QED
      BY <1>1, <3>2 DEF RepairState, Change
  <2> HIDE DEF of
  <2>3. repair' \in RepairState /\ repair'.flushed = {}
    BY <1>1, <2>1 DEF RepairState
  <2>4. sums' \in [FileIds -> Contents \cup {NoSum}]
    BY <1>1, <2>1, <2>2
  <2>5. \A i \in FileIds : sums'[i] = NoSum <=> files[i] = NoRow
    <3>1. SUFFICES ASSUME NEW i \in FileIds PROVE sums'[i] = NoSum <=> files[i] = NoRow
      OBVIOUS
    <3>2. CASE \E c \in repair.flushed : c.id = i
      <4>1. sums'[i] \in Contents /\ files[i] # NoRow
        BY <2>1, <2>2, <3>2
      <4>2. QED
        BY <4>1, RepairAssumption
    <3>3. CASE ~ \E c \in repair.flushed : c.id = i
      BY <1>1, <2>1, <3>3
    <3>4. QED
      BY <3>2, <3>3
  <2>6. QED
    BY <1>1, <1>2, <2>3, <2>4, <2>5
<1>10. CASE RepairDone
  BY <1>1, <1>3, <1>10 DEF RepairDone
<1>11. ASSUME repair' = IdleRepair PROVE UNCHANGED sums
  BY <1>11 DEF RepairStep, TakeSnapshot, Inspect, Inspected, Load, Flush, Commit, RepairDone,
     IdleRepair
<1>12. QED
  BY <1>1, <1>2, <1>3, <1>4, <1>5, <1>6, <1>7, <1>8, <1>9, <1>10, <1>11 DEF RepairStep

\* What a request does with the bytes and checksums beside its step.
LEMMA RequestStepTypes ==
  ASSUME RepairTyped, IInv', NEW w \in Workers,
         GetRow(w) \/ StreamUpload(w) \/ LocateFile(w) \/ DiskStep(w) \/ WriteRow(w)
  PROVE  /\ bytes' \in [Paths -> Bytes]
         /\ sums' \in [FileIds -> Contents \cup {NoSum}]
         /\ \A i \in FileIds : sums'[i] = NoSum <=> files'[i] = NoRow
         /\ want' \in [Workers -> Contents \cup {NoSum}]
         /\ \A v \in Workers : req'[v].pc # "idle" => want'[v] \in Contents
         /\ Locked => UNCHANGED files
<1>1. /\ IInv /\ TypeOK /\ req \in [Workers -> Request]
      /\ files \in [FileIds -> Row \cup {NoRow}]
      /\ bytes \in [Paths -> Bytes] /\ sums \in [FileIds -> Contents \cup {NoSum}]
      /\ want \in [Workers -> Contents \cup {NoSum}]
      /\ \A i \in FileIds : sums[i] = NoSum <=> files[i] = NoRow
      /\ \A v \in Workers : req[v].pc # "idle" => want[v] \in Contents
  BY DEF RepairTyped, RTypeOK, TypeOK
<1>2. ASSUME WorkerStep(w), Forget(w)
      PROVE  /\ want' \in [Workers -> Contents \cup {NoSum}]
             /\ \A v \in Workers : req'[v].pc # "idle" => want'[v] \in Contents
  <2>1. Serves(w) /\ req[w].pc # "idle"
    BY <1>1, <1>2, OwnPath
  <2>2. want' = [want EXCEPT ![w] = IF req'[w] = IdleReq THEN NoSum ELSE want[w]]
    BY <1>2 DEF Forget
  <2>3. QED
    BY <1>1, <2>1, <2>2 DEF Serves, IdleReq
<1>3. CASE GetRow(w)
  <2>1. PICK op \in Operation, i \in FileIds :
           Get(w, op, i) /\ want' = [want EXCEPT ![w] = sums[i]]
    BY <1>3 DEF GetRow
  <2>2. files[i] # NoRow /\ UNCHANGED <<files, bytes, sums>>
    BY <1>3, <2>1 DEF GetRow, Get
  <2>3. sums[i] \in Contents
    BY <1>1, <2>2
  <2>4. \A v \in Workers \ {w} : req'[v] = req[v]
    BY <1>1, <2>1 DEF Get, Become
  <2>5. QED
    BY <1>1, <2>1, <2>2, <2>3, <2>4
<1>4. CASE StreamUpload(w)
  <2>1. PICK p \in Paths, c \in Contents :
           /\ UploadStart(w, p)
           /\ bytes' = [bytes EXCEPT ![p] = [content |-> c, stamp |-> NextStamp]]
           /\ want' = [want EXCEPT ![w] = c]
    BY <1>4 DEF StreamUpload
  <2>2. NextStamp <= MaxStamp /\ UNCHANGED <<files, sums>>
    BY <1>4, <2>1 DEF StreamUpload, UploadStart
  <2>3. [content |-> c, stamp |-> NextStamp] \in Bytes
    BY <1>1, <2>2, StampBound DEF Bytes
  <2>4. \A v \in Workers \ {w} : req'[v] = req[v]
    BY <1>1, <2>1 DEF UploadStart, Become
  <2> HIDE DEF NextStamp
  <2>5. bytes' \in [Paths -> Bytes]
    BY <1>1, <2>1, <2>3
  <2>6. QED
    BY <1>1, <2>1, <2>2, <2>4, <2>5
<1>5. CASE LocateFile(w)
  BY <1>1, <1>2, <1>5 DEF LocateFile, WorkerStep, Locate
<1>6. CASE DiskStep(w)
  <2>1. WorkerStep(w) /\ Forget(w) /\ UNCHANGED <<files, bytes, sums>>
    BY <1>6 DEF DiskStep, WorkerStep, Refuse, CheckMove, Replace, TxRead, CheckUndo,
       UndoReplace, Unlink, Streamed, StreamFails, PersistFails, CleanupPaths
  <2>2. QED
    BY <1>1, <1>2, <2>1
<1>7. CASE WriteRow(w)
  <2>1. WorkerStep(w) /\ Forget(w) /\ ~Locked /\ UNCHANGED bytes
    BY <1>7 DEF WriteRow, WorkerStep
  <2>2. /\ sums' \in [FileIds -> Contents \cup {NoSum}]
        /\ \A i \in FileIds : sums'[i] = NoSum <=> files'[i] = NoRow
    <3>1. CASE TxWrite(w) /\ sums' = [i \in FileIds |-> IF files'[i] = NoRow THEN NoSum ELSE sums[i]]
      <4>1. \A i \in FileIds : files[i] = NoRow => files'[i] = NoRow
        <5>1. \/ UNCHANGED files
              \/ files' = [files EXCEPT ![req[w].id] = NoRow]
              \/ /\ files[req[w].id] # NoRow
                 /\ files' = [files EXCEPT ![req[w].id].status = Target(req[w].op)]
          BY <3>1 DEF TxWrite
        <5>2. QED
          BY <1>1, <5>1
      <4>2. QED
        BY <1>1, <3>1, <4>1
    <3>2. ASSUME NEW i \in FileIds, NEW scan \in ScanResults,
                 Persist(w, i, scan), sums' = [sums EXCEPT ![i] = want[w]]
          PROVE  /\ sums' \in [FileIds -> Contents \cup {NoSum}]
                 /\ \A k \in FileIds : sums'[k] = NoSum <=> files'[k] = NoRow
      <4>1. /\ req[w].pc = "scan"
            /\ files' = [files EXCEPT ![i] = [path |-> req[w].path,
                           status |-> InitialStatus(scan), scanner |-> scan.scanner,
                           match |-> scan.match]]
        BY <3>2 DEF Persist
      <4>2. want[w] \in Contents /\ want[w] # NoSum
        BY <1>1, <4>1, RepairAssumption
      <4>3. req[w].path # NoPath
        BY <1>1, <4>1, FileAssumption DEF IInv, ReqShape, Shape, TypeOK
      <4>4. files'[i] # NoRow /\ \A k \in FileIds \ {i} : files'[k] = files[k]
        BY <1>1, <4>1, <4>3 DEF NoRow
      <4>5. QED
        BY <1>1, <3>2, <4>2, <4>4
    <3>3. QED
      BY <1>7, <3>1, <3>2 DEF WriteRow
  <2>3. QED
    BY <1>1, <1>2, <2>1, <2>2
<1>8. QED
  BY <1>3, <1>4, <1>5, <1>6, <1>7

\* Every step of the application keeps the types of what the repair works on.
LEMMA RepairTypedStep ==
  ASSUME RepairTyped, [RNext]_rvars
  PROVE  RepairTyped'
<1>1. CASE UNCHANGED rvars
  BY <1>1 DEF rvars, RepairTyped, RTypeOK, IInv, TypeOK, ReqShape, Shape, PathsOnce, SingleCopy,
     OwnRow, UploadPrivate, UnlinkUnlisted, RowHasBytes
<1>2. CASE RNext
  <2>1. IInv'
    BY <1>2, RequestsBesideRepair, NextIInv DEF RepairTyped
  <2>2. /\ repair \in RepairState /\ bytes \in [Paths -> Bytes] /\ calm \subseteq FileIds
        /\ sums \in [FileIds -> Contents \cup {NoSum}]
        /\ want \in [Workers -> Contents \cup {NoSum}]
        /\ \A i \in FileIds : sums[i] = NoSum <=> files[i] = NoRow
        /\ \A w \in Workers : req[w].pc # "idle" => want[w] \in Contents
        /\ \A c \in repair.flushed : files[c.id] # NoRow
    BY DEF RepairTyped, RTypeOK
  <2>3. /\ repair' \in RepairState /\ bytes' \in [Paths -> Bytes]
        /\ sums' \in [FileIds -> Contents \cup {NoSum}]
        /\ want' \in [Workers -> Contents \cup {NoSum}]
        /\ \A i \in FileIds : sums'[i] = NoSum <=> files'[i] = NoRow
        /\ \A w \in Workers : req'[w].pc # "idle" => want'[w] \in Contents
        /\ \A c \in repair'.flushed : files'[c.id] # NoRow
    <3>1. CASE RepairStep /\ UNCHANGED vars
      BY <2>2, <3>1, RepairStepTypes DEF vars
    <3>2. ASSUME NEW w \in Workers, UNCHANGED repair,
                 GetRow(w) \/ StreamUpload(w) \/ LocateFile(w) \/ DiskStep(w) \/ WriteRow(w)
          PROVE  /\ repair' \in RepairState /\ bytes' \in [Paths -> Bytes]
                 /\ sums' \in [FileIds -> Contents \cup {NoSum}]
                 /\ want' \in [Workers -> Contents \cup {NoSum}]
                 /\ \A i \in FileIds : sums'[i] = NoSum <=> files'[i] = NoRow
                 /\ \A v \in Workers : req'[v].pc # "idle" => want'[v] \in Contents
                 /\ \A c \in repair'.flushed : files'[c.id] # NoRow
      <4>1. /\ bytes' \in [Paths -> Bytes]
            /\ sums' \in [FileIds -> Contents \cup {NoSum}]
            /\ want' \in [Workers -> Contents \cup {NoSum}]
            /\ \A i \in FileIds : sums'[i] = NoSum <=> files'[i] = NoRow
            /\ \A v \in Workers : req'[v].pc # "idle" => want'[v] \in Contents
            /\ Locked => UNCHANGED files
        BY <2>1, <3>2, RequestStepTypes
      <4>2. \A c \in repair'.flushed : files'[c.id] # NoRow
        BY <2>2, <3>2, <4>1 DEF Locked
      <4>3. QED
        BY <2>2, <3>2, <4>1, <4>2
    <3>3. CASE \E p \in Paths : CleanupTemporary(p) /\ UNCHANGED <<bytes, sums, want, repair>>
      BY <2>2, <3>3 DEF CleanupTemporary
    <3>4. ASSUME NEW p \in Paths, Rewrite(p)
          PROVE  bytes' \in [Paths -> Bytes] /\ UNCHANGED <<files, req, sums, want, repair>>
      <4>1. PICK c \in Contents :
               bytes' = [bytes EXCEPT ![p] = [content |-> c, stamp |-> NextStamp]]
        BY <3>4 DEF Rewrite
      <4>2. NextStamp <= MaxStamp
        BY <3>4 DEF Rewrite
      <4>3. [content |-> c, stamp |-> NextStamp] \in Bytes
        BY <2>2, <4>2, StampBound DEF Bytes
      <4> HIDE DEF NextStamp
      <4>4. bytes' \in [Paths -> Bytes]
        BY <2>2, <4>1, <4>3
      <4>5. QED
        BY <3>4, <4>4 DEF Rewrite, vars
    <3>5. CASE StopAll
      <4>1. /\ \A w \in Workers : req'[w].pc = "idle"
            /\ want' = [w \in Workers |-> NoSum] /\ repair' = IdleRepair
            /\ UNCHANGED <<files, bytes, sums>>
        BY <3>5 DEF StopAll, Crash, IdleReq
      <4>2. repair' \in RepairState /\ repair'.flushed = {}
        BY <4>1 DEF IdleRepair, RepairState
      <4>3. QED
        BY <2>2, <4>1, <4>2
    <3>6. QED
      BY <1>2, <2>2, <3>1, <3>2, <3>3, <3>4, <3>5 DEF RNext
  <2>4. calm' \subseteq FileIds
    BY <1>2, <2>2, <2>3 DEF RNext, StillCalm, RepairState, SnapshotRow
  <2>5. RTypeOK'
    BY <2>1, <2>3, <2>4 DEF IInv, RTypeOK, RepairState
  <2>6. QED
    BY <2>1, <2>3, <2>5 DEF RepairTyped
<1>3. QED
  BY <1>1, <1>2

\* The types hold from the first state on.
LEMMA RepairTypedInit == RInit => RepairTyped
<1> SUFFICES ASSUME RInit PROVE RepairTyped
  OBVIOUS
<1>1. IInv /\ TypeOK /\ \A i \in FileIds : files[i] = NoRow
  BY InitIInv DEF RInit, Init, IInv
<1>2. bytes \in [Paths -> Bytes]
  BY RepairAssumption DEF RInit, Bytes
<1>3. \A w \in Workers : req[w].pc = "idle"
  BY DEF RInit, Init, IdleReq
<1>4. repair \in RepairState /\ repair.flushed = {}
  BY DEF RInit, IdleRepair, RepairState
<1>5. sums \in [FileIds -> Contents \cup {NoSum}] /\ want \in [Workers -> Contents \cup {NoSum}]
      /\ \A i \in FileIds : sums[i] = NoSum
  BY DEF RInit
<1>6. RTypeOK
  BY <1>1, <1>2, <1>4, <1>5 DEF RTypeOK, RepairState, RInit
<1>7. QED
  BY <1>1, <1>3, <1>4, <1>6 DEF RepairTyped

\* The types of the repair hold in every state.
LEMMA RepairTypedAlways == RSpec => []RepairTyped
  BY RepairTypedInit, RepairTypedStep, PTL DEF RSpec

\* Checksums, bytes and the state of the repair keep their types, for any requests, any
\* faults and any rewriting of the storage.
THEOREM RepairIsTyped == RSpec => []RTypeOK
<1>1. RepairTyped => RTypeOK
  BY DEF RepairTyped
<1>2. QED
  BY <1>1, RepairTypedAlways, PTL

\* Every mismatch between the inspection and the commit.
Found == repair.changes \cup repair.loaded \cup repair.flushed

\* What the SELECT reads of row i, as it is now.
ReadNow(i) == [id |-> i, path |-> files[i].path, status |-> files[i].status, sum |-> sums[i]]

\* A row that the repair leaves as it is, or that is right already.
Handled(i) ==
    \/ files[i].status = "published" /\ ~repair.include
    \/ Cardinality(Stored(files[i].path)) # 1
    \/ sums[i] = bytes[files[i].path].content

\* The change that the file of row i asks for.
Wanted(i, c) ==
    /\ c.id = i
    /\ Cardinality(Stored(files[i].path)) = 1
    /\ c.content = bytes[files[i].path].content
    /\ c.stamp = bytes[files[i].path].stamp

\* Where the repair is in its loops.
RepairLoops ==
    /\ repair.pc = "inspect" => repair.loaded = {} /\ repair.flushed = {}
    /\ repair.pc \in {"load", "flush", "done"} => repair.todo = {}
    /\ repair.pc \in {"load", "done"} => repair.loaded = {}
    /\ repair.pc = "done" /\ ~repair.dry => repair.changes = {} /\ repair.flushed = {}

\* What the repair still has to do for the rows that nobody has touched.
CalmRows ==
    repair.pc # "idle" =>
        /\ \A i \in calm : files[i] # NoRow
        /\ \A r \in repair.todo : r.id \in calm => r = ReadNow(r.id)
        /\ \A c \in Found : c.id \in calm => c.content = bytes[files[c.id].path].content
        /\ \A i \in calm : \/ \E r \in repair.todo : r.id = i
                           \/ Handled(i)
                           \/ \E c \in Found : Wanted(i, c)

RestInv == RepairTyped /\ RepairLoops /\ CalmRows

\* A step of the repair goes on with its loops.
LEMMA LoopsStep ==
  ASSUME RepairTyped, RepairLoops, RepairStep
  PROVE  RepairLoops'
<1>1. repair \in RepairState
  BY DEF RepairTyped
<1>2. CASE repair' = IdleRepair
  BY <1>2 DEF IdleRepair, RepairLoops
<1>3. ASSUME NEW dry \in BOOLEAN, NEW include \in BOOLEAN, TakeSnapshot(dry, include)
      PROVE  RepairLoops'
  <2>1. repair'.pc = "inspect" /\ repair'.loaded = {} /\ repair'.flushed = {}
    BY <1>3 DEF TakeSnapshot, IdleRepair
  <2>2. QED
    BY <2>1 DEF RepairLoops
<1>4. CASE Inspect
  <2>1. \E todo, changes : repair' = [repair EXCEPT !.todo = todo, !.changes = changes]
    BY <1>4 DEF Inspect
  <2>2. /\ repair.pc = "inspect" /\ repair'.pc = repair.pc
        /\ repair'.loaded = repair.loaded /\ repair'.flushed = repair.flushed
    BY <1>1, <1>4, <2>1 DEF Inspect, RepairState
  <2>3. QED
    BY <2>2 DEF RepairLoops
<1>5. CASE Inspected
  BY <1>1, <1>5 DEF Inspected, RepairLoops, RepairState
<1>6. CASE Load
  <2>1. \/ \E changes : repair' = [repair EXCEPT !.changes = changes]
        \/ \E changes, loaded :
             repair' = [repair EXCEPT !.changes = changes, !.loaded = loaded, !.pc = "flush"]
    BY <1>6 DEF Load
  <2>2. repair.pc = "load"
    BY <1>6 DEF Load
  <2>3. QED
    BY <1>1, <2>1, <2>2 DEF RepairLoops, RepairState
<1>7. CASE Flush /\ repair' # IdleRepair
  BY <1>1, <1>7 DEF Flush, RepairLoops, RepairState
<1>8. CASE Commit /\ repair' # IdleRepair
  BY <1>1, <1>8 DEF Commit, RepairLoops, RepairState
<1>9. QED
  BY <1>2, <1>3, <1>4, <1>5, <1>6, <1>7, <1>8 DEF RepairStep, RepairDone

\* A step of the repair loses sight of no row that was calm when it read the table.
LEMMA CalmRepair ==
  ASSUME RestInv, RepairStep, UNCHANGED vars,
         calm' = IF repair.pc = "idle" /\ repair'.pc = "inspect"
                 THEN {r.id : r \in repair'.todo} ELSE StillCalm
  PROVE  CalmRows'
<1>1. /\ repair \in RepairState /\ files \in [FileIds -> Row \cup {NoRow}]
      /\ bytes \in [Paths -> Bytes] /\ sums \in [FileIds -> Contents \cup {NoSum}]
      /\ calm \subseteq FileIds /\ RepairLoops
      /\ UNCHANGED <<bytes, want>>
  BY RepairStepTypes DEF RestInv, RepairTyped, RTypeOK, TypeOK
<1>2. files' = files /\ store' = store
  BY DEF vars
<1>3. ASSUME NEW dry \in BOOLEAN, NEW include \in BOOLEAN, TakeSnapshot(dry, include)
      PROVE  CalmRows'
  <2> DEFINE todo == {ReadNow(i) : i \in {j \in FileIds : files[j] # NoRow}}
  <2>1. /\ repair'.pc = "inspect" /\ repair'.changes = {} /\ repair'.loaded = {}
        /\ repair'.flushed = {} /\ repair'.todo = todo /\ repair.pc = "idle" /\ sums' = sums
    BY <1>3 DEF TakeSnapshot, IdleRepair, ReadNow
  <2>2. calm' = {r.id : r \in repair'.todo}
    BY <2>1
  <2>3. \A r \in repair'.todo : \E i \in FileIds : r = ReadNow(i) /\ r.id = i /\ files[i] # NoRow
    BY <2>1 DEF ReadNow
  <2>4. \A i : ReadNow(i)' = ReadNow(i)
    BY <1>2, <2>1 DEF ReadNow
  <2>5. Found' = {}
    BY <2>1 DEF Found
  <2> HIDE DEF todo
  <2>6. \A i \in calm' : files'[i] # NoRow
    BY <1>2, <2>2, <2>3
  <2>7. \A r \in repair'.todo : r = ReadNow(r.id)'
    BY <2>3, <2>4
  <2>8. \A i \in calm' : \E r \in repair'.todo : r.id = i
    BY <2>2
  <2>9. QED
    BY <2>5, <2>6, <2>7, <2>8 DEF CalmRows
<1>4. CASE repair'.pc = "idle"
  BY <1>4 DEF CalmRows
<1>5. ASSUME repair.pc # "idle", repair'.pc # "idle", repair'.include = repair.include,
             \A r \in repair'.todo : r \in repair.todo,
             UNCHANGED sums,
             \A c \in Found' : c.id \in calm => c.content = bytes[files[c.id].path].content,
             \A i \in calm : \A r \in repair.todo : r.id = i /\ r \notin repair'.todo =>
               Handled(i) \/ \E c \in Found' : Wanted(i, c),
             \A i \in calm : \A c \in Found : Wanted(i, c) => c \in Found'
      PROVE  CalmRows'
  <2>1. calm' \subseteq calm
    BY <1>5 DEF StillCalm
  <2>2. \A i : ReadNow(i)' = ReadNow(i) /\ (Handled(i)' <=> Handled(i))
    BY <1>1, <1>2, <1>5 DEF ReadNow, Handled, Stored
  <2>3. \A i, c : Wanted(i, c)' <=> Wanted(i, c)
    BY <1>1, <1>2 DEF Wanted, Stored
  <2>4. /\ \A i \in calm : files[i] # NoRow
        /\ \A r \in repair.todo : r.id \in calm => r = ReadNow(r.id)
        /\ \A i \in calm : \/ \E r \in repair.todo : r.id = i
                           \/ Handled(i)
                           \/ \E c \in Found : Wanted(i, c)
    BY <1>5 DEF RestInv, CalmRows
  <2>5. \A i \in calm' : files'[i] # NoRow
    BY <1>2, <2>1, <2>4
  <2>6. \A r \in repair'.todo : r.id \in calm' => r = ReadNow(r.id)'
    BY <1>5, <2>1, <2>2, <2>4
  <2>7. \A c \in Found' : c.id \in calm' => c.content = bytes'[files'[c.id].path].content
    BY <1>1, <1>2, <1>5, <2>1
  <2>8. ASSUME NEW i \in calm'
        PROVE  \/ \E r \in repair'.todo : r.id = i
               \/ Handled(i)'
               \/ \E c \in Found' : Wanted(i, c)'
    <3>1. i \in calm
      BY <2>1
    <3>2. CASE Handled(i)
      BY <2>2, <3>2
    <3>3. CASE \E c \in Found : Wanted(i, c)
      BY <1>5, <2>3, <3>1, <3>3
    <3>4. ASSUME NEW r \in repair.todo, r.id = i
          PROVE  \/ \E q \in repair'.todo : q.id = i
                 \/ Handled(i)'
                 \/ \E c \in Found' : Wanted(i, c)'
      BY <1>5, <2>2, <2>3, <3>1, <3>4
    <3>5. QED
      BY <2>4, <3>1, <3>2, <3>3, <3>4
  <2>9. QED
    BY <2>5, <2>6, <2>7, <2>8 DEF CalmRows
<1>6. \A c \in Found : repair.pc # "idle" /\ c.id \in calm => c.content = bytes[files[c.id].path].content
  BY DEF RestInv, CalmRows
<1>7. CASE Inspect
  <2> DEFINE row == First(repair.todo)
             change == [id |-> row.id, content |-> bytes[row.path].content,
                        stamp |-> bytes[row.path].stamp]
  <2>1. row \in repair.todo /\ row \in SnapshotRow
    <3>1. repair.todo # {} /\ repair.todo \subseteq SnapshotRow
      BY <1>1, <1>7 DEF Inspect, RepairState
    <3>2. \A r \in repair.todo : r.id \in Nat
      BY <3>1 DEF SnapshotRow, FileIds
    <3>3. QED
      BY <3>1, <3>2, FirstIsOne
  <2>2. /\ repair.pc = "inspect" /\ UNCHANGED sums
        /\ repair' = [repair EXCEPT !.todo = @ \ {row},
                     !.changes = IF ToRepair(row) THEN @ \cup {change} ELSE @]
    BY <1>7 DEF Inspect
  <2>3. /\ change.id = row.id /\ change.content = bytes[row.path].content
        /\ change.stamp = bytes[row.path].stamp
    OBVIOUS
  <2> HIDE DEF row, change
  <2> DEFINE rest == repair.todo \ {row}
             more == IF ToRepair(row) THEN repair.changes \cup {change} ELSE repair.changes
  <2>4. repair' = [repair EXCEPT !.todo = rest, !.changes = more]
    BY <2>2
  <2>5. rest \subseteq repair.todo /\ repair.changes \subseteq more
        /\ (ToRepair(row) => change \in more) /\ \A c \in more : c \in repair.changes \/ c = change
    OBVIOUS
  <2>6. \A r \in repair.todo : r \notin rest => r = row
    OBVIOUS
  <2> HIDE DEF rest, more
  <2>7. /\ repair'.pc = "inspect" /\ repair'.include = repair.include /\ repair'.todo = rest
        /\ repair'.changes = more /\ repair'.loaded = repair.loaded
        /\ repair'.flushed = repair.flushed
    BY <1>1, <2>2, <2>4 DEF RepairState
  <2>8. Found \subseteq Found' /\ (ToRepair(row) => change \in Found')
        /\ \A c \in Found' : c \in Found \/ c = change
    BY <2>5, <2>7 DEF Found
  <2>9. row.id \in calm => row = ReadNow(row.id)
    BY <2>1, <2>2 DEF RestInv, CalmRows
  <2>10. row.id \in calm => /\ row.path = files[row.id].path
                            /\ row.status = files[row.id].status
                            /\ row.sum = sums[row.id]
    BY <2>9 DEF ReadNow
  <2>11. row.id \in calm => Handled(row.id) \/ \E c \in Found' : Wanted(row.id, c)
    <3>1. CASE ToRepair(row)
      BY <2>3, <2>8, <2>10, <3>1 DEF ToRepair, Wanted
    <3>2. CASE ~ToRepair(row)
      BY <2>10, <3>2 DEF ToRepair, Handled
    <3>3. QED
      BY <3>1, <3>2
  <2>12. \A c \in Found' : c.id \in calm => c.content = bytes[files[c.id].path].content
    BY <1>6, <2>2, <2>3, <2>8, <2>10
  <2>13. \A i \in calm : \A r \in repair.todo : r.id = i /\ r \notin repair'.todo =>
               Handled(i) \/ \E c \in Found' : Wanted(i, c)
    BY <2>6, <2>7, <2>11
  <2>14. QED
    BY <1>5, <2>2, <2>5, <2>7, <2>8, <2>12, <2>13
<1>8. CASE Inspected
  <2>1. /\ repair.pc = "inspect" /\ repair'.pc # "idle" /\ repair'.include = repair.include
        /\ repair'.todo = repair.todo /\ repair'.changes = repair.changes
        /\ repair'.loaded = repair.loaded /\ repair'.flushed = repair.flushed /\ UNCHANGED sums
    BY <1>1, <1>8 DEF Inspected, RepairState
  <2>2. Found' = Found
    BY <2>1 DEF Found
  <2>3. QED
    BY <1>5, <1>6, <2>1, <2>2
<1>9. CASE Load
  <2> DEFINE c == First(repair.changes)
             rest == repair.changes \ {c}
  <2>1. /\ repair.pc = "load" /\ UNCHANGED sums
        /\ \/ /\ Unchanged(c)
              /\ repair' = [repair EXCEPT !.changes = rest, !.loaded = {c}, !.pc = "flush"]
           \/ /\ ~Unchanged(c)
              /\ repair' = [repair EXCEPT !.changes = rest]
    BY <1>9 DEF Load
  <2>2. c \in repair.changes
    <3>1. repair.changes # {} /\ repair.changes \subseteq Change
      BY <1>1, <1>9 DEF Load, RepairState
    <3>2. \A r \in repair.changes : r.id \in Nat
      BY <3>1 DEF Change, FileIds
    <3>3. QED
      BY <3>1, <3>2, FirstIsOne
  <2>3. rest \subseteq repair.changes /\ \A d \in repair.changes : d \in rest \/ d = c
    OBVIOUS
  <2> HIDE DEF c, rest
  <2>4. /\ repair'.pc # "idle" /\ repair'.include = repair.include /\ repair'.todo = repair.todo
        /\ repair'.changes = rest /\ repair'.flushed = repair.flushed
        /\ repair'.loaded = IF Unchanged(c) THEN {c} ELSE repair.loaded
    <3>1. CASE Unchanged(c)
      BY <1>1, <2>1, <3>1 DEF RepairState
    <3>2. CASE ~Unchanged(c)
      BY <1>1, <2>1, <3>2 DEF RepairState
    <3>3. QED
      BY <3>1, <3>2
  <2>5. repair.loaded = {}
    BY <1>1, <2>1 DEF RepairLoops
  <2>6. Found' \subseteq Found
    BY <2>2, <2>3, <2>4, <2>5 DEF Found
  <2>7. ASSUME NEW i \in calm, NEW d \in Found, Wanted(i, d)
        PROVE  d \in Found'
    <3>1. CASE d # c
      BY <2>3, <2>4, <2>5, <3>1 DEF Found
    <3>2. CASE d = c
      <4>1. files[i] # NoRow
        BY <2>1 DEF RestInv, CalmRows
      <4>2. files[i].path \in Paths
        BY <1>1, <4>1 DEF Row
      <4>3. bytes[files[i].path] = [content |-> d.content, stamp |-> d.stamp]
        BY <1>1, <2>7, <4>2 DEF Bytes, Wanted
      <4>4. Unchanged(c)
        BY <2>7, <3>2, <4>1, <4>3 DEF Unchanged, Wanted
      <4>5. QED
        BY <2>4, <3>2, <4>4 DEF Found
    <3>3. QED
      BY <3>1, <3>2
  <2>8. QED
    BY <1>5, <1>6, <2>1, <2>4, <2>6, <2>7
<1>10. CASE Flush /\ repair' # IdleRepair
  <2>1. /\ repair.pc = "flush" /\ repair'.pc # "idle" /\ repair'.include = repair.include
        /\ repair'.todo = repair.todo /\ repair'.changes = repair.changes
        /\ repair'.loaded = {} /\ repair'.flushed = repair.flushed \cup repair.loaded
        /\ UNCHANGED sums
    BY <1>1, <1>10 DEF Flush, RepairState
  <2>2. Found' = Found
    BY <2>1 DEF Found
  <2>3. QED
    BY <1>5, <1>6, <2>1, <2>2
<1>11. CASE Commit /\ repair' # IdleRepair
  <2> DEFINE of(i) == CHOOSE c \in repair.flushed : c.id = i
  <2>1. /\ repair.pc = "load" /\ repair.changes = {}
        /\ sums' = [i \in FileIds |-> IF \E c \in repair.flushed : c.id = i
                                      THEN of(i).content ELSE sums[i]]
        /\ repair' = [repair EXCEPT !.pc = "done", !.flushed = {}]
    BY <1>11 DEF Commit
  <2>2. /\ repair'.pc = "done" /\ repair'.include = repair.include /\ repair'.todo = {}
        /\ repair'.changes = {} /\ repair'.loaded = {} /\ repair'.flushed = {}
        /\ repair.todo = {} /\ repair.loaded = {}
    BY <1>1, <2>1 DEF RepairState, RepairLoops
  <2>3. calm' \subseteq calm
    BY <2>1 DEF StillCalm
  <2>4. Found' = {} /\ Found = repair.flushed
    BY <2>1, <2>2 DEF Found
  <2>5. \A i \in calm : files[i] # NoRow /\ (Handled(i) \/ \E c \in Found : Wanted(i, c))
    BY <2>1, <2>2 DEF RestInv, CalmRows
  <2>6. ASSUME NEW i \in calm', \E c \in repair.flushed : c.id = i
        PROVE  sums'[i] = bytes[files[i].path].content
    <3>1. of(i) \in repair.flushed /\ of(i).id = i
      BY <2>6
    <3>2. i \in FileIds /\ i \in calm
      BY <1>1, <2>3
    <3>3. sums'[i] = of(i).content
      BY <2>1, <2>6, <3>2
    <3> HIDE DEF of
    <3>4. QED
      BY <1>6, <2>1, <2>4, <3>1, <3>2, <3>3
  <2>7. ASSUME NEW i \in calm'
        PROVE  Handled(i)'
    <3>1. CASE \E c \in repair.flushed : c.id = i
      BY <1>1, <1>2, <2>6, <3>1 DEF Handled
    <3>2. CASE ~ \E c \in repair.flushed : c.id = i
      <4>1. sums'[i] = sums[i]
        BY <1>1, <2>1, <2>3, <3>2
      <4>2. Handled(i)
        BY <2>3, <2>4, <2>5, <3>2 DEF Wanted
      <4>3. QED
        BY <1>1, <1>2, <2>2, <4>1, <4>2 DEF Handled, Stored
    <3>3. QED
      BY <3>1, <3>2
  <2>8. QED
    BY <1>2, <2>2, <2>3, <2>4, <2>5, <2>7 DEF CalmRows
<1>12. QED
  BY <1>3, <1>4, <1>7, <1>8, <1>9, <1>10, <1>11 DEF RepairStep, RepairDone, IdleRepair

\* A row that a step leaves calm keeps its checksum, unless the repair writes it.
LEMMA CalmSums ==
  ASSUME RestInv, RNext, UNCHANGED repair, repair.pc # "idle", NEW i \in StillCalm
  PROVE  sums'[i] = sums[i]
<1>1. /\ files[i] # NoRow /\ files'[i] = files[i] /\ i \in FileIds
      /\ sums \in [FileIds -> Contents \cup {NoSum}]
  BY DEF StillCalm, RestInv, CalmRows, RepairTyped, RTypeOK
<1>2. \A w \in Workers : WriteRow(w) => sums'[i] = sums[i]
  BY <1>1 DEF WriteRow, Persist, IsNextId
<1>3. CASE RepairStep
  <2>1. repair \in RepairState
    BY DEF RestInv, RepairTyped
  <2>2. ~Commit
    <3>1. SUFFICES ASSUME Commit PROVE FALSE
      OBVIOUS
    <3>2. \/ repair' = [repair EXCEPT !.pc = "done", !.flushed = {}]
          \/ repair' = IdleRepair
      BY <3>1 DEF Commit
    <3>3. repair'.pc = "done" \/ repair'.pc = "idle"
      <4>1. CASE repair' = [repair EXCEPT !.pc = "done", !.flushed = {}]
        BY <2>1, <4>1 DEF RepairState
      <4>2. CASE repair' = IdleRepair
        BY <4>2 DEF IdleRepair
      <4>3. QED
        BY <3>2, <4>1, <4>2
    <3>4. QED
      BY <3>1, <3>3 DEF Commit
  <2>3. QED
    BY <1>3, <2>2 DEF RepairStep, TakeSnapshot, Inspect, Inspected, Load, Flush, RepairDone
<1>4. CASE StopAll
  BY <1>4 DEF StopAll
<1>5. QED
  BY <1>2, <1>3, <1>4 DEF RNext, GetRow, StreamUpload, LocateFile, DiskStep, Rewrite

\* What others do beside the repair ends the calm of the rows it concerns.
LEMMA CalmBeside ==
  ASSUME RestInv, RNext, UNCHANGED repair
  PROVE  CalmRows'
<1>1. CASE repair.pc = "idle"
  BY <1>1 DEF CalmRows
<1>2. CASE repair.pc # "idle"
  <2>1. calm' = StillCalm
    BY <1>2 DEF RNext
  <2>2. ASSUME NEW i \in calm'
        PROVE  /\ i \in calm /\ files'[i] = files[i]
               /\ store'[files[i].path] = store[files[i].path]
               /\ bytes'[files[i].path] = bytes[files[i].path]
               /\ sums'[i] = sums[i]
    BY <1>2, <2>1, CalmSums DEF StillCalm
  <2>3. \A i \in calm' : /\ files'[i] = files[i]
                         /\ ReadNow(i)' = ReadNow(i) /\ (Handled(i)' <=> Handled(i))
    BY <2>2 DEF ReadNow, Handled, Stored
  <2>4. \A i \in calm' : \A c : Wanted(i, c) => Wanted(i, c)'
    BY <2>2 DEF Wanted, Stored
  <2>5. Found' = Found
    BY DEF Found
  <2>6. /\ \A i \in calm : files[i] # NoRow
        /\ \A r \in repair.todo : r.id \in calm => r = ReadNow(r.id)
        /\ \A c \in Found : c.id \in calm => c.content = bytes[files[c.id].path].content
        /\ \A i \in calm : \/ \E r \in repair.todo : r.id = i
                           \/ Handled(i)
                           \/ \E c \in Found : Wanted(i, c)
    BY <1>2 DEF RestInv, CalmRows
  <2>7. \A i \in calm' : files'[i] # NoRow
    BY <2>2, <2>6
  <2>8. \A r \in repair'.todo : r.id \in calm' => r = ReadNow(r.id)'
    BY <2>2, <2>3, <2>6
  <2>9. \A c \in Found' : c.id \in calm' => c.content = bytes'[files'[c.id].path].content
    BY <2>2, <2>5, <2>6
  <2>10. \A i \in calm' : \/ \E r \in repair'.todo : r.id = i
                          \/ Handled(i)'
                          \/ \E c \in Found' : Wanted(i, c)'
    BY <2>2, <2>3, <2>4, <2>5, <2>6
  <2>11. QED
    BY <2>7, <2>8, <2>9, <2>10 DEF CalmRows
<1>3. QED
  BY <1>1, <1>2

\* Every step keeps track of the calm rows.
LEMMA RestStep ==
  ASSUME RestInv, [RNext]_rvars
  PROVE  RestInv'
<1>1. RepairTyped'
  BY RepairTypedStep DEF RestInv
<1>2. CASE UNCHANGED rvars
  BY <1>1, <1>2 DEF rvars, RestInv, RepairLoops, CalmRows, Found, ReadNow, Handled, Wanted, Stored
<1>3. CASE RNext /\ RepairStep /\ UNCHANGED vars
  BY <1>1, <1>3, LoopsStep, CalmRepair DEF RestInv, RNext
<1>4. CASE RNext /\ UNCHANGED repair
  BY <1>1, <1>4, CalmBeside DEF RestInv, RepairLoops
<1>5. CASE StopAll
  BY <1>1, <1>5 DEF StopAll, IdleRepair, RestInv, RepairLoops, CalmRows
<1>6. QED
  BY <1>2, <1>3, <1>4, <1>5 DEF RNext, Rewrite

\* The calm rows are kept track of in every state.
LEMMA RestAlways == RSpec => []RestInv
<1>1. RInit => RestInv
  BY RepairTypedInit DEF RInit, IdleRepair, RestInv, RepairLoops, CalmRows
<1>2. QED
  BY <1>1, RestStep, PTL DEF RSpec

\* A checksum repair that ran to its end has repaired every row that nobody touched
\* meanwhile, whatever happened to the other rows: any requests, faults and rewriting.
THEOREM RepairsReachTheRest == RSpec => []RepairsTheRest
<1>1. RestInv => RepairsTheRest
  <2>1. SUFFICES ASSUME RestInv, repair.pc = "done", ~repair.dry, NEW i \in calm
                 PROVE  Handled(i)
    BY DEF RepairsTheRest, Handled
  <2>2. Found = {} /\ repair.todo = {}
    BY <2>1 DEF RestInv, RepairLoops, Found
  <2>3. QED
    BY <2>1, <2>2 DEF RestInv, CalmRows
<1>2. QED
  BY <1>1, RestAlways, PTL

-----------------------------------------------------------------------------
(* A checksum repair in a maintenance window *)

\* Any kind of maintenance window, and a storage that is quiet beside it.
Maintained == Serial /\ MaintenanceWindow /\ QuietStorage

\* In a maintenance window nothing is uploaded while a repair runs.
NoUploads == repair.pc # "idle" => ~Uploading

\* What the SELECT read of a row that is still there is still true, but for its status;
\* and it has been published since only with the checksum of its bytes.
ReadRows ==
    repair.pc # "idle" => \A r \in repair.todo :
        \/ files[r.id] = NoRow
        \/ /\ r.path = files[r.id].path
           /\ r.sum = sums[r.id]
           /\ r.status # "published" /\ files[r.id].status = "published"
                => sums[r.id] = bytes[files[r.id].path].content

\* A mismatch that was found is still one, and of a file that the repair may write.
FoundRows ==
    repair.pc # "idle" => \A c \in Found :
        \/ files[c.id] = NoRow
        \/ /\ c.content = bytes[files[c.id].path].content
           /\ c.content # sums[c.id]
           /\ ~repair.include => files[c.id].status # "published"

\* A request compares with the checksum in the row, or one that has been repaired since.
WantRows ==
    \A w \in Workers : AboutRow(req[w]) =>
        LET r == req[w]
            right == sums[r.id] = bytes[r.path].content
        IN  /\ want[w] = sums[r.id] \/ right
            /\ VerifiesHash(r.op) /\ r.pc # "locate" => right

VerInv ==
    /\ HInv /\ RepairTyped /\ RepairLoops
    /\ NoUploads /\ ReadRows /\ FoundRows /\ WantRows

\* The types that the proofs below use.
LEMMA VerTypes ==
  ASSUME VerInv
  PROVE  /\ repair \in RepairState /\ files \in [FileIds -> Row \cup {NoRow}]
         /\ req \in [Workers -> Request]
         /\ bytes \in [Paths -> Bytes] /\ sums \in [FileIds -> Contents \cup {NoSum}]
         /\ want \in [Workers -> Contents \cup {NoSum}]
         /\ \A i \in FileIds : sums[i] = NoSum <=> files[i] = NoRow
         /\ IInv /\ TypeOK /\ HInv /\ RepairTyped /\ RepairLoops
  BY DEF VerInv, RepairTyped, RTypeOK, TypeOK, HInv

\* What a request holds, when it goes on or ends, and nothing it compares has changed.
LEMMA WantKept ==
  ASSUME Serial, VerInv, NEW w \in Workers, WorkerStep(w), Forget(w), UNCHANGED bytes,
         \A i \in FileIds : AboutRow(req'[w]) /\ req'[w].id = i => sums'[i] = sums[i],
         \/ req[w].pc # "locate"
         \/ req'[w] = IdleReq
         \/ VerifiesHash(req[w].op) => bytes[req[w].path].content = want[w]
  PROVE  WantRows'
<1>1. SUFFICES ASSUME AboutRow(req'[w])
               PROVE  LET r == req'[w]
                          right == sums'[r.id] = bytes[r.path].content
                      IN  /\ want'[w] = sums'[r.id] \/ right
                          /\ VerifiesHash(r.op) /\ r.pc # "locate" => right
  BY DEF Serial, WantRows
<1>2. /\ req'[w] # IdleReq /\ SameFile(w) /\ AboutRow(req[w])
  BY <1>1, VerTypes, OwnPath DEF AboutRow, IdleReq, SameFile
<1>3. want'[w] = want[w]
  BY <1>2, VerTypes DEF Forget
<1>4. req[w].id \in FileIds /\ req'[w].id = req[w].id /\ req'[w].path = req[w].path
      /\ req'[w].op = req[w].op
  BY <1>2, VerTypes DEF IInv, ReqShape, Shape, AboutRow, SameFile
<1>5. sums'[req[w].id] = sums[req[w].id]
  BY <1>1, <1>4
<1>6. LET r == req[w]
          right == sums[r.id] = bytes[r.path].content
      IN  /\ want[w] = sums[r.id] \/ right
          /\ VerifiesHash(r.op) /\ r.pc # "locate" => right
  BY <1>2 DEF VerInv, WantRows
<1>7. VerifiesHash(req[w].op) => sums[req[w].id] = bytes[req[w].path].content
  BY <1>2, <1>6
<1>8. QED
  BY <1>3, <1>4, <1>5, <1>6, <1>7

\* What the repair has read and found stays as true as the rows, sums and bytes.
LEMMA ReadKept ==
  ASSUME VerInv, UNCHANGED <<files, bytes, sums, repair>>
  PROVE  ReadRows' /\ FoundRows'
<1>1. Found' = Found
  BY DEF Found
<1>2. QED
  BY <1>1 DEF VerInv, ReadRows, FoundRows

\* A step of the repair keeps the rows it has read and the mismatches it has found.
LEMMA VerRepair ==
  ASSUME MaintenanceWindow, VerInv, RepairStep, UNCHANGED vars
  PROVE  NoUploads' /\ ReadRows' /\ FoundRows'
<1>1. /\ repair \in RepairState /\ files \in [FileIds -> Row \cup {NoRow}]
      /\ bytes \in [Paths -> Bytes] /\ sums \in [FileIds -> Contents \cup {NoSum}]
      /\ RepairLoops /\ UNCHANGED <<bytes, want>>
  BY VerTypes, RepairStepTypes
<1>2. files' = files /\ req' = req
  BY DEF vars
<1>3. NoUploads'
  <2>1. CASE repair.pc = "idle"
    BY <1>2, <2>1 DEF RepairStep, TakeSnapshot, Inspect, Inspected, Load, Flush, Commit,
       RepairDone, NoUploads, Uploading
  <2>2. CASE repair.pc # "idle"
    BY <1>2, <2>2 DEF VerInv, NoUploads, Uploading
  <2>3. QED
    BY <2>1, <2>2
<1>4. ASSUME NEW dry \in BOOLEAN, NEW include \in BOOLEAN, TakeSnapshot(dry, include)
      PROVE  ReadRows' /\ FoundRows'
  <2> DEFINE todo == {ReadNow(i) : i \in {j \in FileIds : files[j] # NoRow}}
  <2>1. /\ repair'.pc = "inspect" /\ repair'.changes = {} /\ repair'.loaded = {}
        /\ repair'.flushed = {} /\ repair'.todo = todo /\ repair.pc = "idle" /\ sums' = sums
    BY <1>4 DEF TakeSnapshot, IdleRepair, ReadNow
  <2>2. \A r \in repair'.todo : \E i \in FileIds : r = ReadNow(i) /\ r.id = i /\ files[i] # NoRow
    BY <2>1 DEF ReadNow
  <2>3. \A r \in repair'.todo : /\ r.path = files[r.id].path /\ r.sum = sums[r.id]
                                /\ r.status = files[r.id].status
    BY <2>2 DEF ReadNow
  <2>4. Found' = {}
    BY <2>1 DEF Found
  <2>5. QED
    BY <1>2, <2>1, <2>3, <2>4 DEF ReadRows, FoundRows
<1>5. CASE repair'.pc = "idle"
  BY <1>3, <1>5 DEF ReadRows, FoundRows
<1>6. ASSUME repair.pc # "idle", repair'.include = repair.include, UNCHANGED sums,
             \A r \in repair'.todo : r \in repair.todo,
             \A c \in Found' :
               \/ c \in Found
               \/ files[c.id] = NoRow
               \/ /\ c.content = bytes[files[c.id].path].content
                  /\ c.content # sums[c.id]
                  /\ ~repair.include => files[c.id].status # "published"
      PROVE  ReadRows' /\ FoundRows'
  BY <1>1, <1>2, <1>6 DEF VerInv, ReadRows, FoundRows
<1>7. CASE Inspect
  <2> DEFINE row == First(repair.todo)
             change == [id |-> row.id, content |-> bytes[row.path].content,
                        stamp |-> bytes[row.path].stamp]
  <2>1. row \in repair.todo
    <3>1. repair.todo # {} /\ repair.todo \subseteq SnapshotRow
      BY <1>1, <1>7 DEF Inspect, RepairState
    <3>2. \A r \in repair.todo : r.id \in Nat
      BY <3>1 DEF SnapshotRow, FileIds
    <3>3. QED
      BY <3>1, <3>2, FirstIsOne
  <2>2. /\ repair.pc = "inspect" /\ UNCHANGED sums
        /\ repair' = [repair EXCEPT !.todo = @ \ {row},
                     !.changes = IF ToRepair(row) THEN @ \cup {change} ELSE @]
    BY <1>7 DEF Inspect
  <2>3. change.id = row.id /\ change.content = bytes[row.path].content
    OBVIOUS
  <2> HIDE DEF row, change
  <2> DEFINE rest == repair.todo \ {row}
             more == IF ToRepair(row) THEN repair.changes \cup {change} ELSE repair.changes
  <2>4. repair' = [repair EXCEPT !.todo = rest, !.changes = more]
    BY <2>2
  <2>5. /\ \A r \in rest : r \in repair.todo
        /\ \A c \in more : c \in repair.changes \/ (c = change /\ ToRepair(row))
    OBVIOUS
  <2> HIDE DEF rest, more
  <2>6. /\ repair'.include = repair.include /\ repair'.todo = rest
        /\ repair'.changes = more /\ repair'.loaded = repair.loaded
        /\ repair'.flushed = repair.flushed
    BY <1>1, <2>4 DEF RepairState
  <2>7. \/ files[row.id] = NoRow
        \/ /\ row.path = files[row.id].path /\ row.sum = sums[row.id]
           /\ row.status # "published" /\ files[row.id].status = "published"
                => sums[row.id] = bytes[files[row.id].path].content
    BY <2>1, <2>2 DEF VerInv, ReadRows
  <2>8. ToRepair(row) =>
          \/ files[change.id] = NoRow
          \/ /\ change.content = bytes[files[change.id].path].content
             /\ change.content # sums[change.id]
             /\ ~repair.include => files[change.id].status # "published"
    BY <2>3, <2>7 DEF ToRepair
  <2>9. \A c \in Found' : c \in Found \/ (c = change /\ ToRepair(row))
    BY <2>5, <2>6 DEF Found
  <2>10. QED
    BY <1>3, <1>6, <2>2, <2>5, <2>6, <2>8, <2>9
<1>8. CASE Inspected
  <2>1. /\ repair.pc = "inspect" /\ repair'.include = repair.include
        /\ repair'.todo = repair.todo /\ repair'.changes = repair.changes
        /\ repair'.loaded = repair.loaded /\ repair'.flushed = repair.flushed /\ UNCHANGED sums
    BY <1>1, <1>8 DEF Inspected, RepairState
  <2>2. Found' = Found
    BY <2>1 DEF Found
  <2>3. QED
    BY <1>3, <1>6, <2>1, <2>2
<1>9. CASE Load
  <2> DEFINE c == First(repair.changes)
             rest == repair.changes \ {c}
  <2>1. /\ repair.pc = "load" /\ UNCHANGED sums
        /\ \/ repair' = [repair EXCEPT !.changes = rest, !.loaded = {c}, !.pc = "flush"]
           \/ repair' = [repair EXCEPT !.changes = rest]
    BY <1>9 DEF Load
  <2>2. c \in repair.changes
    <3>1. repair.changes # {} /\ repair.changes \subseteq Change
      BY <1>1, <1>9 DEF Load, RepairState
    <3>2. \A r \in repair.changes : r.id \in Nat
      BY <3>1 DEF Change, FileIds
    <3>3. QED
      BY <3>1, <3>2, FirstIsOne
  <2>3. \A d \in rest : d \in repair.changes
    OBVIOUS
  <2> HIDE DEF c, rest
  <2>4. /\ repair'.include = repair.include /\ repair'.todo = repair.todo
        /\ repair'.changes = rest /\ repair'.flushed = repair.flushed
        /\ repair'.loaded = {c} \/ repair'.loaded = repair.loaded
    <3>1. CASE repair' = [repair EXCEPT !.changes = rest, !.loaded = {c}, !.pc = "flush"]
      BY <1>1, <3>1 DEF RepairState
    <3>2. CASE repair' = [repair EXCEPT !.changes = rest]
      BY <1>1, <3>2 DEF RepairState
    <3>3. QED
      BY <2>1, <3>1, <3>2
  <2>5. \A d \in Found' : d \in Found
    BY <2>2, <2>3, <2>4 DEF Found
  <2>6. QED
    BY <1>3, <1>6, <2>1, <2>4, <2>5
<1>10. CASE Flush /\ repair' # IdleRepair
  <2>1. /\ repair.pc = "flush" /\ repair'.include = repair.include
        /\ repair'.todo = repair.todo /\ repair'.changes = repair.changes
        /\ repair'.loaded = {} /\ repair'.flushed = repair.flushed \cup repair.loaded
        /\ UNCHANGED sums
    BY <1>1, <1>10 DEF Flush, RepairState
  <2>2. \A d \in Found' : d \in Found
    BY <2>1 DEF Found
  <2>3. QED
    BY <1>3, <1>6, <2>1, <2>2
<1>11. CASE Commit /\ repair' # IdleRepair
  <2>1. /\ repair.pc = "load" /\ repair.changes = {}
        /\ repair' = [repair EXCEPT !.pc = "done", !.flushed = {}]
    BY <1>11 DEF Commit
  <2>2. /\ repair'.todo = {} /\ repair'.changes = {} /\ repair'.loaded = {}
        /\ repair'.flushed = {}
    BY <1>1, <2>1 DEF RepairState, RepairLoops
  <2>3. QED
    BY <1>3, <2>2 DEF ReadRows, FoundRows, Found
<1>12. QED
  BY <1>3, <1>4, <1>5, <1>7, <1>8, <1>9, <1>10, <1>11 DEF RepairStep, RepairDone, IdleRepair

\* The commit of the repair: a checksum it changes is that of the bytes, as they are, of
\* a row whose file it may repair.
LEMMA CommitWrites ==
  ASSUME VerInv, RepairStep, UNCHANGED vars, NEW i \in FileIds, files[i] # NoRow,
         sums'[i] # sums[i]
  PROVE  /\ sums'[i] = bytes[files[i].path].content
         /\ ~repair.include => files[i].status # "published"
<1> DEFINE of(k) == CHOOSE c \in repair.flushed : c.id = k
<1>1. /\ sums \in [FileIds -> Contents \cup {NoSum}]
      /\ \A c \in repair.flushed : c \in Found
  BY VerTypes DEF Found
<1>2. /\ repair.pc = "load"
      /\ sums' = [k \in FileIds |-> IF \E c \in repair.flushed : c.id = k
                                    THEN of(k).content ELSE sums[k]]
  BY DEF RepairStep, TakeSnapshot, Inspect, Inspected, Load, Flush, Commit, RepairDone
<1>3. \E c \in repair.flushed : c.id = i
  BY <1>1, <1>2
<1>4. of(i) \in repair.flushed /\ of(i).id = i
  BY <1>3
<1>5. sums'[i] = of(i).content
  BY <1>2, <1>3
<1> HIDE DEF of
<1>6. /\ of(i).content = bytes[files[i].path].content
      /\ ~repair.include => files[i].status # "published"
  BY <1>1, <1>2, <1>4 DEF VerInv, FoundRows
<1>7. QED
  BY <1>5, <1>6

\* A request is not misled by what the repair commits.
LEMMA WantRepair ==
  ASSUME Serial, VerInv, RepairStep, UNCHANGED vars
  PROVE  WantRows'
<1>1. UNCHANGED <<bytes, want>> /\ req' = req
  BY RepairStepTypes, VerTypes DEF vars
<1>2. SUFFICES ASSUME NEW w \in Workers, AboutRow(req[w])
               PROVE  LET r == req[w]
                          right == sums'[r.id] = bytes[r.path].content
                      IN  /\ want[w] = sums'[r.id] \/ right
                          /\ VerifiesHash(r.op) /\ r.pc # "locate" => right
  BY <1>1 DEF WantRows
<1>3. /\ req[w].id \in FileIds /\ files[req[w].id] # NoRow
      /\ files[req[w].id].path = req[w].path
  BY <1>2, VerTypes DEF HInv, RowsHeld, RowHeld, IInv, ReqShape, Shape, AboutRow
<1>4. sums'[req[w].id] = sums[req[w].id] \/ sums'[req[w].id] = bytes[req[w].path].content
  BY <1>3, CommitWrites
<1>5. QED
  BY <1>2, <1>4 DEF VerInv, WantRows

\* A request begins with the checksum of its row.
LEMMA VerGet ==
  ASSUME Serial, VerInv, NEW w \in Workers, GetRow(w), UNCHANGED repair
  PROVE  NoUploads' /\ ReadRows' /\ FoundRows' /\ WantRows'
<1>1. PICK op \in Operation, i \in FileIds :
         Get(w, op, i) /\ want' = [want EXCEPT ![w] = sums[i]]
  BY DEF GetRow
<1>2. /\ UNCHANGED <<files, bytes, sums>> /\ op # "upload"
  BY <1>1 DEF GetRow, Get
<1>3. /\ req'[w].id = i /\ req'[w].op = op /\ req'[w].pc = "locate"
      /\ \A v \in Workers \ {w} : req'[v] = req[v]
  BY <1>1, VerTypes DEF Get, Become
<1>4. want'[w] = sums[i]
  BY <1>1, VerTypes
<1>5. NoUploads'
  BY <1>2, <1>3 DEF VerInv, NoUploads, Uploading
<1>6. WantRows'
  BY <1>2, <1>3, <1>4 DEF WantRows, Serial
<1>7. QED
  BY <1>2, <1>5, <1>6, ReadKept

\* An upload begins only while no repair runs, with a file of its own.
LEMMA VerUpload ==
  ASSUME Maintained, VerInv, NEW w \in Workers, StreamUpload(w), UNCHANGED repair
  PROVE  NoUploads' /\ ReadRows' /\ FoundRows' /\ WantRows'
<1>1. repair'.pc = "idle"
  BY DEF StreamUpload, Maintained
<1>2. req'[w].op = "upload"
  BY VerTypes DEF StreamUpload, UploadStart, Become
<1>3. WantRows'
  BY <1>2 DEF WantRows, Maintained, Serial, AboutRow
<1>4. QED
  BY <1>1, <1>3 DEF NoUploads, ReadRows, FoundRows

\* A request that goes on starts no upload.
LEMMA NoUploadsKept ==
  ASSUME VerInv, NEW w \in Workers, WorkerStep(w), UNCHANGED repair
  PROVE  NoUploads'
<1>1. Serves(w) /\ (req'[w] = IdleReq \/ SameFile(w))
  BY VerTypes, OwnPath
<1>2. QED
  BY <1>1 DEF VerInv, NoUploads, Uploading, Serves, SameFile, IdleReq

\* The disk is inspected, with the digest where it is compared, and bytes are moved.
LEMMA VerDisk ==
  ASSUME Serial, VerInv, NEW w \in Workers, LocateFile(w) \/ DiskStep(w), UNCHANGED repair
  PROVE  NoUploads' /\ ReadRows' /\ FoundRows' /\ WantRows'
<1>1. WorkerStep(w) /\ Forget(w) /\ UNCHANGED <<files, bytes, sums>>
  <2>1. CASE LocateFile(w)
    BY <2>1 DEF LocateFile, WorkerStep, Locate
  <2>2. CASE DiskStep(w)
    BY <2>2 DEF DiskStep, WorkerStep, Refuse, CheckMove, Replace, TxRead, CheckUndo,
       UndoReplace, Unlink, Streamed, StreamFails, PersistFails, CleanupPaths
  <2>3. QED
    BY <2>1, <2>2
<1>2. \/ req[w].pc # "locate"
      \/ req'[w] = IdleReq
      \/ VerifiesHash(req[w].op) => bytes[req[w].path].content = want[w]
  <2>1. CASE LocateFile(w)
    BY <2>1 DEF LocateFile
  <2>2. CASE Refuse(w)
    BY <2>2, VerTypes, IdleEffect DEF Refuse
  <2>3. QED
    BY <2>1, <2>2 DEF DiskStep, CheckMove, Replace, TxRead, CheckUndo,
       UndoReplace, Unlink, Streamed, StreamFails, PersistFails, CleanupPaths
<1>3. WantRows'
  BY <1>1, <1>2, WantKept
<1>4. QED
  BY <1>1, <1>3, NoUploadsKept, ReadKept

\* What the transaction of a request does to a row: what becomes published has the
\* checksum of its bytes, and the checksum of a row that stays is left alone.
LEMMA VerTxWrite ==
  ASSUME Serial, VerInv, NEW w \in Workers, TxWrite(w), NEW i \in FileIds, files'[i] # NoRow
  PROVE  /\ files[i] # NoRow /\ files'[i].path = files[i].path
         /\ files[i].status # "published" /\ files'[i].status = "published"
              => sums[i] = bytes[files[i].path].content
<1> DEFINE r == req[w]
           row == files[r.id]
<1>1. /\ r.pc = "write" /\ r.id \in FileIds /\ row \in Row /\ RowHeld(r, row)
      /\ \/ /\ r.op \in StatusOps /\ r.change
            /\ files' = [files EXCEPT ![r.id] = [row EXCEPT !.status = Target(r.op)]]
         \/ UNCHANGED files
         \/ r.op \in DeleteOps /\ files' = [files EXCEPT ![r.id] = NoRow]
  BY VerTypes, WriteEffect, HeldOf
<1>2. CASE UNCHANGED files
  BY <1>2
<1>3. CASE i # r.id
  <2>1. files'[i] = files[i]
    BY <1>1, <1>3, VerTypes
  <2>2. QED
    BY <2>1
<1>4. CASE i = r.id /\ files' = [files EXCEPT ![r.id] = NoRow]
  BY <1>4, VerTypes
<1>5. CASE /\ i = r.id /\ r.op \in StatusOps /\ r.change
           /\ files' = [files EXCEPT ![r.id] = [row EXCEPT !.status = Target(r.op)]]
  <2> DEFINE new == [row EXCEPT !.status = Target(r.op)]
  <2>1. files'[i] = new
    BY <1>5, VerTypes
  <2>2. new.path = row.path /\ new.status = Target(r.op)
    BY <1>1 DEF Row
  <2> HIDE DEF new
  <2>3. row # NoRow /\ row.path = r.path
    BY <1>1 DEF RowHeld
  <2>4. Target(r.op) = "published" => r.op = "publish"
    BY <1>5 DEF Target, StatusOps
  <2>5. AboutRow(r)
    BY <1>1, <1>5 DEF AboutRow, StatusOps
  <2>6. r.op = "publish" => sums[r.id] = bytes[r.path].content
    BY <1>1, <2>5 DEF VerInv, WantRows, VerifiesHash
  <2>7. QED
    BY <1>5, <2>1, <2>2, <2>3, <2>4, <2>6
<1>6. QED
  BY <1>1, <1>2, <1>3, <1>4, <1>5

\* The write of a request leaves what the repair knows as true as it was.
LEMMA VerWrite ==
  ASSUME Maintained, VerInv, NEW w \in Workers, WriteRow(w), UNCHANGED repair
  PROVE  NoUploads' /\ ReadRows' /\ FoundRows' /\ WantRows'
<1>1. WorkerStep(w) /\ Forget(w) /\ UNCHANGED bytes /\ Serial
  BY DEF WriteRow, WorkerStep, Maintained
<1>2. CASE /\ TxWrite(w)
           /\ sums' = [i \in FileIds |-> IF files'[i] = NoRow THEN NoSum ELSE sums[i]]
  <2>1. \A i \in FileIds : files'[i] # NoRow =>
           /\ files[i] # NoRow /\ files'[i].path = files[i].path /\ sums'[i] = sums[i]
           /\ files[i].status # "published" /\ files'[i].status = "published"
                => sums[i] = bytes[files[i].path].content
    BY <1>1, <1>2, VerTxWrite
  <2>2. ReadRows'
    <3>1. SUFFICES ASSUME repair.pc # "idle", NEW r \in repair.todo, files'[r.id] # NoRow
                   PROVE  /\ r.path = files'[r.id].path
                          /\ r.sum = sums'[r.id]
                          /\ r.status # "published" /\ files'[r.id].status = "published"
                               => sums'[r.id] = bytes[files'[r.id].path].content
      BY <1>1 DEF ReadRows
    <3>2. r.id \in FileIds
      BY VerTypes DEF RepairState, SnapshotRow
    <3>3. /\ r.path = files[r.id].path /\ r.sum = sums[r.id]
          /\ r.status # "published" /\ files[r.id].status = "published"
               => sums[r.id] = bytes[files[r.id].path].content
      BY <2>1, <3>1, <3>2 DEF VerInv, ReadRows
    <3>4. QED
      BY <2>1, <3>1, <3>2, <3>3
  <2>3. FoundRows'
    <3>1. SUFFICES ASSUME repair.pc # "idle", NEW c \in Found, files'[c.id] # NoRow
                   PROVE  /\ c.content = bytes[files'[c.id].path].content
                          /\ c.content # sums'[c.id]
                          /\ ~repair.include => files'[c.id].status # "published"
      BY <1>1 DEF FoundRows, Found
    <3>2. c.id \in FileIds
      BY VerTypes DEF RepairState, Change, Found
    <3>3. /\ c.content = bytes[files[c.id].path].content
          /\ c.content # sums[c.id]
          /\ ~repair.include => files[c.id].status # "published"
      BY <2>1, <3>1, <3>2 DEF VerInv, FoundRows
    <3>4. QED
      BY <2>1, <3>1, <3>2, <3>3
  <2>4. WantRows'
    <3>1. req[w].pc # "locate"
      BY <1>2 DEF TxWrite
    <3>2. ASSUME NEW i \in FileIds, AboutRow(req'[w]), req'[w].id = i
          PROVE  sums'[i] = sums[i]
      <4>1. files'[i] # NoRow
        BY <1>1, <3>2, HeldNext, VerTypes DEF HInv, RowsHeld, RowHeld, Next
      <4>2. QED
        BY <2>1, <4>1
    <3>3. QED
      BY <1>1, <3>1, <3>2, WantKept
  <2>5. QED
    BY <1>1, <2>2, <2>3, <2>4, NoUploadsKept
<1>3. ASSUME NEW i \in FileIds, NEW scan \in ScanResults, Persist(w, i, scan)
      PROVE  NoUploads' /\ ReadRows' /\ FoundRows' /\ WantRows'
  <2>1. req[w].op = "upload"
    BY <1>3, VerTypes DEF Persist, IInv, ReqShape, Shape
  <2>2. repair'.pc = "idle"
    BY <2>1 DEF VerInv, NoUploads, Uploading
  <2>3. req'[w] = IdleReq
    BY <1>3, VerTypes, IdleEffect DEF Persist
  <2>4. WantRows'
    BY <1>1, <2>3 DEF WantRows, Serial, AboutRow, IdleReq
  <2>5. QED
    BY <2>2, <2>4 DEF NoUploads, ReadRows, FoundRows
<1>4. QED
  BY <1>2, <1>3 DEF WriteRow

\* Every step keeps the repair, the rows and the requests in step.
LEMMA VerStep ==
  ASSUME Maintained, VerInv, [RNext]_rvars
  PROVE  VerInv'
<1>1. RepairTyped' /\ Serial
  BY RepairTypedStep DEF VerInv, Maintained
<1>2. [Next]_vars
  BY RequestsBesideRepair DEF rvars, vars
<1>3. HInv'
  BY <1>1, <1>2, HeldNext DEF VerInv
<1>4. CASE UNCHANGED rvars
  BY <1>1, <1>3, <1>4 DEF rvars, VerInv, RepairLoops, NoUploads, Uploading, ReadRows, FoundRows,
     Found, WantRows
<1>5. CASE RepairStep /\ UNCHANGED vars
  BY <1>1, <1>3, <1>5, LoopsStep, VerRepair, WantRepair DEF VerInv, Maintained
<1>6. ASSUME NEW w \in Workers, UNCHANGED repair,
             GetRow(w) \/ StreamUpload(w) \/ LocateFile(w) \/ DiskStep(w) \/ WriteRow(w)
      PROVE  VerInv'
  <2>1. NoUploads' /\ ReadRows' /\ FoundRows' /\ WantRows'
    BY <1>1, <1>6, VerGet, VerUpload, VerDisk, VerWrite
  <2>2. QED
    BY <1>1, <1>3, <1>6, <2>1 DEF VerInv, RepairLoops
<1>7. ASSUME NEW p \in Paths, CleanupTemporary(p), UNCHANGED <<bytes, sums, want, repair>>
      PROVE  VerInv'
  <2>1. UNCHANGED <<files, req>>
    BY <1>7 DEF CleanupTemporary
  <2>2. NoUploads' /\ WantRows' /\ RepairLoops'
    BY <1>7, <2>1 DEF VerInv, NoUploads, Uploading, WantRows, RepairLoops
  <2>3. QED
    BY <1>1, <1>3, <1>7, <2>1, <2>2, ReadKept DEF VerInv
<1>8. ASSUME NEW p \in Paths, Rewrite(p)
      PROVE  VerInv'
  <2>1. /\ repair'.pc = "idle" /\ UNCHANGED <<files, req, sums, want, repair>>
        /\ \A w \in Workers : req[w].path # p
    BY <1>8 DEF Rewrite, vars, Maintained
  <2>2. \A q \in Paths \ {p} : bytes'[q] = bytes[q]
    BY <1>8, VerTypes DEF Rewrite
  <2>3. WantRows'
    <3>1. ASSUME NEW w \in Workers, AboutRow(req[w])
          PROVE  bytes'[req[w].path] = bytes[req[w].path]
      <4>1. req[w].path \in Paths
        BY <3>1, VerTypes DEF IInv, ReqShape, Shape, AboutRow, IdleReq, TypeOK
      <4>2. QED
        BY <2>1, <2>2, <4>1
    <3>2. QED
      BY <2>1, <3>1 DEF VerInv, WantRows
  <2>4. RepairLoops'
    BY <2>1 DEF RepairLoops
  <2>5. QED
    BY <1>1, <1>3, <2>1, <2>3, <2>4 DEF VerInv, NoUploads, ReadRows, FoundRows
<1>9. CASE StopAll
  <2>1. repair' = IdleRepair /\ \A w \in Workers : req'[w] = IdleReq
    BY <1>9 DEF StopAll, Crash
  <2>2. QED
    BY <1>1, <1>3, <2>1 DEF VerInv, IdleRepair, RepairLoops, NoUploads, ReadRows, FoundRows,
       WantRows, AboutRow, IdleReq
<1>10. QED
  BY <1>4, <1>5, <1>6, <1>7, <1>8, <1>9 DEF RNext

\* The repair, the rows and the requests are in step in every state.
LEMMA VerAlways == ASSUME Maintained PROVE RSpec => []VerInv
<1>1. ASSUME RInit PROVE VerInv
  <2>1. HInv /\ RepairTyped
    BY <1>1, HeldInit, RepairTypedInit DEF RInit
  <2>2. repair = IdleRepair /\ \A w \in Workers : req[w] = IdleReq
    BY <1>1 DEF RInit, Init
  <2>3. QED
    BY <2>1, <2>2 DEF VerInv, IdleRepair, RepairLoops, NoUploads, ReadRows, FoundRows,
       WantRows, AboutRow, IdleReq
<1>2. VerInv /\ [RNext]_rvars => VerInv'
  BY VerStep
<1>3. QED
  BY <1>1, <1>2, PTL DEF RSpec

\* In a step, whose checksum changes and what becomes published.
LEMMA VerChanges ==
  ASSUME Maintained, VerInv, RNext, NEW i \in FileIds, files[i] # NoRow, files'[i] # NoRow
  PROVE  /\ sums'[i] # sums[i] /\ files[i].status = "published" => repair.include
         /\ files[i].status # "published" /\ files'[i].status = "published" =>
              sums'[i] = bytes'[files[i].path].content
<1>1. CASE RepairStep /\ UNCHANGED vars
  <2>1. files' = files
    BY <1>1 DEF vars
  <2>2. QED
    BY <1>1, <2>1, CommitWrites
<1>2. ASSUME NEW w \in Workers, WriteRow(w)
      PROVE  /\ sums'[i] = sums[i]
             /\ files[i].status # "published" /\ files'[i].status = "published" =>
                  sums'[i] = bytes'[files[i].path].content
  <2>1. CASE /\ TxWrite(w)
             /\ sums' = [k \in FileIds |-> IF files'[k] = NoRow THEN NoSum ELSE sums[k]]
    <3>1. sums'[i] = sums[i] /\ UNCHANGED bytes /\ Serial
      BY <1>2, <2>1 DEF WriteRow, Maintained
    <3>2. QED
      BY <2>1, <3>1, VerTxWrite
  <2>2. ASSUME NEW k \in FileIds, NEW scan \in ScanResults,
               Persist(w, k, scan), sums' = [sums EXCEPT ![k] = want[w]]
        PROVE  sums'[i] = sums[i] /\ files'[i] = files[i]
    BY <2>2, VerTypes DEF Persist, IsNextId
  <2>3. QED
    BY <1>2, <2>1, <2>2 DEF WriteRow
<1>3. CASE UNCHANGED <<files, sums>>
  BY <1>3
<1>4. ASSUME NEW w \in Workers, GetRow(w) \/ StreamUpload(w) \/ LocateFile(w) \/ DiskStep(w)
      PROVE  UNCHANGED <<files, sums>>
  <2>1. CASE GetRow(w) \/ StreamUpload(w) \/ LocateFile(w)
    BY <2>1 DEF GetRow, Get, StreamUpload, UploadStart, LocateFile, Locate
  <2>2. CASE DiskStep(w)
    BY <2>2 DEF DiskStep, Refuse, CheckMove, Replace, TxRead, CheckUndo,
       UndoReplace, Unlink, Streamed, StreamFails, PersistFails, CleanupPaths
  <2>3. QED
    BY <1>4, <2>1, <2>2
<1>5. CASE (\E p \in Paths : CleanupTemporary(p)) /\ UNCHANGED sums
  BY <1>5 DEF CleanupTemporary
<1>6. CASE (\E p \in Paths : Rewrite(p)) \/ StopAll
  BY <1>6 DEF Rewrite, StopAll, Crash, vars
<1>7. QED
  BY <1>1, <1>2, <1>3, <1>4, <1>5, <1>6 DEF RNext

\* "Published files are protected": one request at a time, in a maintenance window and on
\* a quiet storage, a repair that does not include published files changes the checksum of
\* none, not even of one published since its SELECT.
THEOREM RepairsProtectPublished == ASSUME Maintained PROVE RSpec => ProtectPublished
<1>1. VerInv /\ [RNext]_rvars =>
        [\A i \in FileIds :
          ~repair.include /\ files[i].status = "published" /\ files'[i] = files[i]
            => sums'[i] = sums[i]]_rvars
  <2>1. SUFFICES ASSUME VerInv, RNext, NEW i \in FileIds, ~repair.include,
                        files[i].status = "published", files'[i] = files[i]
                 PROVE  sums'[i] = sums[i]
    OBVIOUS
  <2>2. files[i] # NoRow
    BY <2>1 DEF NoRow
  <2>3. QED
    BY <2>1, <2>2, VerChanges
<1>2. QED
  BY <1>1, VerAlways, PTL DEF RSpec, ProtectPublished

\* What a publication commits is what it has verified, even if a repair rewrites the
\* checksum between the check and the commit.
THEOREM PublicationsAreVerified == ASSUME Maintained PROVE RSpec => PublishesVerified
<1>1. VerInv /\ [RNext]_rvars =>
        [\A i \in FileIds :
          files[i].status # "published" /\ files'[i].status = "published" /\ sums[i] # NoSum
            => sums'[i] = bytes'[files[i].path].content]_rvars
  <2>1. SUFFICES ASSUME VerInv, RNext, NEW i \in FileIds, files[i].status # "published",
                        files'[i].status = "published", sums[i] # NoSum
                 PROVE  sums'[i] = bytes'[files[i].path].content
    OBVIOUS
  <2>2. files[i] # NoRow /\ files'[i] # NoRow
    BY <2>1, VerTypes DEF NoRow
  <2>3. QED
    BY <2>1, <2>2, VerChanges
<1>2. QED
  BY <1>1, VerAlways, PTL DEF RSpec, PublishesVerified

-----------------------------------------------------------------------------
(* A storage verification beside the requests, and beside mishaps that copy files *)

\* The request of w ends or goes on, and so do rows, bytes and alarms.
LEMMA ShapedOn ==
  ASSUME Shaped, NEW w \in Workers, Serves(w), used' = used,
         store' \in [Paths -> SUBSET Area], alarms' \subseteq Paths,
         files' \in [FileIds -> Row \cup {NoRow}],
         \A i \in FileIds : files'[i] # NoRow => files'[i].path \in used,
         Shape(req'[w])
  PROVE  Shaped'
<1>1. TypeOK'
  BY DEF Shaped, TypeOK, Serves
<1>2. ReqShape'
  BY DEF Shaped, ReqShape, Shape, Serves
<1>3. QED
  BY <1>1, <1>2 DEF Shaped

\* The idle request has the shape of one.
LEMMA IdleShape == Shape(IdleReq)
  BY DEF Shape, IdleReq

\* The steps that leave the table alone.
LEMMA ShapedDisk ==
  ASSUME Shaped, NEW w \in Workers, WorkerStep(w), UNCHANGED files
  PROVE  Shaped'
<1> DEFINE r == req[w]
<1>1. /\ TypeOK /\ Shape(r) /\ r \in Request /\ store \in [Paths -> SUBSET Area]
      /\ files \in [FileIds -> Row \cup {NoRow}] /\ alarms \subseteq Paths
      /\ r.pc # "idle" => r.path \in Paths
      /\ \A i \in FileIds : files[i] # NoRow => files[i].path \in used
  BY DEF Shaped, ReqShape, TypeOK, Shape
<1>2. /\ used' = used /\ r.pc # "idle"
      /\ alarms' \subseteq Paths
      /\ UNCHANGED store \/ \E S : store' = [store EXCEPT ![r.path] = S] /\ S \subseteq Area
  <2>1. CASE Locate(w) \/ Refuse(w) \/ CheckMove(w) \/ TxRead(w)
    BY <1>1, <2>1 DEF Locate, Refuse, CheckMove, TxRead
  <2>2. CASE Replace(w)
    <3>1. MoveTo(r.op) \in Area
      BY MoveToType DEF Area, StorageArea
    <3>2. (store[r.path] \ {r.area}) \cup {MoveTo(r.op)} \subseteq Area
      BY <1>1, <2>2, <3>1 DEF Replace
    <3>3. QED
      BY <1>1, <2>2, <3>2 DEF Replace, Renamed
  <2>3. CASE TxWrite(w) \/ CheckUndo(w)
    BY <1>1, <2>3 DEF TxWrite, CheckUndo
  <2>4. CASE UndoReplace(w)
    <3>1. r.area \in Area
      BY <1>1, <2>4 DEF UndoReplace, Shape, Area
    <3>2. (store[r.path] \ {MoveTo(r.op)}) \cup {r.area} \subseteq Area
      BY <1>1, <2>4, <3>1 DEF UndoReplace
    <3>3. QED
      BY <1>1, <2>4, <3>2 DEF UndoReplace, Renamed
  <2>5. ASSUME NEW X, store' = [store EXCEPT ![r.path] = @ \ X], r.path \in Paths
        PROVE  \E S : store' = [store EXCEPT ![r.path] = S] /\ S \subseteq Area
    <3>1. store[r.path] \ X \subseteq Area
      BY <1>1, <2>5
    <3>2. store' = [store EXCEPT ![r.path] = store[r.path] \ X]
      BY <2>5
    <3>3. QED
      BY <3>1, <3>2
  <2>6. CASE Unlink(w)
    BY <1>1, <2>5, <2>6 DEF Unlink
  <2>7. CASE StreamFails(w)
    BY <1>1, <2>5, <2>7 DEF StreamFails
  <2>8. CASE CleanupPaths(w)
    BY <1>1, <2>5, <2>8 DEF CleanupPaths
  <2>9. CASE Streamed(w) \/ PersistFails(w)
    BY <1>1, <2>9 DEF Streamed, PersistFails
  <2>10. CASE \E i \in FileIds, scan \in ScanResults : Persist(w, i, scan)
    BY <1>1, <2>10 DEF Persist
  <2>11. QED
    BY <2>1, <2>2, <2>3, <2>4, <2>6, <2>7, <2>8, <2>9, <2>10 DEF WorkerStep
<1>3. store' \in [Paths -> SUBSET Area]
  BY <1>1, <1>2
<1>4. SUFFICES Serves(w) /\ Shape(req'[w])
  BY <1>1, <1>2, <1>3, ShapedOn
<1>5. CASE Become(w, IdleReq)
  BY <1>1, <1>5, IdleEffect, IdleShape
<1>6. ASSUME NEW q \in Pc, Become(w, [r EXCEPT !.pc = q])
      PROVE  /\ Serves(w) /\ SameFile(w) /\ req'[w].pc = q /\ req'[w].area = r.area
             /\ req'[w].change = r.change
  BY <1>1, <1>6, PcEffect
<1>7. CASE Become(w, MoveFailed(r)) /\ r.pc \in {"move", "replace"}
  <2>1. CASE r.op # "upload"
    BY <1>5, <1>7, <2>1 DEF MoveFailed
  <2>2. CASE r.op = "upload"
    <3>1. /\ Serves(w) /\ SameFile(w) /\ req'[w].pc = "cleanup" /\ req'[w].area = r.area
          /\ req'[w].change = r.change
      BY <1>6, <1>7, <2>2 DEF MoveFailed, Pc
    <3>2. QED
      BY <1>1, <1>2, <2>2, <3>1 DEF Shape, SameFile, Moves
  <2>3. QED
    BY <2>1, <2>2
<1>8. CASE Become(w, TxFailed(r)) /\ r.pc \in {"read", "write"}
  <2>1. CASE ~Moves(r.op, r.area)
    BY <1>5, <1>8, <2>1 DEF TxFailed
  <2>2. CASE Moves(r.op, r.area)
    <3>1. /\ Serves(w) /\ SameFile(w) /\ req'[w].pc = "undo" /\ req'[w].area = r.area
          /\ req'[w].change = r.change
      BY <1>6, <1>8, <2>2 DEF TxFailed, Pc
    <3>2. QED
      BY <1>1, <1>2, <1>8, <2>2, <3>1 DEF Shape, SameFile
  <2>3. QED
    BY <2>1, <2>2
<1>9. CASE Locate(w)
  <2>1. CASE r.op = "delete_metadata" /\ Become(w, [r EXCEPT !.pc = "read"])
    <3>1. /\ Serves(w) /\ SameFile(w) /\ req'[w].pc = "read" /\ req'[w].change = r.change
      BY <1>6, <2>1 DEF Pc
    <3>2. QED
      BY <1>1, <1>2, <2>1, <3>1 DEF Shape, SameFile, Moves
  <2>2. ASSUME NEW a \in StorageArea, AreaAccepted(r.op, a),
               Become(w, [r EXCEPT !.area = a,
                                   !.pc = IF Moves(r.op, a) THEN "move" ELSE "read"])
        PROVE  Serves(w) /\ Shape(req'[w])
    <3> DEFINE q == IF Moves(r.op, a) THEN "move" ELSE "read"
    <3>1. q \in Pc /\ a \in Area /\ Become(w, [r EXCEPT !.area = a, !.pc = q])
      BY <2>2 DEF Pc, Area
    <3>2. Serves(w) /\ SameFile(w) /\ req'[w].pc = q /\ req'[w].area = a
          /\ req'[w].change = r.change
      BY <1>1, <3>1, AreaEffect
    <3>3. r.pc = "locate"
      BY <1>9 DEF Locate
    <3>4. QED
      BY <1>1, <1>2, <2>2, <3>2, <3>3 DEF Shape, SameFile, AreaAccepted
  <2>3. QED
    BY <1>9, <2>1, <2>2 DEF Locate
<1>10. CASE CheckMove(w)
  <2>1. CASE Become(w, [r EXCEPT !.pc = "replace"])
    <3>1. /\ Serves(w) /\ SameFile(w) /\ req'[w].pc = "replace" /\ req'[w].area = r.area
          /\ req'[w].change = r.change /\ r.pc = "move"
      BY <1>6, <1>10, <2>1 DEF CheckMove, Pc
    <3>2. QED
      BY <1>1, <1>2, <3>1 DEF Shape, SameFile
  <2>2. QED
    BY <1>7, <1>10, <2>1 DEF CheckMove
<1>11. CASE Replace(w)
  <2>1. CASE r.op # "upload" /\ Become(w, [r EXCEPT !.pc = "read"])
    <3>1. /\ Serves(w) /\ SameFile(w) /\ req'[w].pc = "read" /\ req'[w].area = r.area
          /\ req'[w].change = r.change /\ r.pc = "replace"
      BY <1>6, <1>11, <2>1 DEF Replace, Pc
    <3>2. QED
      BY <1>1, <1>2, <2>1, <3>1 DEF Shape, SameFile
  <2>2. CASE r.op = "upload" /\ Become(w, [r EXCEPT !.pc = "scan", !.area = "quarantine"])
    <3> DEFINE n == [r EXCEPT !.pc = "scan", !.area = "quarantine"]
    <3>1. /\ n \in Request /\ n.pc = "scan" /\ n.op = r.op /\ n.id = r.id /\ n.path = r.path
          /\ n.area = "quarantine" /\ n.change = r.change
      BY <1>1 DEF Request, Pc, Area, StorageArea
    <3>2. Become(w, n)
      BY <2>2
    <3> HIDE DEF n
    <3>3. Serves(w) /\ req'[w] = n
      BY <1>1, <3>1, <3>2, BecomeEffect
    <3>4. QED
      BY <1>1, <1>2, <2>2, <3>1, <3>3 DEF Shape, Moves
  <2>3. QED
    BY <1>7, <1>11, <2>1, <2>2 DEF Replace
<1>12. CASE TxRead(w)
  <2> DEFINE c == r.op \in StatusOps /\ files[r.id].status # Target(r.op)
  <2>1. r.pc = "read"
    BY <1>12 DEF TxRead
  <2>2. CASE Become(w, [r EXCEPT !.pc = "write", !.change = c])
    <3>1. Serves(w) /\ SameFile(w) /\ req'[w].pc = "write" /\ req'[w].area = r.area
          /\ req'[w].change = c
      BY <1>1, <2>2, ChangeEffect DEF Pc
    <3>2. QED
      BY <1>1, <1>2, <2>1, <3>1 DEF Shape, SameFile
  <2>3. QED
    BY <1>8, <1>12, <2>1, <2>2 DEF TxRead
<1>13. CASE TxWrite(w)
  <2>1. CASE r.op = "permanently_delete" /\ Become(w, [r EXCEPT !.pc = "unlink"])
    <3>1. /\ Serves(w) /\ SameFile(w) /\ req'[w].pc = "unlink" /\ req'[w].area = r.area
          /\ req'[w].change = r.change /\ r.pc = "write"
      BY <1>6, <1>13, <2>1 DEF TxWrite, Pc
    <3>2. QED
      BY <1>1, <1>2, <2>1, <3>1 DEF Shape, SameFile
  <2>2. QED
    BY <1>5, <1>8, <1>13, <2>1 DEF TxWrite
<1>14. CASE CheckUndo(w)
  <2>1. CASE Become(w, [r EXCEPT !.pc = "undoReplace"])
    <3>1. /\ Serves(w) /\ SameFile(w) /\ req'[w].pc = "undoReplace" /\ req'[w].area = r.area
          /\ req'[w].change = r.change /\ r.pc = "undo"
      BY <1>6, <1>14, <2>1 DEF CheckUndo, Pc
    <3>2. QED
      BY <1>1, <1>2, <3>1 DEF Shape, SameFile
  <2>2. QED
    BY <1>5, <1>14, <2>1 DEF CheckUndo
<1>15. CASE Streamed(w) \/ PersistFails(w)
  <2>1. PICK q \in {"move", "cleanup"} :
           /\ Become(w, [r EXCEPT !.pc = q])
           /\ r.pc \in {"stream", "scan"} /\ (q = "move" => r.pc = "stream")
    BY <1>15 DEF Streamed, PersistFails
  <2>2. /\ Serves(w) /\ SameFile(w) /\ req'[w].pc = q /\ req'[w].area = r.area
        /\ req'[w].change = r.change
    BY <1>6, <2>1 DEF Pc
  <2>3. QED
    BY <1>1, <2>1, <2>2 DEF Shape, SameFile, Moves
<1>16. QED
  BY <1>5, <1>9, <1>10, <1>11, <1>12, <1>13, <1>14, <1>15
     DEF WorkerStep, Refuse, UndoReplace, Unlink, StreamFails, CleanupPaths, Persist

\* The steps that write to the table.
LEMMA ShapedWrite ==
  ASSUME Shaped, NEW w \in Workers,
         TxWrite(w) \/ \E i \in FileIds, scan \in ScanResults : Persist(w, i, scan)
  PROVE  Shaped'
<1> DEFINE r == req[w]
<1>1. /\ TypeOK /\ Shape(r) /\ r \in Request /\ store \in [Paths -> SUBSET Area]
      /\ files \in [FileIds -> Row \cup {NoRow}] /\ alarms \subseteq Paths /\ used \subseteq Paths
      /\ \A i \in FileIds : files[i] # NoRow => files[i].path \in used
      /\ UNCHANGED <<store, used, alarms>>
  BY DEF Shaped, ReqShape, TypeOK, TxWrite, Persist
<1>2. CASE UNCHANGED files
  BY <1>2, ShapedDisk DEF WorkerStep
<1>3. ASSUME NEW i \in FileIds, NEW scan \in ScanResults, Persist(w, i, scan)
      PROVE  Shaped'
  <2> DEFINE row == [path |-> r.path, status |-> InitialStatus(scan),
                     scanner |-> scan.scanner, match |-> scan.match]
  <2>1. r.path \in used /\ r.path \in Paths
    BY <1>1, <1>3 DEF Persist, Shape
  <2>2. row \in Row /\ row.path = r.path
    BY <2>1, InitialStatusType, FileAssumption DEF Row
  <2>3. files' = [files EXCEPT ![i] = row] /\ Become(w, IdleReq)
    BY <1>3 DEF Persist
  <2> HIDE DEF row
  <2>4. Serves(w) /\ req'[w] = IdleReq
    BY <1>1, <2>3, IdleEffect
  <2>5. /\ files' \in [FileIds -> Row \cup {NoRow}]
        /\ \A k \in FileIds : files'[k] # NoRow => files'[k].path \in used
    BY <1>1, <2>1, <2>2, <2>3
  <2>6. QED
    BY <1>1, <2>4, <2>5, ShapedOn, IdleShape
<1>4. CASE /\ r.change /\ files[r.id] # NoRow /\ r.pc = "write"
           /\ files' = [files EXCEPT ![r.id].status = Target(r.op)]
           /\ Become(w, IdleReq)
  <2>1. Serves(w) /\ req'[w] = IdleReq
    BY <1>1, <1>4, IdleEffect
  <2>2. Target(r.op) \in FileStatus /\ r.id \in FileIds
    BY <1>1, <1>4, TargetType DEF Shape, StatusOps
  <2>3. /\ files' \in [FileIds -> Row \cup {NoRow}]
        /\ \A k \in FileIds : files'[k] # NoRow => files'[k].path \in used
    BY <1>1, <1>4, <2>2 DEF Row
  <2>4. QED
    BY <1>1, <2>1, <2>3, ShapedOn, IdleShape
<1>5. CASE /\ r.op \in DeleteOps /\ r.pc = "write"
           /\ files' = [files EXCEPT ![r.id] = NoRow]
           /\ Become(w, IF r.op = "permanently_delete"
                        THEN [r EXCEPT !.pc = "unlink"] ELSE IdleReq)
  <2>1. /\ files' \in [FileIds -> Row \cup {NoRow}]
        /\ \A k \in FileIds : files'[k] # NoRow => files'[k].path \in used
    BY <1>1, <1>5
  <2>2. Serves(w) /\ Shape(req'[w])
    <3>1. CASE r.op = "permanently_delete"
      <4>1. /\ Serves(w) /\ SameFile(w) /\ req'[w].pc = "unlink" /\ req'[w].area = r.area
            /\ req'[w].change = r.change
        BY <1>1, <1>5, <3>1, PcEffect DEF Pc
      <4>2. QED
        BY <1>1, <1>5, <3>1, <4>1 DEF Shape, SameFile
    <3>2. CASE r.op # "permanently_delete"
      BY <1>1, <1>5, <3>2, IdleEffect, IdleShape
    <3>3. QED
      BY <3>1, <3>2
  <2>3. QED
    BY <1>1, <2>1, <2>2, ShapedOn
<1>6. QED
  BY <1>2, <1>3, <1>4, <1>5 DEF TxWrite

\* A request that arrives.
LEMMA ShapedArrive ==
  ASSUME Shaped, NEW w \in Workers, Arrive(w)
  PROVE  Shaped'
<1>1. /\ TypeOK /\ store \in [Paths -> SUBSET Area] /\ used \subseteq Paths
      /\ files \in [FileIds -> Row \cup {NoRow}] /\ alarms \subseteq Paths
      /\ \A i \in FileIds : files[i] # NoRow => files[i].path \in used
  BY DEF Shaped, TypeOK
<1>2. ASSUME NEW op \in Operation, NEW i \in FileIds, Get(w, op, i)
      PROVE  Shaped'
  <2> DEFINE n == [pc |-> "locate", op |-> op, id |-> i, path |-> files[i].path,
                   area |-> "none", change |-> FALSE]
  <2>1. /\ op \notin {"none", "upload"} /\ files[i] # NoRow /\ files[i] \in Row
        /\ UNCHANGED <<files, store, used, alarms>> /\ Become(w, n)
    BY <1>1, <1>2 DEF Get, Operation, StatusOps, DeleteOps
  <2>2. n \in Request /\ Shape(n)
    BY <1>1, <2>1 DEF Request, Pc, Row, Shape, Moves
  <2> HIDE DEF n
  <2>3. Serves(w) /\ req'[w] = n
    BY <1>1, <2>1, <2>2, BecomeEffect
  <2>4. QED
    BY <1>1, <2>1, <2>2, <2>3, ShapedOn
<1>3. ASSUME NEW p \in Paths, UploadStart(w, p)
      PROVE  Shaped'
  <2> DEFINE n == [pc |-> "stream", op |-> "upload", id |-> 0, path |-> p,
                   area |-> "temporary", change |-> FALSE]
  <2>1. /\ UNCHANGED <<files, alarms>> /\ used' = used \cup {p} /\ Become(w, n)
        /\ store' = [store EXCEPT ![p] = @ \cup {"temporary"}]
    BY <1>3 DEF UploadStart
  <2>2. n \in Request
    BY DEF Request, Pc, Operation, Area
  <2>3. Serves(w) /\ req'[w] = n
    BY <1>1, <2>1, <2>2, BecomeEffect
  <2>4. store' \in [Paths -> SUBSET Area]
    BY <1>1, <2>1 DEF Area
  <2>5. TypeOK'
    BY <1>1, <2>1, <2>3, <2>4 DEF TypeOK, Serves
  <2>6. ReqShape'
    BY <2>1, <2>3 DEF Shaped, ReqShape, Shape, Serves, Moves
  <2>7. QED
    BY <1>1, <2>1, <2>5, <2>6 DEF Shaped
<1>4. QED
  BY <1>2, <1>3 DEF Arrive

\* The state of a verification.
VerifierState == [pc : {"idle", "quarantine", "software", "hash", "walkQuarantine",
                        "walkSoftware", "report"},
                  known : SUBSET Paths, todo : SUBSET InspectedRow,
                  seen : SUBSET StorageArea, issues : SUBSET Issue]

\* A path of the SELECT and its row are as they were, and so is what was seen of it.
VerifierKnows ==
    verifier.pc # "idle" =>
        /\ \A i \in FileIds : files[i].path \in untouched => files[i].path \in verifier.known
        /\ \A r \in verifier.todo : r.path \in untouched =>
             files[r.id].path = r.path /\ files[r.id].status = r.status
        /\ \A x \in verifier.issues : x.path \in untouched => x \in Issues
        /\ verifier.pc \in {"software", "hash"} => verifier.todo # {}
        /\ verifier.pc = "software" /\ Current.path \in untouched =>
             verifier.seen = {"quarantine"} \cap store[Current.path]
        /\ verifier.pc = "hash" /\ Current.path \in untouched =>
             verifier.seen = Stored(Current.path) /\ Hashed(Current, verifier.seen)

\* Everything a verification reports of an untouched file is true.
VInv == Shaped /\ VTypeOK /\ verifier \in VerifierState /\ VerifierKnows

\* The row that is inspected is one of those still to be inspected.
LEMMA CurrentIsOne ==
  ASSUME verifier \in VerifierState, verifier.todo # {}
  PROVE  Current \in verifier.todo /\ Current \in InspectedRow
<1>1. {r.id : r \in verifier.todo} \in SUBSET Nat /\ {r.id : r \in verifier.todo} # {}
  BY DEF VerifierState, InspectedRow, FileIds
<1>2. PICK k \in {r.id : r \in verifier.todo} : \A m \in {r.id : r \in verifier.todo} : k <= m
  BY <1>1, SmallestOf
<1>3. Current \in verifier.todo
  BY <1>2 DEF Current
<1>4. QED
  BY <1>3 DEF VerifierState

\* What an issue of a path is about.
LEMMA IssueOf ==
  ASSUME NEW k \in Kind, NEW p \in Paths
  PROVE  [kind |-> k, path |-> p] \in Issues <=>
           \/ k = "missing" /\ Listed(p) /\ Stored(p) = {}
           \/ k = "duplicate" /\ Listed(p) /\ Stored(p) = StorageArea
           \/ /\ k = "area" /\ Listed(p) /\ Cardinality(Stored(p)) = 1
              /\ \E i \in FileIds : /\ files[i].path = p
                                    /\ ~(Stored(p) \subseteq AreaAllowed(files[i].status))
           \/ k = "checksum" /\ Listed(p) /\ Cardinality(Stored(p)) = 1 /\ p \in damaged
           \/ k = "orphan" /\ ~Listed(p) /\ Stored(p) # {}
<1>1. \A c, P : [kind |-> k, path |-> p] \in OfKind(c, P) <=> k = c /\ p \in P
  BY DEF OfKind
<1>2. QED
  BY <1>1 DEF Issues, Kind

\* An issue of a path that a step does not touch stays what it is.
LEMMA IssueKept ==
  ASSUME NEW x \in Issue, ~Touched(x.path), x \in Issues
  PROVE  x \in Issues'
<1> DEFINE p == x.path
           k == x.kind
<1>1. x = [kind |-> k, path |-> p] /\ k \in Kind /\ p \in Paths
  BY DEF Issue
<1>2. /\ \A i \in FileIds : files[i].path = p <=> files'[i].path = p
      /\ \A i \in FileIds : files[i].path = p => files'[i] = files[i]
      /\ store'[p] = store[p] /\ (p \in damaged <=> p \in damaged')
  BY DEF Touched
<1>3. /\ Listed(p)' <=> Listed(p)
      /\ Stored(p)' = Stored(p)
  BY <1>2 DEF Listed, Stored
<1>4. (\E i \in FileIds : files[i].path = p /\ ~(Stored(p) \subseteq AreaAllowed(files[i].status)))
        => \E i \in FileIds : files'[i].path = p
                /\ ~(Stored(p)' \subseteq AreaAllowed(files'[i].status))
  BY <1>2, <1>3
<1> HIDE DEF p, k
<1>5. /\ x \in Issues <=>
           \/ k = "missing" /\ Listed(p) /\ Stored(p) = {}
           \/ k = "duplicate" /\ Listed(p) /\ Stored(p) = StorageArea
           \/ /\ k = "area" /\ Listed(p) /\ Cardinality(Stored(p)) = 1
              /\ \E i \in FileIds : /\ files[i].path = p
                                    /\ ~(Stored(p) \subseteq AreaAllowed(files[i].status))
           \/ k = "checksum" /\ Listed(p) /\ Cardinality(Stored(p)) = 1 /\ p \in damaged
           \/ k = "orphan" /\ ~Listed(p) /\ Stored(p) # {}
  BY <1>1, IssueOf
<1>6. [kind |-> k, path |-> p] \in Issues' <=>
           \/ k = "missing" /\ Listed(p)' /\ Stored(p)' = {}
           \/ k = "duplicate" /\ Listed(p)' /\ Stored(p)' = StorageArea
           \/ /\ k = "area" /\ Listed(p)' /\ Cardinality(Stored(p)') = 1
              /\ \E i \in FileIds : /\ files'[i].path = p
                                    /\ ~(Stored(p)' \subseteq AreaAllowed(files'[i].status))
           \/ k = "checksum" /\ Listed(p)' /\ Cardinality(Stored(p)') = 1 /\ p \in damaged'
           \/ k = "orphan" /\ ~Listed(p)' /\ Stored(p)' # {}
  <2>1. \A c, P : [kind |-> k, path |-> p] \in OfKind(c, P) <=> k = c /\ p \in P
    BY DEF OfKind
  <2>2. QED
    BY <1>1, <2>1 DEF Issues, Kind
<1>7. QED
  BY <1>1, <1>3, <1>4, <1>5, <1>6, <1>2

\* The steps of the verification itself.
LEMMA VerifierReads ==
  ASSUME VInv, VerifierStep, UNCHANGED <<vars, damaged>>,
         verifier.pc # "idle" => untouched' \subseteq untouched,
         verifier.pc = "idle" /\ verifier'.pc # "idle" => untouched' = Paths
  PROVE  verifier' \in VerifierState /\ (verifier'.pc # "idle" => VerifierKnows')
<1>1. /\ files \in [FileIds -> Row \cup {NoRow}] /\ verifier \in VerifierState
      /\ store \in [Paths -> SUBSET Area] /\ untouched \subseteq Paths
  BY DEF VInv, Shaped, TypeOK, VTypeOK
<1>2. files' = files /\ store' = store /\ damaged' = damaged
  BY DEF vars
<1>3. Issues' = Issues
  BY <1>2 DEF Issues, Listed, Stored
<1>4. /\ IdleVerifier \in VerifierState /\ IdleVerifier.pc = "idle"
  BY DEF IdleVerifier, VerifierState
<1>5. \A p \in untouched' : verifier.pc # "idle" => p \in untouched
  OBVIOUS
<1>6. CASE SelectRows
  <2> DEFINE rows == {i \in FileIds : files[i] # NoRow}
             known == {files[i].path : i \in rows}
             row(i) == [id |-> i, path |-> files[i].path, status |-> files[i].status]
             todo == {row(i) : i \in rows}
  <2>1. verifier' = [IdleVerifier EXCEPT !.pc = "quarantine", !.known = known, !.todo = todo]
    BY <1>6 DEF SelectRows
  <2>2. known \in SUBSET Paths
    BY <1>1 DEF Row
  <2>3. todo \in SUBSET InspectedRow
    <3>1. \A i \in rows : row(i) \in InspectedRow
      BY <1>1 DEF InspectedRow, Row
    <3>2. QED
      BY <3>1
  <2>4. \A i \in FileIds : files[i].path \in Paths => files[i].path \in known
    BY FileAssumption DEF NoRow
  <2>5. \A r \in todo : files[r.id].path = r.path /\ files[r.id].status = r.status
    OBVIOUS
  <2> HIDE DEF known, todo
  <2>6. verifier' \in VerifierState /\ verifier'.pc = "quarantine" /\ verifier'.known = known
        /\ verifier'.todo = todo /\ verifier'.issues = {}
    BY <2>1, <2>2, <2>3 DEF IdleVerifier, VerifierState
  <2>7. verifier.pc = "idle"
    BY <1>6 DEF SelectRows
  <2>8. QED
    BY <1>2, <2>4, <2>5, <2>6, <2>7 DEF VerifierKnows
<1>7. ASSUME verifier.pc # "idle", verifier' \in VerifierState, verifier'.known = verifier.known,
             \A r \in verifier'.todo : r \in verifier.todo,
             \A x \in verifier'.issues :
               x \in verifier.issues \/ (x.path \in untouched => x \in Issues),
             verifier'.pc \in {"software", "hash"} =>
               verifier'.todo = verifier.todo /\ verifier.todo # {},
             verifier'.pc = "software" =>
               verifier'.seen = {"quarantine"} \cap store[Current.path],
             verifier'.pc = "hash" /\ Current.path \in untouched =>
               verifier'.seen = Stored(Current.path) /\ Hashed(Current, verifier'.seen)
      PROVE  VerifierKnows'
  <2>1. verifier'.pc \in {"software", "hash"} => Current' = Current
    BY <1>7 DEF Current
  <2>2. Stored(Current.path)' = Stored(Current'.path)
    BY <1>2 DEF Stored
  <2>3. /\ \A i \in FileIds : files[i].path \in untouched => files[i].path \in verifier.known
        /\ \A r \in verifier.todo : r.path \in untouched =>
             files[r.id].path = r.path /\ files[r.id].status = r.status
        /\ \A x \in verifier.issues : x.path \in untouched => x \in Issues
    BY <1>7 DEF VInv, VerifierKnows
  <2>4. /\ \A i \in FileIds : files'[i].path \in untouched' => files'[i].path \in verifier'.known
        /\ \A r \in verifier'.todo : r.path \in untouched' =>
             files'[r.id].path = r.path /\ files'[r.id].status = r.status
        /\ \A x \in verifier'.issues : x.path \in untouched' => x \in Issues'
    BY <1>2, <1>3, <1>5, <1>7, <2>3
  <2>5. verifier'.pc = "software" => verifier'.seen = {"quarantine"} \cap store'[Current'.path]
    BY <1>2, <1>7, <2>1
  <2>6. verifier'.pc = "hash" /\ Current'.path \in untouched' =>
          verifier'.seen = Stored(Current.path)' /\ Hashed(Current', verifier'.seen)
    BY <1>5, <1>7, <2>1, <2>2 DEF Stored
  <2>7. QED
    BY <1>7, <2>4, <2>5, <2>6 DEF VerifierKnows, Hashed
<1>8. ASSUME verifier.pc \in {"software", "hash"}
      PROVE  /\ Current \in verifier.todo /\ Current \in InspectedRow
             /\ Current.path \in untouched =>
                  /\ files[Current.id].path = Current.path
                  /\ files[Current.id].status = Current.status
                  /\ Listed(Current.path)
  <2>1. verifier.todo # {}
    BY <1>8 DEF VInv, VerifierKnows
  <2>2. Current \in verifier.todo /\ Current \in InspectedRow
    BY <1>1, <2>1, CurrentIsOne
  <2>3. QED
    BY <1>8, <2>2 DEF VInv, VerifierKnows, Listed, InspectedRow
<1>9. CASE LookIntoQuarantine
  <2>1. /\ verifier.pc = "quarantine" /\ verifier.todo # {}
        /\ verifier' = [verifier EXCEPT !.pc = "software",
                                        !.seen = {"quarantine"} \cap store[Current.path]]
    BY <1>9 DEF LookIntoQuarantine
  <2>2. {"quarantine"} \cap store[Current.path] \in SUBSET StorageArea
    BY DEF StorageArea
  <2>3. /\ verifier' \in VerifierState /\ verifier'.pc = "software"
        /\ verifier'.known = verifier.known /\ verifier'.todo = verifier.todo
        /\ verifier'.issues = verifier.issues
        /\ verifier'.seen = {"quarantine"} \cap store[Current.path]
    BY <1>1, <2>1, <2>2 DEF VerifierState
  <2>4. QED
    BY <1>7, <2>1, <2>3
<1>10. CASE LookIntoSoftware
  <2> DEFINE row == Current
             seen == verifier.seen \cup ({"software"} \cap store[row.path])
             found == {[kind |-> k, path |-> row.path] : k \in Placed(row, seen)}
  <2>1. /\ verifier.pc = "software"
        /\ verifier' = IF Hashed(row, seen)
             THEN [verifier EXCEPT !.pc = "hash", !.seen = seen, !.issues = @ \cup found]
             ELSE [verifier EXCEPT !.pc = "quarantine", !.seen = {}, !.todo = @ \ {row},
                                   !.issues = @ \cup found]
    BY <1>10 DEF LookIntoSoftware
  <2>2. /\ row \in verifier.todo /\ row \in InspectedRow /\ row.path \in Paths
        /\ row.id \in FileIds
        /\ row.path \in untouched =>
             files[row.id].path = row.path /\ files[row.id].status = row.status /\ Listed(row.path)
    BY <1>8, <2>1 DEF InspectedRow
  <2>3. row.path \in untouched => seen = Stored(row.path)
    BY <2>1 DEF VInv, VerifierKnows, Stored, StorageArea
  <2>4. seen \in SUBSET StorageArea
    BY <1>1, <2>1 DEF VerifierState, StorageArea
  <2>5. found \in SUBSET Issue
    BY <2>2 DEF Issue, Kind, Placed
  <2>6. ASSUME row.path \in untouched, NEW k \in Placed(row, seen)
        PROVE  [kind |-> k, path |-> row.path] \in Issues
    <3>1. k \in Kind
      BY DEF Kind, Placed
    <3>2. CASE seen = {}
      BY <2>2, <2>3, <2>6, <3>1, <3>2, IssueOf DEF Placed
    <3>3. CASE seen = StorageArea
      BY <2>2, <2>3, <2>6, <3>1, <3>3, IssueOf DEF Placed, StorageArea
    <3>4. CASE seen # {} /\ seen # StorageArea
      <4>1. k = "area" /\ ~(seen \subseteq AreaAllowed(row.status))
        BY <2>6, <3>4 DEF Placed
      <4>2. \E a : seen = {a}
        BY <2>4, <3>4 DEF StorageArea
      <4>3. Cardinality(seen) = 1
        BY <4>2, FS_Singleton
      <4>4. QED
        BY <2>2, <2>3, <2>6, <3>1, <4>1, <4>3, IssueOf
    <3>5. QED
      BY <3>2, <3>3, <3>4
  <2>7. \A x \in found : x.path \in untouched => x \in Issues
    <3>1. TAKE x \in found
    <3>2. PICK k \in Placed(row, seen) : x = [kind |-> k, path |-> row.path]
      BY <3>1
    <3>3. x.path = row.path
      BY <3>2
    <3> HIDE DEF row, seen, found
    <3>4. QED
      BY <2>6, <3>2, <3>3
  <2> HIDE DEF row, seen, found
  <2> DEFINE rest == verifier.todo \ {row}
             all == verifier.issues \cup found
  <2>8. rest \in SUBSET InspectedRow /\ all \in SUBSET Issue
    BY <1>1, <2>5 DEF VerifierState
  <2>9. /\ \A r \in rest : r \in verifier.todo
        /\ \A x \in all : x \in verifier.issues \/ x \in found
    OBVIOUS
  <2>10. IF Hashed(row, seen)
         THEN verifier' = [verifier EXCEPT !.pc = "hash", !.seen = seen, !.issues = all]
         ELSE verifier' = [verifier EXCEPT !.pc = "quarantine", !.seen = {}, !.todo = rest,
                                           !.issues = all]
    BY <2>1
  <2> HIDE DEF rest, all
  <2>11. CASE Hashed(row, seen)
    <3>1. /\ verifier' \in VerifierState /\ verifier'.pc = "hash"
          /\ verifier'.known = verifier.known /\ verifier'.todo = verifier.todo
          /\ verifier'.issues = all /\ verifier'.seen = seen
      BY <1>1, <2>4, <2>8, <2>10, <2>11 DEF VerifierState
    <3>2. QED
      BY <1>7, <2>1, <2>2, <2>3, <2>7, <2>9, <2>11, <3>1 DEF row
  <2>12. CASE ~Hashed(row, seen)
    <3>1. /\ verifier' \in VerifierState /\ verifier'.pc = "quarantine"
          /\ verifier'.known = verifier.known /\ verifier'.todo = rest
          /\ verifier'.issues = all
      BY <1>1, <2>4, <2>8, <2>10, <2>12 DEF VerifierState
    <3>2. QED
      BY <1>7, <2>1, <2>7, <2>9, <3>1
  <2>13. QED
    BY <2>11, <2>12
<1>11. CASE Hash /\ verifier' # IdleVerifier
  <2> DEFINE row == Current
             found == IF row.path \in damaged THEN OfKind("checksum", {row.path}) ELSE {}
             rest == verifier.todo \ {row}
             all == verifier.issues \cup found
  <2>1. /\ verifier.pc = "hash"
        /\ verifier' = [verifier EXCEPT !.pc = "quarantine", !.seen = {}, !.todo = rest,
                                        !.issues = all]
    BY <1>11 DEF Hash
  <2>2. /\ row.path \in Paths
        /\ row.path \in untouched => Listed(row.path) /\ Cardinality(Stored(row.path)) = 1
    BY <1>8, <2>1 DEF InspectedRow, VInv, VerifierKnows, Hashed
  <2>3. \A x \in found : x = [kind |-> "checksum", path |-> row.path] /\ row.path \in damaged
    BY DEF OfKind
  <2>4. \A x \in found : x \in Issue /\ (x.path \in untouched => x \in Issues)
    BY <2>2, <2>3, IssueOf DEF Issue, Kind
  <2>5. rest \in SUBSET InspectedRow /\ all \in SUBSET Issue
    BY <1>1, <2>4 DEF VerifierState
  <2>6. /\ \A r \in rest : r \in verifier.todo
        /\ \A x \in all : x \in verifier.issues \/ x \in found
    OBVIOUS
  <2> HIDE DEF rest, all, found
  <2>7. /\ verifier' \in VerifierState /\ verifier'.pc = "quarantine"
        /\ verifier'.known = verifier.known /\ verifier'.todo = rest
        /\ verifier'.issues = all
    BY <1>1, <2>1, <2>5 DEF VerifierState
  <2>8. QED
    BY <1>7, <2>1, <2>4, <2>6, <2>7
<1>12. CASE AllInspected
  <2>1. /\ verifier.pc = "quarantine" /\ verifier' = [verifier EXCEPT !.pc = "walkQuarantine"]
    BY <1>12 DEF AllInspected
  <2>2. /\ verifier' \in VerifierState /\ verifier'.pc = "walkQuarantine"
        /\ verifier'.known = verifier.known /\ verifier'.todo = verifier.todo
        /\ verifier'.issues = verifier.issues
    BY <1>1, <2>1 DEF VerifierState
  <2>3. QED
    BY <1>7, <2>1, <2>2
<1>13. ASSUME NEW pc \in {"walkQuarantine", "walkSoftware"}, NEW a \in StorageArea,
              NEW next \in {"walkSoftware", "report"}, WalkArea(pc, a, next)
       PROVE  verifier' \in VerifierState /\ VerifierKnows'
  <2> DEFINE all == verifier.issues \cup UnknownFiles(a)
  <2>1. verifier.pc = pc /\ verifier' = [verifier EXCEPT !.pc = next, !.issues = all]
    BY <1>13 DEF WalkArea
  <2>2. \A x \in UnknownFiles(a) : \E p \in Paths \ verifier.known :
          x = [kind |-> "orphan", path |-> p] /\ a \in store[p]
    BY DEF UnknownFiles, OfKind
  <2>3. ASSUME NEW p \in Paths \ verifier.known, a \in store[p]
        PROVE  /\ [kind |-> "orphan", path |-> p] \in Issue
               /\ p \in untouched => [kind |-> "orphan", path |-> p] \in Issues
    <3>1. [kind |-> "orphan", path |-> p] \in Issue
      BY DEF Issue, Kind
    <3>2. p \in untouched => ~Listed(p)
      BY <2>1 DEF VInv, VerifierKnows, Listed
    <3>3. Stored(p) # {}
      BY <2>3 DEF Stored
    <3>4. QED
      BY <3>1, <3>2, <3>3, IssueOf DEF Kind
  <2>4. \A x \in UnknownFiles(a) : x \in Issue /\ (x.path \in untouched => x \in Issues)
    BY <2>2, <2>3
  <2>5. all \in SUBSET Issue
    BY <1>1, <2>4 DEF VerifierState
  <2>6. \A x \in all : x \in verifier.issues \/ x \in UnknownFiles(a)
    OBVIOUS
  <2> HIDE DEF all
  <2>7. /\ verifier' \in VerifierState /\ verifier'.pc = next
        /\ verifier'.known = verifier.known /\ verifier'.todo = verifier.todo
        /\ verifier'.issues = all
    BY <1>1, <2>1, <2>5 DEF VerifierState
  <2>8. QED
    BY <1>7, <2>1, <2>4, <2>6, <2>7
<1>14. QED
  BY <1>4, <1>6, <1>9, <1>10, <1>11, <1>12, <1>13
     DEF VerifierStep, Reported, Hash, StorageArea

\* What others do beside a verification ends what is known of the paths they touch.
LEMMA VerifierBeside ==
  ASSUME VInv, UNCHANGED verifier, verifier.pc # "idle",
         files' \in [FileIds -> Row \cup {NoRow}],
         untouched' = {p \in untouched : ~Touched(p)}
  PROVE  VerifierKnows'
<1>1. \A p \in untouched' : /\ p \in untouched /\ ~Touched(p)
                            /\ store'[p] = store[p]
                            /\ \A i \in FileIds : files[i].path = p <=> files'[i].path = p
                            /\ \A i \in FileIds : files[i].path = p => files'[i] = files[i]
  BY DEF Touched
<1>2. /\ \A i \in FileIds : files[i].path \in untouched => files[i].path \in verifier.known
      /\ \A r \in verifier.todo : r.path \in untouched =>
           files[r.id].path = r.path /\ files[r.id].status = r.status
      /\ \A x \in verifier.issues : x.path \in untouched => x \in Issues
  BY DEF VInv, VerifierKnows
<1>3. /\ \A x \in verifier.issues : x \in Issue
      /\ \A r \in verifier.todo : r.id \in FileIds
  BY DEF VInv, VerifierState, InspectedRow
<1>4. Current' = Current
  BY DEF Current
<1>5. \A x \in verifier'.issues : x.path \in untouched' => x \in Issues'
  BY <1>1, <1>2, <1>3, IssueKept
<1>6. \A i \in FileIds : files'[i].path \in untouched' => files'[i].path \in verifier'.known
  BY <1>1, <1>2
<1>7. \A r \in verifier'.todo : r.path \in untouched' =>
           files'[r.id].path = r.path /\ files'[r.id].status = r.status
  BY <1>1, <1>2, <1>3
<1>8. Current.path \in untouched' => Stored(Current.path)' = Stored(Current.path)
  BY <1>1, <1>4 DEF Stored
<1>9. /\ verifier'.pc \in {"software", "hash"} => verifier'.todo # {}
      /\ verifier'.pc = "software" /\ Current'.path \in untouched' =>
           verifier'.seen = {"quarantine"} \cap store'[Current'.path]
      /\ verifier'.pc = "hash" /\ Current'.path \in untouched' =>
           verifier'.seen = Stored(Current.path)' /\ Hashed(Current', verifier'.seen)
  BY <1>1, <1>4, <1>8 DEF VInv, VerifierKnows
<1>10. QED
  BY <1>5, <1>6, <1>7, <1>9 DEF VerifierKnows, Hashed

\* The requests and what befalls the storage keep their types.
LEMMA ShapedNext ==
  ASSUME VInv, [VNext]_vvars
  PROVE  Shaped'
<1>1. /\ Shaped /\ TypeOK /\ ReqShape /\ store \in [Paths -> SUBSET Area]
      /\ \A i \in FileIds : files[i] # NoRow => files[i].path \in used
  BY DEF VInv, Shaped, TypeOK
<1>2. ASSUME UNCHANGED <<files, used, req>>, alarms' = alarms,
             store' \in [Paths -> SUBSET Area]
      PROVE  Shaped'
  BY <1>1, <1>2 DEF Shaped, TypeOK, ReqShape, Shape
<1>3. ASSUME NEW w \in Workers, WorkerStep(w)
      PROVE  Shaped'
  <2>1. \/ UNCHANGED files
        \/ TxWrite(w)
        \/ \E i \in FileIds, scan \in ScanResults : Persist(w, i, scan)
    BY <1>3 DEF WorkerStep, Locate, Refuse, CheckMove, Replace, TxRead, CheckUndo,
       UndoReplace, Unlink, Streamed, StreamFails, PersistFails, CleanupPaths
  <2>2. QED
    BY <1>1, <1>3, <2>1, ShapedDisk, ShapedWrite
<1>4. ASSUME NEW p \in Paths, CleanupTemporary(p)
      PROVE  Shaped'
  BY <1>1, <1>2, <1>4 DEF CleanupTemporary
<1>5. ASSUME NEW p \in Paths, Mishap(p)
      PROVE  Shaped'
  BY <1>1, <1>2, <1>5 DEF Mishap, Area
<1>6. CASE Crash
  <2>1. /\ UNCHANGED <<files, store, used, alarms>>
        /\ req' \in [Workers -> Request] /\ \A w \in Workers : req'[w] = IdleReq
    BY <1>6, IdleReqType DEF Crash
  <2>2. TypeOK' /\ ReqShape'
    BY <1>1, <2>1 DEF TypeOK, ReqShape, Shape, IdleReq
  <2>3. QED
    BY <1>1, <2>1, <2>2 DEF Shaped
<1>7. CASE UNCHANGED vars
  BY <1>1, <1>2, <1>7 DEF vars
<1>8. QED
  BY <1>1, <1>3, <1>4, <1>5, <1>6, <1>7, ShapedArrive DEF VNext, vvars, vars, RequestStep

\* Every step of a verification and beside it.
LEMMA VNextVInv ==
  ASSUME VInv, [VNext]_vvars
  PROVE  VInv'
<1>1. /\ Shaped' /\ verifier \in VerifierState
      /\ damaged \subseteq Paths /\ mishaps \in 0..MaxMishaps
      /\ troubled \subseteq Paths \X BOOLEAN /\ untouched \subseteq Paths
  BY ShapedNext DEF VInv, VTypeOK
<1>2. files' \in [FileIds -> Row \cup {NoRow}] /\ TypeOK'
  BY <1>1 DEF Shaped, TypeOK
<1>3. CASE UNCHANGED vvars
  <2>1. /\ files' = files /\ store' = store /\ verifier' = verifier /\ damaged' = damaged
        /\ mishaps' = mishaps /\ troubled' = troubled /\ untouched' = untouched
    BY <1>3 DEF vvars
  <2>2. VTypeOK'
    BY <1>2, <2>1 DEF VInv, VTypeOK
  <2>3. /\ Current' = Current /\ Issues' = Issues
        /\ Stored(Current.path)' = Stored(Current.path)
    BY <2>1 DEF Current, Issues, Listed, Stored
  <2>4. VerifierKnows'
    BY <2>1, <2>3 DEF VInv, VerifierKnows, Hashed
  <2>5. QED
    BY <1>1, <2>1, <2>2, <2>4 DEF VInv
<1>4. CASE VNext
  <2>1. damaged' \subseteq Paths /\ mishaps' \in 0..MaxMishaps
    BY <1>1, <1>4, MishapAssumption DEF VNext, RequestStep, Mishap
  <2>2. /\ verifier'.pc = "idle" => untouched' = {}
        /\ verifier.pc = "idle" /\ verifier'.pc # "idle" => untouched' = Paths
        /\ verifier.pc # "idle" /\ verifier'.pc # "idle" =>
             untouched' = {p \in untouched : ~Touched(p)}
    BY <1>4 DEF VNext
  <2>3. untouched' \subseteq Paths
    BY <1>1, <2>2
  <2>4. troubled' \subseteq Paths \X BOOLEAN
    <3>1. Troubled' \subseteq Paths \X BOOLEAN
      <4>1. \A x \in Issues' : x.path \in Paths
        <5>1. \A c : \A P \in SUBSET Paths : \A x \in OfKind(c, P) : x.path \in Paths
          BY DEF OfKind
        <5>2. QED
          BY <5>1 DEF Issues
      <4>2. \A x \in Issues' : <<x.path, x.kind = "orphan">> \in Paths \X BOOLEAN
        BY <4>1
      <4>3. QED
        BY <4>2 DEF Troubled
    <3>2. QED
      BY <1>1, <1>4, <3>1 DEF VNext
  <2>5. verifier' \in VerifierState /\ VerifierKnows'
    <3>1. CASE VerifierStep /\ UNCHANGED <<vars, damaged>>
      <4>1. verifier' \in VerifierState /\ (verifier'.pc # "idle" => VerifierKnows')
        <5>1. verifier.pc # "idle" => untouched' \subseteq untouched
          BY <2>2
        <5>2. verifier.pc = "idle" /\ verifier'.pc # "idle" => untouched' = Paths
          BY <2>2
        <5>3. QED
          BY <3>1, <5>1, <5>2, VerifierReads
      <4>2. verifier'.pc = "idle" => VerifierKnows'
        BY DEF VerifierKnows
      <4>3. QED
        BY <4>1, <4>2
    <3>2. CASE UNCHANGED verifier
      BY <1>1, <1>2, <2>2, <3>2, VerifierBeside DEF VerifierKnows
    <3>3. CASE verifier' = IdleVerifier
      BY <3>3 DEF IdleVerifier, VerifierState, VerifierKnows
    <3>4. QED
      BY <1>4, <3>1, <3>2, <3>3 DEF VNext, RequestStep, Mishap
  <2>6. VTypeOK'
    BY <1>2, <2>1, <2>3, <2>4, <2>5 DEF VTypeOK, VerifierState
  <2>7. QED
    BY <1>1, <2>5, <2>6 DEF VInv
<1>5. QED
  BY <1>3, <1>4

\* What a verification knows is so in every state.
LEMMA VerifierAlways == VSpec => []VInv
<1>1. ASSUME VInit PROVE VInv
  <2>1. IInv /\ \A i \in FileIds : files[i] = NoRow
    BY <1>1, InitIInv DEF VInit, Init
  <2>2. Shaped
    BY <2>1 DEF IInv, Shaped, PathsOnce
  <2>3. verifier = IdleVerifier /\ verifier \in VerifierState
    BY <1>1 DEF VInit, IdleVerifier, VerifierState
  <2>4. VTypeOK
    BY <1>1, <2>2, <2>3, MishapAssumption DEF VInit, VTypeOK, VerifierState, Shaped
  <2>5. QED
    BY <2>2, <2>3, <2>4 DEF VInv, VerifierKnows, IdleVerifier
<1>2. VInv /\ [VNext]_vvars => VInv'
  BY VNextVInv
<1>3. QED
  BY <1>1, <1>2, PTL DEF VSpec

\* What verify_storage says of a file that nobody touched while it ran is true, beside any
\* requests, any faults and any damage, loss or second copies.
THEOREM ReportsAreTrue == VSpec => []NoFalseAlarm
<1>1. VInv => NoFalseAlarm
  BY DEF VInv, VerifierKnows, NoFalseAlarm
<1>2. QED
  BY <1>1, VerifierAlways, PTL

\* What a verification has read and found, and what befell the storage, keep their types,
\* beside any requests, faults and mishaps.
THEOREM VerificationIsTyped == VSpec => []VTypeOK
<1>1. VInv => VTypeOK
  BY DEF VInv
<1>2. QED
  BY <1>1, VerifierAlways, PTL

-----------------------------------------------------------------------------
(* A storage verification reports the trouble that lasts *)

\* An operator leaves a second copy of a file at most once.
FewCopies == "copy" \in Mishaps => MaxMishaps <= 1

\* The one copy may have been left; then nothing else befalls the storage.
Copied == "copy" \in Mishaps /\ mishaps = MaxMishaps

\* Nothing is stored under a name that was not generated yet.
UnusedEmpty == \A p \in Paths \ used : store[p] = {}

\* A path names at most one row.
RowsOnce == \A i, j \in FileIds : files[i] # NoRow /\ files[i].path = files[j].path => i = j

\* The path of an upload in flight has no row.
UploadsUnlisted ==
    \A w \in Workers : req[w].op = "upload" => \A i \in FileIds : files[i].path # req[w].path

\* Where the file of a request has to be when it commits a status.
Landing(r) == IF Moves(r.op, r.area) THEN MoveTo(r.op) ELSE r.area

\* A request that is to commit a status has its file there, unless it was lost.
Landed ==
    \A w \in Workers :
        LET r == req[w]
        IN  r.op \in StatusOps /\ r.pc # "locate" =>
                /\ r.area \in StorageArea /\ AreaAccepted(r.op, r.area)
                /\ r.pc \in {"read", "write"} =>
                     Landing(r) \in store[r.path] \/ Stored(r.path) = {}

\* What holds of one request at a time, whatever befalls the storage.
SoloInv ==
    /\ Held /\ UnusedEmpty /\ RowsOnce /\ UploadsUnlisted /\ Landed
    /\ Copied \/ SingleCopy

\* What a step of a request does to the storage: a rename forward or back, the unlinking
\* of a staged file, or the end of an upload.
LEMMA StoreKinds ==
  ASSUME Shaped, NEW w \in Workers, WorkerStep(w)
  PROVE  LET r == req[w]
             p == r.path
         IN  \/ UNCHANGED store
             \/ /\ r.pc = "replace" /\ r.area \in store[p]
                /\ store' = Renamed(p, r.area, MoveTo(r.op)) /\ UNCHANGED files
             \/ /\ r.pc = "undoReplace" /\ MoveTo(r.op) \in store[p]
                /\ store' = Renamed(p, MoveTo(r.op), r.area) /\ UNCHANGED files
                /\ Become(w, IdleReq)
             \/ /\ r.pc = "unlink" /\ store' = [store EXCEPT ![p] = @ \ {"deletions"}]
                /\ UNCHANGED files
             \/ /\ r.op = "upload" /\ UNCHANGED files
                /\ \E X \in SUBSET {"temporary", "quarantine"} :
                     store' = [store EXCEPT ![p] = @ \ X]
<1> DEFINE r == req[w]
           p == r.path
<1>1. Shape(r)
  BY DEF Shaped, ReqShape
<1>2. CASE Locate(w) \/ Refuse(w) \/ CheckMove(w) \/ TxRead(w) \/ TxWrite(w) \/ CheckUndo(w)
           \/ Streamed(w) \/ PersistFails(w)
           \/ \E i \in FileIds, scan \in ScanResults : Persist(w, i, scan)
  BY <1>2 DEF Locate, Refuse, CheckMove, TxRead, TxWrite, CheckUndo, Streamed, PersistFails,
     Persist
<1>3. CASE Replace(w)
  BY <1>3 DEF Replace
<1>4. CASE UndoReplace(w)
  BY <1>4 DEF UndoReplace
<1>5. CASE Unlink(w)
  BY <1>5 DEF Unlink
<1>6. CASE StreamFails(w)
  <2>1. r.op = "upload" /\ UNCHANGED files
    BY <1>1, <1>6 DEF StreamFails, Shape
  <2>2. {"temporary"} \in SUBSET {"temporary", "quarantine"}
    OBVIOUS
  <2>3. QED
    BY <1>6, <2>1, <2>2 DEF StreamFails
<1>7. CASE CleanupPaths(w)
  <2>1. r.op = "upload" /\ UNCHANGED files
    BY <1>1, <1>7 DEF CleanupPaths, Shape
  <2> DEFINE candidates == {"temporary"} \cup (IF r.area = "quarantine" THEN {"quarantine"}
                                               ELSE {})
  <2>2. PICK left \in SUBSET candidates : store' = [store EXCEPT ![p] = @ \ (candidates \ left)]
    BY <1>7 DEF CleanupPaths
  <2>3. candidates \ left \in SUBSET {"temporary", "quarantine"}
    OBVIOUS
  <2> HIDE DEF candidates
  <2>4. QED
    BY <2>1, <2>2, <2>3
<1>8. QED
  BY <1>2, <1>3, <1>4, <1>5, <1>6, <1>7 DEF WorkerStep

\* What a step of a request does to the rows.
LEMMA RowKinds ==
  ASSUME Serial, Held, NEW w \in Workers, WorkerStep(w)
  PROVE  LET r == req[w]
         IN  \/ UNCHANGED files
             \/ /\ r.pc = "write" /\ r.op \in StatusOps /\ r.id \in FileIds
                /\ files[r.id] \in Row /\ files[r.id].path = r.path
                /\ files' = [files EXCEPT ![r.id] = [files[r.id] EXCEPT !.status = Target(r.op)]]
                /\ UNCHANGED <<store, used>> /\ Serves(w) /\ req'[w] = IdleReq
             \/ /\ r.pc = "write" /\ r.op \in DeleteOps /\ r.id \in FileIds
                /\ files[r.id].path = r.path
                /\ files' = [files EXCEPT ![r.id] = NoRow] /\ UNCHANGED <<store, used>>
             \/ /\ r.op = "upload" /\ UNCHANGED <<store, used>> /\ Serves(w) /\ req'[w] = IdleReq
                /\ \E i \in FileIds, n \in Row : /\ files[i] = NoRow /\ n.path = r.path
                                                /\ files' = [files EXCEPT ![i] = n]
<1> DEFINE r == req[w]
<1>1. TypeOK /\ Shape(r)
  BY DEF Held, Shaped, ReqShape
<1>2. CASE TxWrite(w)
  <2>1. r.id \in FileIds /\ r.pc = "write" /\ files[r.id] \in Row /\ files[r.id].path = r.path
    BY <1>2, WriteEffect DEF RowHeld
  <2>2. UNCHANGED <<store, used>>
    BY <1>2 DEF TxWrite
  <2>3. Become(w, IdleReq) => Serves(w) /\ req'[w] = IdleReq
    BY <1>1, IdleEffect
  <2>4. QED
    BY <1>2, <2>1, <2>2, <2>3, WriteEffect
<1>3. ASSUME NEW i \in FileIds, NEW scan \in ScanResults, Persist(w, i, scan)
      PROVE  /\ r.op = "upload" /\ UNCHANGED <<store, used>> /\ Serves(w) /\ req'[w] = IdleReq
             /\ \E k \in FileIds, n \in Row : /\ files[k] = NoRow /\ n.path = r.path
                                             /\ files' = [files EXCEPT ![k] = n]
  <2> DEFINE n == [path |-> r.path, status |-> InitialStatus(scan),
                   scanner |-> scan.scanner, match |-> scan.match]
  <2>1. r.op = "upload" /\ r.path \in Paths /\ r.pc = "scan"
    BY <1>1, <1>3 DEF Persist, Shape, TypeOK
  <2>2. n \in Row /\ n.path = r.path
    BY <2>1, InitialStatusType, FileAssumption DEF Row
  <2>3. files[i] = NoRow /\ files' = [files EXCEPT ![i] = n] /\ Become(w, IdleReq)
        /\ UNCHANGED <<store, used>>
    BY <1>3 DEF Persist, IsNextId
  <2> HIDE DEF n
  <2>4. QED
    BY <1>1, <2>1, <2>2, <2>3, IdleEffect
<1>4. UNCHANGED files \/ TxWrite(w) \/ \E i \in FileIds, scan \in ScanResults : Persist(w, i, scan)
  BY DEF WorkerStep, Locate, Refuse, CheckMove, Replace, TxRead, CheckUndo,
     UndoReplace, Unlink, Streamed, StreamFails, PersistFails, CleanupPaths
<1>5. QED
  BY <1>2, <1>3, <1>4

\* How a request goes on that is about a row.
LEMMA ReqKinds ==
  ASSUME Serial, Held, NEW w \in Workers, WorkerStep(w)
  PROVE  LET r == req[w]
             p == r.path
             n == req'[w]
         IN  /\ Serves(w)
             /\ \/ n = IdleReq
                \/ n.op = "upload" /\ SameFile(w)
                \/ n.pc = "unlink" /\ n.op = "permanently_delete" /\ SameFile(w)
                \/ /\ r.pc = "locate" /\ SameFile(w) /\ UNCHANGED <<files, store>>
                   /\ \/ /\ n.area \in StorageArea /\ Stored(p) = {n.area}
                         /\ AreaAccepted(r.op, n.area)
                         /\ n.pc = IF Moves(r.op, n.area) THEN "move" ELSE "read"
                      \/ r.op = "delete_metadata"
                \/ /\ r.pc # "locate" /\ SameFile(w) /\ n.area = r.area
                   /\ n.pc # "locate" /\ UNCHANGED files
                   /\ n.pc \in {"read", "write"} =>
                        \/ r.pc = "read" /\ UNCHANGED store
                        \/ /\ r.pc = "replace" /\ r.area \in store[p]
                           /\ store' = Renamed(p, r.area, MoveTo(r.op))
<1> DEFINE r == req[w]
           p == r.path
<1>1. TypeOK /\ Shape(r) /\ r \in Request
  BY DEF Held, Shaped, ReqShape, TypeOK
<1>2. CASE Locate(w)
  <2>1. r.pc = "locate" /\ UNCHANGED <<files, store>>
    BY <1>2 DEF Locate
  <2>2. ASSUME NEW a \in StorageArea, Stored(p) = {a}, AreaAccepted(r.op, a),
               Become(w, [r EXCEPT !.area = a, !.pc = IF Moves(r.op, a) THEN "move" ELSE "read"])
        PROVE  /\ Serves(w) /\ SameFile(w) /\ req'[w].area = a
               /\ req'[w].pc = IF Moves(r.op, a) THEN "move" ELSE "read"
    BY <1>1, <2>2, AreaEffect DEF Pc, Area
  <2>3. ASSUME Become(w, [r EXCEPT !.pc = "read"])
        PROVE  Serves(w) /\ SameFile(w)
    BY <1>1, <2>3, PcEffect DEF Pc
  <2>4. QED
    BY <1>2, <2>1, <2>2, <2>3 DEF Locate, Stored
<1>3. CASE Become(w, IdleReq)
  BY <1>1, <1>3, IdleEffect
<1>4. CASE Become(w, MoveFailed(r))
  BY <1>1, <1>4, MoveFailedEffect DEF SameFile
<1>5. CASE Become(w, TxFailed(r)) /\ r.pc \in {"read", "write"} /\ UNCHANGED files
  BY <1>1, <1>5, TxFailedEffect
<1>6. CASE CheckMove(w)
  <2>1. CASE Become(w, [r EXCEPT !.pc = "replace"])
    BY <1>1, <1>6, <2>1, PcEffect DEF Pc, CheckMove
  <2>2. QED
    BY <1>4, <1>6, <2>1 DEF CheckMove
<1>7. CASE Replace(w)
  <2>1. CASE r.op # "upload" /\ Become(w, [r EXCEPT !.pc = "read"]) /\ r.area \in store[p]
             /\ store' = Renamed(p, r.area, MoveTo(r.op))
    <3>1. Serves(w) /\ SameFile(w) /\ req'[w].pc = "read" /\ req'[w].area = r.area
      BY <1>1, <2>1, PcEffect DEF Pc
    <3>2. r.pc = "replace" /\ UNCHANGED files
      BY <1>7 DEF Replace
    <3>3. QED
      BY <2>1, <3>1, <3>2
  <2>2. CASE r.op = "upload" /\ Become(w, [r EXCEPT !.pc = "scan", !.area = "quarantine"])
    <3>1. Become(w, [r EXCEPT !.area = "quarantine", !.pc = "scan"])
      BY <1>1, <2>2 DEF Request
    <3>2. QED
      BY <1>1, <2>2, <3>1, AreaEffect DEF Pc, Area, StorageArea, SameFile
  <2>3. QED
    BY <1>4, <1>7, <2>1, <2>2 DEF Replace
<1>8. CASE TxRead(w)
  <2>1. ASSUME NEW c \in BOOLEAN, Become(w, [r EXCEPT !.pc = "write", !.change = c])
        PROVE  /\ Serves(w) /\ SameFile(w) /\ req'[w].pc = "write" /\ req'[w].area = r.area
    BY <1>1, <2>1, ChangeEffect DEF Pc
  <2>2. r.pc = "read" /\ UNCHANGED <<files, store>>
    BY <1>8 DEF TxRead
  <2>3. QED
    BY <1>5, <1>8, <2>1, <2>2 DEF TxRead
<1>9. CASE TxWrite(w)
  <2>1. CASE Become(w, [r EXCEPT !.pc = "unlink"]) /\ r.op = "permanently_delete"
    BY <1>1, <2>1, PcEffect DEF Pc, SameFile
  <2>2. QED
    BY <1>3, <1>5, <1>9, <2>1 DEF TxWrite
<1>10. CASE CheckUndo(w)
  <2>1. CASE Become(w, [r EXCEPT !.pc = "undoReplace"])
    BY <1>1, <1>10, <2>1, PcEffect DEF Pc, CheckUndo
  <2>2. QED
    BY <1>3, <1>10, <2>1 DEF CheckUndo
<1>11. CASE Streamed(w) \/ PersistFails(w)
  <2>1. r.op = "upload"
    BY <1>1, <1>11 DEF Streamed, PersistFails, Shape
  <2>2. Serves(w) /\ SameFile(w)
    BY <1>1, <1>11, PcEffect DEF Streamed, PersistFails, Pc
  <2>3. QED
    BY <2>1, <2>2 DEF SameFile
<1>12. CASE Refuse(w) \/ UndoReplace(w) \/ Unlink(w) \/ StreamFails(w) \/ CleanupPaths(w)
            \/ \E i \in FileIds, scan \in ScanResults : Persist(w, i, scan)
  BY <1>3, <1>12 DEF Refuse, UndoReplace, Unlink, StreamFails, CleanupPaths, Persist
<1>13. QED
  BY <1>2, <1>6, <1>7, <1>8, <1>9, <1>10, <1>11, <1>12 DEF WorkerStep

\* A request that is served keeps unused names free.
LEMMA SoloUnused ==
  ASSUME Held, UnusedEmpty, NEW w \in Workers, Arrive(w) \/ WorkerStep(w)
  PROVE  UnusedEmpty'
<1> DEFINE p == req[w].path
<1>1. TypeOK /\ Shape(req[w]) /\ used \subseteq Paths
  BY DEF Held, Shaped, ReqShape, TypeOK
<1>2. CASE Arrive(w)
  <2>1. ASSUME NEW q \in Paths, UploadStart(w, q)
        PROVE  UnusedEmpty'
    <3>1. used' = used \cup {q} /\ \A x \in Paths \ {q} : store'[x] = store[x]
      BY <1>1, <2>1 DEF UploadStart, TypeOK
    <3>2. QED
      BY <3>1 DEF UnusedEmpty
  <2>2. QED
    BY <1>2, <2>1 DEF Arrive, Get, UnusedEmpty
<1>3. CASE WorkerStep(w)
  <2>1. p \in used /\ used' = used
    BY <1>1, <1>3 DEF WorkerStep, Locate, Refuse, CheckMove, Replace, TxRead, TxWrite, CheckUndo,
       UndoReplace, Unlink, Streamed, StreamFails, PersistFails, CleanupPaths, Persist, Shape
  <2>2. \A x \in Paths \ {p} : store'[x] = store[x]
    BY <1>1, <1>3, StoreKinds DEF Renamed, TypeOK, Held
  <2>3. QED
    BY <2>1, <2>2 DEF UnusedEmpty
<1>4. QED
  BY <1>2, <1>3

\* A rename, an unlinking and a new name leave one copy where there was one.
LEMMA SoloCopy ==
  ASSUME Held, UnusedEmpty, SingleCopy, NEW w \in Workers, Arrive(w) \/ WorkerStep(w)
  PROVE  SingleCopy'
<1> DEFINE p == req[w].path
<1>1. TypeOK /\ Shape(req[w]) /\ store \in [Paths -> SUBSET Area]
  BY DEF Held, Shaped, ReqShape, TypeOK
<1>2. ASSUME NEW q \in Paths, \A x \in Paths \ {q} : store'[x] = store[x],
             \A a, b \in store'[q] : a = b
      PROVE  SingleCopy'
  BY <1>2 DEF SingleCopy
<1>3. ASSUME NEW q \in Paths, UploadStart(w, q)
      PROVE  SingleCopy'
  <2>1. store[q] = {} /\ store' = [store EXCEPT ![q] = store[q] \cup {"temporary"}]
    BY <1>3 DEF UploadStart, UnusedEmpty
  <2>2. store'[q] = {"temporary"} /\ \A x \in Paths \ {q} : store'[x] = store[x]
    BY <1>1, <2>1
  <2>3. QED
    BY <1>2, <2>2
<1>4. ASSUME NEW a \in store[p], NEW b, store' = Renamed(p, a, b), p \in Paths
      PROVE  SingleCopy'
  <2>1. store[p] = {a}
    BY <1>4 DEF SingleCopy
  <2>2. store'[p] = {b} /\ \A x \in Paths \ {p} : store'[x] = store[x]
    BY <1>1, <1>4, <2>1 DEF Renamed
  <2>3. QED
    BY <1>2, <1>4, <2>2
<1>5. ASSUME NEW X, store' = [store EXCEPT ![p] = @ \ X], p \in Paths
      PROVE  SingleCopy'
  <2>1. store'[p] \subseteq store[p] /\ \A x \in Paths \ {p} : store'[x] = store[x]
    BY <1>1, <1>5
  <2>2. QED
    BY <1>2, <1>5, <2>1 DEF SingleCopy
<1>6. CASE UNCHANGED store
  BY <1>6 DEF SingleCopy
<1>7. CASE WorkerStep(w)
  <2>1. p \in Paths
    BY <1>1, <1>7 DEF WorkerStep, Locate, Refuse, CheckMove, Replace, TxRead, TxWrite, CheckUndo,
       UndoReplace, Unlink, Streamed, StreamFails, PersistFails, CleanupPaths, Persist, Shape,
       TypeOK
  <2>2. QED
    BY <1>4, <1>5, <1>6, <1>7, <2>1, StoreKinds DEF Held
<1>8. QED
  BY <1>3, <1>6, <1>7 DEF Arrive, Get

\* No two rows have the same path, and an upload has none.
LEMMA SoloRows ==
  ASSUME Serial, Held, Shaped', RowsOnce, UploadsUnlisted, NEW w \in Workers,
         Arrive(w) \/ WorkerStep(w)
  PROVE  RowsOnce' /\ UploadsUnlisted'
<1> DEFINE r == req[w]
<1>1. /\ TypeOK /\ Shape(r) /\ files \in [FileIds -> Row \cup {NoRow}]
      /\ \A i \in FileIds : files[i] # NoRow => files[i].path \in used
      /\ \A i \in FileIds : files[i].path \in Paths => files[i] # NoRow
      /\ \A v \in Workers : v = w
  BY FileAssumption DEF Held, Shaped, ReqShape, TypeOK, NoRow, Serial
<1>2. ASSUME NEW p \in Paths, UploadStart(w, p)
      PROVE  RowsOnce' /\ UploadsUnlisted'
  <2> DEFINE n == [pc |-> "stream", op |-> "upload", id |-> 0, path |-> p,
                   area |-> "temporary", change |-> FALSE]
  <2>1. n \in Request /\ n.path = p
    BY DEF Request, Pc, Operation, Area
  <2>2. Become(w, n) /\ UNCHANGED files /\ p \notin used
    BY <1>2 DEF UploadStart
  <2> HIDE DEF n
  <2>3. req'[w].path = p
    BY <1>1, <2>1, <2>2, BecomeEffect
  <2>4. UploadsUnlisted'
    BY <1>1, <2>2, <2>3 DEF UploadsUnlisted
  <2>5. QED
    BY <2>2, <2>4 DEF RowsOnce
<1>3. ASSUME NEW op \in Operation, NEW i \in FileIds, Get(w, op, i)
      PROVE  RowsOnce' /\ UploadsUnlisted'
  <2> DEFINE n == [pc |-> "locate", op |-> op, id |-> i, path |-> files[i].path,
                   area |-> "none", change |-> FALSE]
  <2>1. /\ files[i] # NoRow /\ files[i] \in Row /\ UNCHANGED files /\ Become(w, n)
        /\ op # "upload"
    BY <1>1, <1>3 DEF Get
  <2>2. n \in Request /\ n.op = op
    BY <1>1, <2>1 DEF Request, Pc, Row
  <2> HIDE DEF n
  <2>3. req'[w].op # "upload"
    BY <1>1, <2>1, <2>2, BecomeEffect
  <2>4. UploadsUnlisted'
    BY <1>1, <2>3 DEF UploadsUnlisted
  <2>5. QED
    BY <2>1, <2>4 DEF RowsOnce
<1>4. CASE WorkerStep(w)
  <2>1. req'[w] = IdleReq \/ SameFile(w)
    BY <1>4, ReqKinds
  <2>2. CASE UNCHANGED files
    BY <1>1, <2>1, <2>2 DEF RowsOnce, UploadsUnlisted, SameFile, IdleReq
  <2>3. ASSUME NEW i \in FileIds, NEW n \in Row \cup {NoRow}, r.op # "upload",
               files' = [files EXCEPT ![i] = n], n = NoRow \/ n.path = files[i].path
        PROVE  RowsOnce' /\ UploadsUnlisted'
    <3>1. /\ files'[i] = n /\ \A k \in FileIds \ {i} : files'[k] = files[k]
      BY <1>1, <2>3
    <3>2. n = NoRow => n.path = NoPath
      BY DEF NoRow
    <3>3. \A k \in FileIds : files'[k] # NoRow =>
              files[k] # NoRow /\ files'[k].path = files[k].path
      <4>1. n # NoRow => n.path \in Paths
        BY DEF Row
      <4>2. QED
        BY <1>1, <2>3, <3>1, <4>1
    <3>4. \A k \in FileIds : files'[k] = NoRow => files'[k].path = NoPath
      BY DEF NoRow
    <3>5. \A k \in FileIds : files'[k] # NoRow => files'[k].path \in Paths
      BY <1>1, <3>3 DEF Row
    <3>6. RowsOnce'
      BY <3>3, <3>4, <3>5, FileAssumption DEF RowsOnce
    <3>7. req'[w].op # "upload"
      BY <2>1, <2>3 DEF SameFile, IdleReq
    <3>8. QED
      BY <1>1, <3>6, <3>7 DEF UploadsUnlisted
  <2>4. CASE \E i \in FileIds, n \in Row : /\ files[i] = NoRow /\ n.path = r.path
                                          /\ files' = [files EXCEPT ![i] = n]
                                          /\ r.op = "upload" /\ req'[w] = IdleReq
    <3>1. PICK i \in FileIds, n \in Row : /\ files[i] = NoRow /\ n.path = r.path
                                          /\ files' = [files EXCEPT ![i] = n]
                                          /\ r.op = "upload" /\ req'[w] = IdleReq
      BY <2>4
    <3>2. /\ files'[i] = n /\ \A k \in FileIds \ {i} : files'[k] = files[k]
      BY <1>1, <3>1
    <3>3. \A k \in FileIds \ {i} : files'[k].path # n.path
      BY <3>1, <3>2 DEF UploadsUnlisted
    <3>4. RowsOnce'
      BY <3>1, <3>2, <3>3 DEF RowsOnce
    <3>5. UploadsUnlisted'
      BY <1>1, <3>1 DEF UploadsUnlisted, IdleReq
    <3>6. QED
      BY <3>4, <3>5
  <2>5. QED
    <3>1. CASE /\ r.op \in StatusOps /\ r.id \in FileIds /\ files[r.id] \in Row
               /\ files' = [files EXCEPT ![r.id] = [files[r.id] EXCEPT !.status = Target(r.op)]]
      <4> DEFINE n == [files[r.id] EXCEPT !.status = Target(r.op)]
      <4>1. n \in Row /\ n.path = files[r.id].path
        BY <3>1, TargetType DEF Row
      <4>2. r.op # "upload"
        BY <3>1 DEF StatusOps
      <4> HIDE DEF n
      <4>3. files' = [files EXCEPT ![r.id] = n]
        BY <3>1 DEF n
      <4>4. QED
        BY <2>3, <3>1, <4>1, <4>2, <4>3
    <3>2. CASE r.op \in DeleteOps /\ r.id \in FileIds /\ files' = [files EXCEPT ![r.id] = NoRow]
      BY <2>3, <3>2 DEF DeleteOps
    <3>3. QED
      BY <1>4, <2>2, <2>4, <3>1, <3>2, RowKinds
<1>5. QED
  BY <1>2, <1>3, <1>4 DEF Arrive

\* A request finds its file before it commits, and moves it where it has to be.
LEMMA SoloLanded ==
  ASSUME Serial, Held, Landed, NEW w \in Workers, Arrive(w) \/ WorkerStep(w)
  PROVE  Landed'
<1> DEFINE r == req[w]
           p == r.path
           n == req'[w]
<1>1. /\ TypeOK /\ Shape(r) /\ store \in [Paths -> SUBSET Area]
      /\ files \in [FileIds -> Row \cup {NoRow}]
      /\ \A v \in Workers : v = w
  BY DEF Held, Shaped, ReqShape, TypeOK, Serial
<1>2. CASE n.op \notin StatusOps \/ n.pc = "locate"
  BY <1>1, <1>2 DEF Landed
<1>3. CASE Arrive(w)
  <2>1. ASSUME NEW q \in Paths, UploadStart(w, q)
        PROVE  n.op = "upload"
    <3> DEFINE m == [pc |-> "stream", op |-> "upload", id |-> 0, path |-> q,
                     area |-> "temporary", change |-> FALSE]
    <3>1. m \in Request /\ m.op = "upload" /\ Become(w, m)
      BY <2>1 DEF Request, Pc, Operation, Area, UploadStart
    <3> HIDE DEF m
    <3>2. QED
      BY <1>1, <3>1, BecomeEffect
  <2>2. ASSUME NEW op \in Operation, NEW i \in FileIds, Get(w, op, i)
        PROVE  n.pc = "locate"
    <3> DEFINE m == [pc |-> "locate", op |-> op, id |-> i, path |-> files[i].path,
                     area |-> "none", change |-> FALSE]
    <3>1. files[i] \in Row /\ Become(w, m)
      BY <1>1, <2>2 DEF Get
    <3>2. m \in Request /\ m.pc = "locate"
      BY <3>1 DEF Request, Pc, Row
    <3> HIDE DEF m
    <3>3. QED
      BY <1>1, <3>1, <3>2, BecomeEffect
  <2>3. QED
    BY <1>2, <1>3, <2>1, <2>2 DEF Arrive, StatusOps
<1>4. ASSUME WorkerStep(w), n.op \in StatusOps, n.pc # "locate"
      PROVE  Landed'
  <2>1. n.op \notin {"none", "upload", "delete_metadata", "permanently_delete"}
    BY <1>4 DEF StatusOps
  <2>2. SameFile(w) /\ n.path = p /\ n.op = r.op /\ p \in Paths
    BY <1>1, <1>4, <2>1, ReqKinds DEF SameFile, IdleReq, Shape, TypeOK, WorkerStep
  <2>3. CASE /\ r.pc = "locate" /\ UNCHANGED <<files, store>>
             /\ n.area \in StorageArea /\ Stored(p) = {n.area}
             /\ AreaAccepted(r.op, n.area)
             /\ n.pc = IF Moves(r.op, n.area) THEN "move" ELSE "read"
    <3>1. n.pc \in {"read", "write"} => Landing(n) = n.area
      BY <2>2, <2>3 DEF Landing
    <3>2. n.area \in store'[p]
      BY <2>3 DEF Stored
    <3>3. QED
      BY <1>1, <2>2, <2>3, <3>1, <3>2 DEF Landed
  <2>4. CASE /\ r.pc # "locate" /\ n.area = r.area
             /\ n.pc \in {"read", "write"} =>
                  \/ r.pc = "read" /\ UNCHANGED store
                  \/ /\ r.pc = "replace" /\ r.area \in store[p]
                     /\ store' = Renamed(p, r.area, MoveTo(r.op))
    <3>1. /\ r.area \in StorageArea /\ AreaAccepted(r.op, r.area)
          /\ r.pc \in {"read", "write"} => Landing(r) \in store[p] \/ Stored(p) = {}
      BY <1>4, <2>2, <2>4 DEF Landed
    <3>2. Landing(n) = Landing(r)
      BY <2>2, <2>4 DEF Landing
    <3>3. CASE UNCHANGED store /\ r.pc = "read"
      BY <1>1, <2>2, <2>4, <3>1, <3>2, <3>3 DEF Landed, Stored
    <3>4. CASE r.pc = "replace" /\ store' = Renamed(p, r.area, MoveTo(r.op))
      <4>1. Moves(r.op, r.area)
        BY <1>1, <1>4, <2>1, <2>2, <3>4 DEF Shape
      <4>2. Landing(r) \in store'[p]
        BY <1>1, <2>2, <3>4, <4>1 DEF Landing, Renamed
      <4>3. QED
        BY <1>1, <2>2, <2>4, <3>1, <3>2, <4>2 DEF Landed
    <3>5. CASE n.pc \notin {"read", "write"}
      BY <1>1, <2>2, <2>4, <3>1, <3>5 DEF Landed
    <3>6. QED
      BY <2>4, <3>3, <3>4, <3>5
  <2>5. QED
    BY <1>4, <2>1, <2>2, <2>3, <2>4, ReqKinds DEF IdleReq
<1>5. QED
  BY <1>2, <1>3, <1>4

\* A request is served.
LEMMA SoloServed ==
  ASSUME Serial, SoloInv, Shaped', NEW w \in Workers, Arrive(w) \/ WorkerStep(w),
         mishaps' = mishaps
  PROVE  SoloInv'
<1>1. Held /\ Landed /\ UnusedEmpty /\ RowsOnce /\ UploadsUnlisted
  BY DEF SoloInv
<1>2. Held'
  BY <1>1, HeldServed
<1>3. UnusedEmpty' /\ RowsOnce' /\ UploadsUnlisted' /\ Landed'
  BY <1>1, SoloUnused, SoloRows, SoloLanded
<1>4. (Copied \/ SingleCopy)'
  BY <1>1, SoloCopy DEF SoloInv, Copied
<1>5. QED
  BY <1>2, <1>3, <1>4 DEF SoloInv

\* What befalls the storage while the requests stand still.
LEMMA SoloStore ==
  ASSUME SoloInv, Shaped', UNCHANGED <<files, used, req>>,
         \A q \in Paths : store[q] = {} => store'[q] = {},
         \A w \in Workers :
           \/ Stored(req[w].path)' = {}
           \/ Stored(req[w].path) # {} /\ Stored(req[w].path) \subseteq Stored(req[w].path)',
         (Copied \/ SingleCopy)'
  PROVE  SoloInv'
<1>1. Held' /\ RowsOnce' /\ UploadsUnlisted' /\ UnusedEmpty'
  BY DEF SoloInv, Held, RowsHeld, PublishedApproved, RowsOnce, UploadsUnlisted, UnusedEmpty
<1>2. Landed'
  <2>1. SUFFICES ASSUME NEW w \in Workers, req[w].op \in StatusOps, req[w].pc # "locate"
        PROVE  /\ req[w].area \in StorageArea /\ AreaAccepted(req[w].op, req[w].area)
               /\ req[w].pc \in {"read", "write"} =>
                    Landing(req[w]) \in store'[req[w].path] \/ Stored(req[w].path)' = {}
    BY DEF Landed
  <2> DEFINE r == req[w]
  <2>2. /\ r.area \in StorageArea /\ AreaAccepted(r.op, r.area)
        /\ r.pc \in {"read", "write"} => Landing(r) \in store[r.path] \/ Stored(r.path) = {}
    BY <2>1 DEF SoloInv, Landed
  <2>3. Landing(r) \in StorageArea
    BY <2>1, <2>2 DEF Landing, Moves, MoveTo, StatusOps, StorageArea
  <2>4. QED
    BY <2>2, <2>3 DEF Stored
<1>3. QED
  BY <1>1, <1>2 DEF SoloInv

\* With at most one mishap that copies a file.
LEMMA SoloMishap ==
  ASSUME FewCopies, VInv, SoloInv, Shaped', NEW p \in Paths, Mishap(p)
  PROVE  SoloInv'
<1>1. /\ store \in [Paths -> SUBSET Area] /\ UNCHANGED <<files, used, req>>
      /\ mishaps \in 0..MaxMishaps /\ mishaps' = mishaps + 1 /\ mishaps < MaxMishaps
      /\ MaxMishaps \in Nat /\ Stored(p) # {}
  BY MishapAssumption DEF VInv, VTypeOK, Shaped, TypeOK, Mishap
<1>2. \A w \in Workers : req[w].path \in Paths \/ req[w].path = NoPath
  BY DEF VInv, Shaped, TypeOK, Request
<1>3. ~Copied /\ SingleCopy
  BY <1>1 DEF Copied, SoloInv
<1>4. CASE UNCHANGED store
  BY <1>1, <1>3, <1>4, SoloStore DEF SingleCopy, Stored
<1>5. CASE store' = [store EXCEPT ![p] = @ \ StorageArea]
  <2>1. /\ store'[p] = store[p] \ StorageArea
        /\ \A q : q # p => (q \in Paths => store'[q] = store[q])
    BY <1>1, <1>5
  <2>2. \A q \in Paths : store'[q] \subseteq store[q]
    BY <2>1
  <2>3. SingleCopy'
    BY <1>3, <2>2 DEF SingleCopy
  <2>4. \A q \in Paths : Stored(q)' = {} \/ Stored(q)' = Stored(q)
    BY <2>1 DEF Stored
  <2>5. \A w \in Workers : req[w].path \notin Paths => store'[req[w].path] = store[req[w].path]
    BY <1>1, <1>5
  <2>6. QED
    BY <1>1, <2>2, <2>3, <2>4, <2>5, SoloStore DEF Stored
<1>6. CASE store' = [store EXCEPT ![p] = @ \cup StorageArea] /\ "copy" \in Mishaps
  <2>1. mishaps' = MaxMishaps
    BY <1>1, <1>6 DEF FewCopies
  <2>2. Copied'
    BY <1>6, <2>1 DEF Copied
  <2>3. \A q \in Paths : store[q] \subseteq store'[q]
    BY <1>1, <1>6
  <2>4. \A q \in Paths : store[q] = {} => store'[q] = {}
    BY <1>1, <1>6 DEF Stored
  <2>5. \A q \in Paths : \/ Stored(q)' = Stored(q)
                         \/ Stored(q) # {} /\ Stored(q) \subseteq Stored(q)'
    BY <1>1, <1>6, <2>3 DEF Stored
  <2>6. \A w \in Workers : req[w].path \notin Paths => store'[req[w].path] = store[req[w].path]
    BY <1>1, <1>6
  <2>7. QED
    BY <1>1, <2>2, <2>4, <2>5, <2>6, SoloStore DEF Stored
<1>7. QED
  BY <1>4, <1>5, <1>6 DEF Mishap

\* Every step.
LEMMA SoloNext ==
  ASSUME Serial, FewCopies, VInv, SoloInv, [VNext]_vvars
  PROVE  SoloInv'
<1>1. Shaped'
  BY ShapedNext
<1>2. store \in [Paths -> SUBSET Area]
  BY DEF VInv, Shaped, TypeOK
<1>3. CASE UNCHANGED <<vars, mishaps>>
  BY <1>1, <1>3, SoloStore DEF vars, SoloInv, Copied, SingleCopy, Stored
<1>4. ASSUME NEW p \in Paths, CleanupTemporary(p), mishaps' = mishaps
      PROVE  SoloInv'
  <2>1. UNCHANGED <<files, used, req>> /\ store' = [store EXCEPT ![p] = @ \ {"temporary"}]
    BY <1>4 DEF CleanupTemporary
  <2>2. \A q \in Paths : store'[q] \subseteq store[q]
    BY <1>2, <2>1
  <2>3. (Copied \/ SingleCopy)'
    BY <1>4, <2>2 DEF SoloInv, Copied, SingleCopy
  <2>4. \A q : Stored(q)' = Stored(q)
    <3>1. \A q \in Paths : store'[q] = store[q] \/ store'[q] = store[q] \ {"temporary"}
      BY <1>2, <2>1
    <3>2. \A q : q \notin Paths => store'[q] = store[q]
      BY <1>2, <2>1
    <3>3. QED
      BY <3>1, <3>2 DEF Stored, StorageArea
  <2>5. QED
    BY <1>1, <2>1, <2>2, <2>3, <2>4, SoloStore
<1>5. CASE Crash /\ mishaps' = mishaps
  <2>1. UNCHANGED <<files, store, used>> /\ \A w \in Workers : req'[w] = IdleReq
    BY <1>5 DEF Crash
  <2>2. Held'
    BY <1>1, <2>1 DEF SoloInv, Held, RowsHeld, AboutRow, IdleReq, PublishedApproved
  <2>3. UploadsUnlisted' /\ Landed'
    BY <2>1 DEF UploadsUnlisted, Landed, IdleReq, StatusOps
  <2>4. UnusedEmpty' /\ RowsOnce' /\ (Copied \/ SingleCopy)'
    BY <1>5, <2>1 DEF SoloInv, UnusedEmpty, RowsOnce, Copied, SingleCopy
  <2>5. QED
    BY <2>2, <2>3, <2>4 DEF SoloInv
<1>6. CASE RequestStep
  BY <1>1, <1>6, SoloServed DEF RequestStep
<1>7. QED
  BY <1>1, <1>3, <1>4, <1>5, <1>6, SoloMishap DEF VNext, vvars, vars

\* A request has found the file of p and may yet move it.
Busy(p) ==
    \E w \in Workers : /\ AboutRow(req[w]) /\ req[w].path = p
                       /\ req[w].pc # "locate" /\ req[w].op # "delete_metadata"

\* No request moves a file that is in neither area, or in both.
Stuck(p) == Stored(p) \in {{}, StorageArea} /\ ~Busy(p)

\* The inspected row has the status it was read with, or its file has come to rest
\* where no status expects it.
Behind(r) == files[r.id].status = r.status \/ Stuck(r.path)

\* What was seen of the row under inspection leads to an issue, or to no report.
InSight(r) ==
    LET p == r.path
    IN  /\ verifier.pc = "software" =>
             IF "quarantine" \in verifier.seen
             THEN "quarantine" \notin AreaAllowed(r.status) \/ Copied
             ELSE "software" \notin AreaAllowed(r.status) \/ Stored(p) = {}
        /\ verifier.pc = "hash" =>
             /\ verifier.seen = {"quarantine"} /\ Copied
             /\ "quarantine" \in AreaAllowed(r.status) /\ "quarantine" \notin store[p]
             /\ ~({"software", "deletions"} \subseteq store[p])

\* Trouble with a row is reported, or the row is still to be inspected and will be seen
\* in trouble then.
RowFollowed(p) ==
    \E r \in verifier.todo :
        /\ r.path = p /\ files[r.id].path = p
        /\ \/ p \in damaged
           \/ Behind(r) /\ (r = Current => InSight(r))

\* A file without a row is found by one of the two walks.
OrphanFollowed(p) ==
    /\ p \notin verifier.known /\ verifier.pc # "report"
    /\ verifier.pc = "walkSoftware" => "software" \in store[p]

\* Some issue of p is to be reported.
Told(p) == \E x \in verifier.issues : x.path = p

\* What was in trouble at the SELECT and is so still will be reported.
Follow ==
    /\ verifier.pc = "idle" => troubled = {}
    /\ verifier.pc \in {"walkQuarantine", "walkSoftware", "report"} => verifier.todo = {}
    /\ verifier.pc = "software" => verifier.seen \subseteq {"quarantine"}
    /\ \A p \in Paths, b \in BOOLEAN : <<p, b>> \in troubled =>
         <<p, b>> \in Troubled /\ (Told(p) \/ IF b THEN OrphanFollowed(p) ELSE RowFollowed(p))

\* What trouble is.
LEMMA TroubleIs ==
  ASSUME NEW p \in Paths, NEW b \in BOOLEAN, <<p, b>> \in Troubled
  PROVE  IF b THEN ~Listed(p) /\ Stored(p) # {}
         ELSE /\ Listed(p)
              /\ \/ p \in damaged
                 \/ Stored(p) \in {{}, StorageArea}
                 \/ \E i \in FileIds :
                      /\ files[i].path = p
                      /\ ~(Stored(p) \subseteq AreaAllowed(files[i].status))
<1>1. \A c, P, x : x \in OfKind(c, P) => x.kind = c /\ x.path \in P
  BY DEF OfKind
<1>2. PICK x \in Issues : x.path = p /\ (x.kind = "orphan") = b
  BY DEF Troubled
<1>3. QED
  BY <1>1, <1>2 DEF Issues

\* And what it is after a step.
LEMMA TroubleStays ==
  ASSUME NEW p \in Paths, NEW b \in BOOLEAN, <<p, b>> \in Troubled'
  PROVE  IF b THEN ~Listed(p)' /\ Stored(p)' # {}
         ELSE /\ Listed(p)'
              /\ \/ p \in damaged'
                 \/ Stored(p)' \in {{}, StorageArea}
                 \/ \E i \in FileIds :
                      /\ files'[i].path = p
                      /\ ~(Stored(p)' \subseteq AreaAllowed(files'[i].status))
<1>1. \A c, P, x : x \in OfKind(c, P) => x.kind = c /\ x.path \in P
  BY DEF OfKind
<1>2. PICK x \in Issues' : x.path = p /\ (x.kind = "orphan") = b
  BY DEF Troubled
<1>3. QED
  BY <1>1, <1>2 DEF Issues

\* A path of a row has that row only.
LEMMA TroubleOfRow ==
  ASSUME RowsOnce, NEW p \in Paths, NEW i \in FileIds, files[i].path = p,
         <<p, FALSE>> \in Troubled, p \notin damaged
  PROVE  Stored(p) \in {{}, StorageArea} \/ ~(Stored(p) \subseteq AreaAllowed(files[i].status))
<1>1. \A k \in FileIds : files[k].path = p => k = i
  BY FileAssumption DEF RowsOnce, NoRow
<1>2. QED
  BY <1>1, TroubleIs

\* And after a step.
LEMMA TroubleStaysOfRow ==
  ASSUME RowsOnce', NEW p \in Paths, NEW i \in FileIds, files'[i].path = p,
         <<p, FALSE>> \in Troubled', p \notin damaged'
  PROVE  Stored(p)' \in {{}, StorageArea}
         \/ ~(Stored(p)' \subseteq AreaAllowed(files'[i].status))
<1>1. \A k \in FileIds : files'[k].path = p => k = i
  BY FileAssumption DEF RowsOnce, NoRow
<1>2. QED
  BY <1>1, TroubleStays

\* Where a request that sets a status has left the file, that status expects it.
LEMMA LandingAllowed ==
  ASSUME NEW r, r.op \in StatusOps, r.area \in StorageArea, AreaAccepted(r.op, r.area)
  PROVE  Landing(r) \in AreaAllowed(Target(r.op)) /\ Landing(r) \in StorageArea
<1>1. CASE r.op = "publish"
  BY <1>1 DEF Landing, Moves, MoveTo, AreaAllowed, Target, StorageArea
<1>2. CASE r.op = "restore_ready"
  BY <1>2 DEF Landing, Moves, MoveTo, AreaAllowed, Target, StorageArea
<1>3. CASE r.op \in {"approve", "reject", "reopen"}
  BY <1>3 DEF Landing, Moves, AreaAccepted, AreaAllowed, Target, StorageArea
<1>4. CASE r.op \in {"disable", "archive"}
  BY <1>4 DEF Landing, Moves, AreaAllowed, Target, StorageArea
<1>5. QED
  BY <1>1, <1>2, <1>3, <1>4 DEF StatusOps

\* The file of row i is renamed, forward or back.
Swings(p, i) ==
    /\ Busy(p) /\ files'[i] = files[i]
    /\ \E a \in store[p], b \in Area :
         /\ store'[p] = (store[p] \ {a}) \cup {b}
         /\ \/ a \in StorageArea /\ b \in StorageArea /\ a # b
            \/ /\ files[i].status # "published"
               /\ \/ a \in StorageArea /\ b = "deletions"
                  \/ a = "deletions" /\ b \in StorageArea

\* Row i gets a status that expects its file where it is, if it is in one area.
Settles(p, i) ==
    /\ store'[p] = store[p] /\ ~Busy(p)'
    /\ \/ Stored(p) = {}
       \/ \E a \in StorageArea : a \in store[p] /\ a \in AreaAllowed(files'[i].status)

\* Neither: a file that nobody was about to move is not moved.
Rests(p, i) ==
    /\ files'[i] = files[i] /\ store'[p] \subseteq store[p] /\ Stored(p)' = Stored(p)
    /\ Stuck(p) => ~Busy(p)'

\* A request that is served, and a path that is listed before and after.
LEMMA PathStep ==
  ASSUME Serial, SoloInv, NEW w \in Workers, Arrive(w) \/ WorkerStep(w),
         NEW p \in Paths, NEW i \in FileIds, files[i].path = p, files'[i].path = p
  PROVE  Rests(p, i) \/ Swings(p, i) \/ Settles(p, i)
<1> DEFINE r == req[w]
           n == req'[w]
<1>1. /\ Held /\ TypeOK /\ Shape(r) /\ r \in Request /\ files \in [FileIds -> Row \cup {NoRow}]
      /\ store \in [Paths -> SUBSET Area] /\ files[i] # NoRow /\ files'[i] # NoRow
      /\ p \in used /\ \A v \in Workers : v = w
      /\ \A k \in FileIds : files[k].path = p => k = i
  BY FileAssumption DEF SoloInv, Held, Shaped, ReqShape, TypeOK, NoRow, Serial, RowsOnce
<1>2. r.path = p => r.op # "upload"
  BY DEF SoloInv, UploadsUnlisted
<1>3. CASE Arrive(w)
  <2>1. ASSUME NEW q \in Paths, UploadStart(w, q)
        PROVE  Rests(p, i)
    <3> DEFINE m == [pc |-> "stream", op |-> "upload", id |-> 0, path |-> q,
                     area |-> "temporary", change |-> FALSE]
    <3>1. m \in Request /\ m.op = "upload"
      BY DEF Request, Pc, Operation, Area
    <3>2. /\ Become(w, m) /\ UNCHANGED files /\ q \notin used
          /\ store' = [store EXCEPT ![q] = @ \cup {"temporary"}]
      BY <2>1 DEF UploadStart
    <3> HIDE DEF m
    <3>3. n.op = "upload" /\ store'[p] = store[p]
      BY <1>1, <3>1, <3>2, BecomeEffect
    <3>4. ~Busy(p)'
      BY <1>1, <3>3 DEF Busy, AboutRow
    <3>5. QED
      BY <3>2, <3>3, <3>4 DEF Rests, Stored
  <2>2. ASSUME NEW op \in Operation, NEW k \in FileIds, Get(w, op, k)
        PROVE  Rests(p, i)
    <3> DEFINE m == [pc |-> "locate", op |-> op, id |-> k, path |-> files[k].path,
                     area |-> "none", change |-> FALSE]
    <3>1. files[k] \in Row /\ Become(w, m) /\ UNCHANGED <<files, store>>
      BY <1>1, <2>2 DEF Get
    <3>2. m \in Request /\ m.pc = "locate"
      BY <3>1 DEF Request, Pc, Row
    <3> HIDE DEF m
    <3>3. n.pc = "locate"
      BY <1>1, <3>1, <3>2, BecomeEffect
    <3>4. ~Busy(p)'
      BY <1>1, <3>3 DEF Busy
    <3>5. QED
      BY <3>1, <3>4 DEF Rests, Stored
  <2>3. QED
    BY <1>3, <2>1, <2>2 DEF Arrive
<1>4. ASSUME WorkerStep(w), r.path # p
      PROVE  Rests(p, i)
  <2>1. store'[p] = store[p]
    BY <1>1, <1>4, StoreKinds DEF Held, Renamed
  <2>2. files'[i] = files[i]
    BY <1>1, <1>4, RowKinds
  <2>3. n = IdleReq \/ n.path = r.path
    BY <1>1, <1>4, ReqKinds DEF SameFile
  <2>4. ~Busy(p)'
    BY <1>1, <1>4, <2>3 DEF Busy, AboutRow, IdleReq
  <2>5. QED
    BY <2>1, <2>2, <2>4 DEF Rests, Stored
<1>5. ASSUME WorkerStep(w), r.path = p, files'[i] = files[i], store'[p] \subseteq store[p],
             store'[p] \cap StorageArea = store[p] \cap StorageArea
      PROVE  Rests(p, i)
  <2>1. SUFFICES ASSUME Stuck(p), Busy(p)' PROVE FALSE
    BY <1>5 DEF Rests, Stored
  <2>2. AboutRow(n) /\ n.path = p /\ n.pc # "locate" /\ n.op # "delete_metadata"
    BY <1>1, <2>1 DEF Busy
  <2>3. r.pc # "unlink"
    <3>1. r.pc = "unlink" => Become(w, IdleReq)
      BY <1>5 DEF WorkerStep, Locate, Refuse, CheckMove, Replace, TxRead, TxWrite,
         CheckUndo, UndoReplace, Unlink, Streamed, StreamFails, PersistFails, CleanupPaths,
         Persist
    <3>2. Become(w, IdleReq) => n = IdleReq
      BY <1>1, IdleEffect
    <3>3. n # IdleReq
      BY <2>2 DEF AboutRow, IdleReq
    <3>4. QED
      BY <3>1, <3>2, <3>3
  <2>4. CASE /\ r.pc = "locate" /\ SameFile(w)
             /\ \/ Stored(p) = {n.area} /\ n.area \in StorageArea
                \/ r.op = "delete_metadata"
    BY <2>1, <2>2, <2>4 DEF Stuck, SameFile, StorageArea
  <2>5. CASE r.pc # "locate" /\ SameFile(w)
    <3>1. AboutRow(r) /\ r.op # "delete_metadata"
      BY <2>2, <2>3, <2>5 DEF AboutRow, SameFile
    <3>2. QED
      BY <1>5, <2>1, <2>5, <3>1 DEF Stuck, Busy
  <2>6. QED
    BY <1>1, <1>5, <2>2, <2>4, <2>5, ReqKinds DEF AboutRow, IdleReq
<1>6. ASSUME WorkerStep(w), r.path = p, r.pc \in {"replace", "undoReplace"},
             files'[i] = files[i], NEW a \in {r.area, MoveTo(r.op)},
             NEW b \in {r.area, MoveTo(r.op)}, a # b, a \in store[p],
             store'[p] = (store[p] \ {a}) \cup {b}
      PROVE  Swings(p, i)
  <2>1. /\ Moves(r.op, r.area) /\ r.area \in StorageArea /\ AboutRow(r)
        /\ r.op = "publish" => r.area = "quarantine"
    BY <1>1, <1>2, <1>6 DEF Shape, AboutRow
  <2>2. Busy(p)
    BY <1>6, <2>1 DEF Busy, Moves
  <2>3. RowHeld(r, files[r.id]) /\ r.id \in FileIds
    BY <1>1, <2>1 DEF Held, RowsHeld, Shape, AboutRow
  <2>4. r.op = "permanently_delete" => files[i].status # "published"
    BY <1>1, <1>6, <2>3 DEF RowHeld, DeleteOps, EnsureDeletable
  <2>5. /\ r.op = "permanently_delete" => MoveTo(r.op) = "deletions"
        /\ r.op # "permanently_delete" =>
             MoveTo(r.op) \in StorageArea /\ MoveTo(r.op) # r.area
    BY <2>1 DEF Moves, MoveTo, StorageArea
  <2>6. b \in Area
    BY <1>6, <2>1, <2>5 DEF Area
  <2>7. QED
    BY <1>6, <2>1, <2>2, <2>4, <2>5, <2>6 DEF Swings
<1>7. ASSUME WorkerStep(w), r.path = p
      PROVE  Rests(p, i) \/ Swings(p, i) \/ Settles(p, i)
  <2>1. CASE UNCHANGED <<store, files>>
    BY <1>5, <1>7, <2>1
  <2>2. CASE /\ r.pc = "write" /\ r.op \in StatusOps /\ r.id \in FileIds
             /\ files[r.id] \in Row /\ files[r.id].path = r.path
             /\ files' = [files EXCEPT ![r.id] = [files[r.id] EXCEPT !.status = Target(r.op)]]
             /\ UNCHANGED store /\ req'[w] = IdleReq
    <3>1. r.id = i
      BY <1>1, <1>7, <2>2
    <3> DEFINE m == [files[i] EXCEPT !.status = Target(r.op)]
    <3>2. m.status = Target(r.op)
      BY <2>2, <3>1 DEF Row
    <3>3. files' = [files EXCEPT ![i] = m]
      BY <2>2, <3>1
    <3> HIDE DEF m
    <3>4. files'[i].status = Target(r.op)
      BY <1>1, <3>2, <3>3
    <3>5. ~Busy(p)'
      BY <1>1, <2>2 DEF Busy, AboutRow, IdleReq
    <3>6. /\ r.area \in StorageArea /\ AreaAccepted(r.op, r.area)
          /\ Landing(r) \in store[p] \/ Stored(p) = {}
      BY <1>7, <2>2 DEF SoloInv, Landed
    <3>7. Landing(r) \in AreaAllowed(Target(r.op)) /\ Landing(r) \in StorageArea
      BY <2>2, <3>6, LandingAllowed
    <3>8. QED
      BY <2>2, <3>4, <3>5, <3>6, <3>7 DEF Settles
  <2>3. CASE /\ r.op \in DeleteOps /\ r.id \in FileIds /\ files[r.id].path = r.path
             /\ files' = [files EXCEPT ![r.id] = NoRow]
    BY <1>1, <1>7, <2>3
  <2>4. CASE UNCHANGED files
    <3>1. CASE /\ r.pc = "replace" /\ r.area \in store[p]
               /\ store' = Renamed(p, r.area, MoveTo(r.op))
      <4>1. MoveTo(r.op) # r.area
        BY <1>1, <1>2, <1>7, <3>1 DEF Shape, Moves, MoveTo, StorageArea
      <4>2. store'[p] = (store[p] \ {r.area}) \cup {MoveTo(r.op)}
        BY <1>1, <3>1 DEF Renamed
      <4>3. QED
        BY <1>6, <1>7, <2>4, <3>1, <4>1, <4>2
    <3>2. CASE /\ r.pc = "undoReplace" /\ MoveTo(r.op) \in store[p]
               /\ store' = Renamed(p, MoveTo(r.op), r.area)
      <4>1. MoveTo(r.op) # r.area
        BY <1>1, <1>2, <1>7, <3>2 DEF Shape, Moves, MoveTo, StorageArea
      <4>2. store'[p] = (store[p] \ {MoveTo(r.op)}) \cup {r.area}
        BY <1>1, <3>2 DEF Renamed
      <4>3. QED
        BY <1>6, <1>7, <2>4, <3>2, <4>1, <4>2
    <3>3. CASE store' = [store EXCEPT ![p] = @ \ {"deletions"}]
      <4>1. store'[p] = store[p] \ {"deletions"}
        BY <1>1, <3>3
      <4>2. QED
        BY <1>5, <1>7, <2>4, <4>1 DEF StorageArea
    <3>4. QED
      BY <1>1, <1>2, <1>7, <2>1, <2>4, <3>1, <3>2, <3>3, StoreKinds DEF Held
  <2>5. QED
    BY <1>1, <1>2, <1>7, <2>2, <2>3, <2>4, RowKinds
<1>8. QED
  BY <1>3, <1>4, <1>7

\* A row that is listed before and after a step is the same row.
LEMMA SameRow ==
  ASSUME Serial, SoloInv, NEW w \in Workers, Arrive(w) \/ WorkerStep(w),
         NEW p \in Paths, NEW i \in FileIds, files[i].path = p, Listed(p)'
  PROVE  files'[i].path = p
<1>1. /\ Held /\ files \in [FileIds -> Row \cup {NoRow}] /\ files[i] # NoRow
      /\ \A k \in FileIds : files[k].path = p => k = i
  BY FileAssumption DEF SoloInv, Held, Shaped, TypeOK, NoRow, RowsOnce
<1>2. PICK k \in FileIds : files'[k].path = p
  BY DEF Listed
<1>3. CASE UNCHANGED files
  BY <1>3
<1>4. ASSUME WorkerStep(w)
      PROVE  files'[i].path = p
  <2> DEFINE r == req[w]
  <2>1. CASE /\ r.op \in StatusOps /\ r.id \in FileIds /\ files[r.id] \in Row
             /\ files' = [files EXCEPT ![r.id] = [files[r.id] EXCEPT !.status = Target(r.op)]]
    <3> DEFINE m == [files[r.id] EXCEPT !.status = Target(r.op)]
    <3>1. m.path = files[r.id].path
      BY <2>1 DEF Row
    <3>2. files' = [files EXCEPT ![r.id] = m]
      BY <2>1
    <3> HIDE DEF m
    <3>3. QED
      BY <1>1, <2>1, <3>1, <3>2
  <2>2. CASE /\ r.op \in DeleteOps /\ r.id \in FileIds
             /\ files' = [files EXCEPT ![r.id] = NoRow]
    <3>1. k # r.id
      BY <1>1, <1>2, <2>2, FileAssumption DEF NoRow
    <3>2. QED
      BY <1>1, <1>2, <2>2, <3>1
  <2>3. CASE r.op = "upload" /\ \E j \in FileIds, m \in Row :
               files[j] = NoRow /\ m.path = r.path /\ files' = [files EXCEPT ![j] = m]
    BY <1>1, <2>3
  <2>4. QED
    BY <1>1, <1>3, <1>4, <2>1, <2>2, <2>3, RowKinds
<1>5. QED
  BY <1>3, <1>4 DEF Arrive, Get, UploadStart

\* The areas of a status: one of the two, or both.
LEMMA AllowedKinds ==
  ASSUME NEW s \in FileStatus
  PROVE  \/ s = "published" /\ AreaAllowed(s) = {"software"}
         \/ s # "published" /\ AreaAllowed(s) \in {{"quarantine"}, StorageArea}
  BY DEF FileStatus, AreaAllowed

\* What was seen of a row holds when its file is renamed and it is still in trouble.
LEMMA SightSwings ==
  ASSUME NEW r \in InspectedRow, InSight(r), UNCHANGED <<verifier, mishaps>>,
         store \in [Paths -> SUBSET Area], Swings(r.path, r.id),
         files[r.id].status = r.status,
         \/ Stored(r.path)' \in {{}, StorageArea}
         \/ ~(Stored(r.path)' \subseteq AreaAllowed(files'[r.id].status))
  PROVE  InSight(r)'
<1> DEFINE p == r.path
           s == r.status
<1>1. /\ p \in Paths /\ s \in FileStatus /\ store[p] \subseteq Area /\ files'[r.id].status = s
      /\ Stored(p)' = store'[p] \cap StorageArea /\ Stored(p) = store[p] \cap StorageArea
  BY DEF InspectedRow, Swings, Stored
<1>2. PICK a \in store[p], b \in Area :
         /\ store'[p] = (store[p] \ {a}) \cup {b}
         /\ \/ a \in StorageArea /\ b \in StorageArea /\ a # b
            \/ /\ s # "published"
               /\ \/ a \in StorageArea /\ b = "deletions"
                  \/ a = "deletions" /\ b \in StorageArea
  BY DEF Swings
<1>3. Stored(p)' # {} /\ Stored(p)' # StorageArea => ~(Stored(p)' \subseteq AreaAllowed(s))
  BY <1>1
<1>4. \/ s = "published" /\ AreaAllowed(s) = {"software"}
      \/ s # "published" /\ AreaAllowed(s) \in {{"quarantine"}, StorageArea}
  BY <1>1, AllowedKinds
<1>5. Copied => Copied'
  BY DEF Copied
<1>6. ASSUME "software" \in AreaAllowed(s), Stored(p) = {}
      PROVE  Stored(p)' = {}
  <2>1. a = "deletions" /\ b \in StorageArea /\ s # "published"
    BY <1>1, <1>2, <1>6
  <2>2. AreaAllowed(s) = StorageArea
    BY <1>4, <1>6, <2>1
  <2>3. store'[p] \cap StorageArea = {b}
    BY <1>1, <1>2, <1>6, <2>1
  <2>4. {b} # {} /\ {b} # StorageArea
    BY DEF StorageArea
  <2>5. QED
    BY <1>1, <1>3, <2>1, <2>2, <2>3, <2>4
<1>7. ASSUME "quarantine" \in AreaAllowed(s), "quarantine" \notin store[p],
             ~({"software", "deletions"} \subseteq store[p])
      PROVE  /\ "quarantine" \notin store'[p]
             /\ ~({"software", "deletions"} \subseteq store'[p])
  <2>1. s # "published"
    BY <1>4, <1>7
  <2>2. CASE b = "quarantine"
    <3>1. "software" \notin store'[p]
      BY <1>2, <1>7, <2>2 DEF StorageArea
    <3>2. Stored(p)' = {"quarantine"}
      BY <1>1, <1>2, <2>2, <3>1 DEF StorageArea
    <3>3. QED
      BY <1>3, <1>7, <3>2 DEF StorageArea
  <2>3. CASE b # "quarantine"
    BY <1>2, <1>7, <2>3 DEF StorageArea
  <2>4. QED
    BY <2>2, <2>3
<1> HIDE DEF p, s
<1>8. QED
  BY <1>5, <1>6, <1>7 DEF InSight, p, s

\* Beside a verification a request is served: trouble with a row is followed on.
LEMMA RowBesideRequest ==
  ASSUME Serial, VInv, SoloInv, SoloInv', UNCHANGED <<verifier, damaged, mishaps>>,
         NEW w \in Workers, Arrive(w) \/ WorkerStep(w),
         NEW p \in Paths, RowFollowed(p), <<p, FALSE>> \in Troubled'
  PROVE  RowFollowed(p)'
<1>1. PICK r \in verifier.todo :
         /\ r.path = p /\ files[r.id].path = p
         /\ p \in damaged \/ (Behind(r) /\ (r = Current => InSight(r)))
  BY DEF RowFollowed
<1>2. r \in InspectedRow /\ r.id \in FileIds /\ store \in [Paths -> SUBSET Area]
  BY <1>1 DEF VInv, VerifierState, InspectedRow, Shaped, TypeOK
<1>3. Listed(p)'
  BY TroubleStays
<1>4. files'[r.id].path = p
  BY <1>1, <1>2, <1>3, SameRow
<1>5. r \in verifier'.todo /\ damaged' = damaged /\ Current' = Current
  BY <1>1 DEF Current
<1>6. CASE p \in damaged
  BY <1>1, <1>4, <1>5, <1>6 DEF RowFollowed
<1>7. CASE p \notin damaged
  <2>1. \/ Stored(p)' \in {{}, StorageArea}
        \/ ~(Stored(p)' \subseteq AreaAllowed(files'[r.id].status))
    BY <1>2, <1>4, <1>5, <1>7, TroubleStaysOfRow DEF SoloInv
  <2>2. Rests(p, r.id) \/ Swings(p, r.id) \/ Settles(p, r.id)
    BY <1>1, <1>2, <1>4, PathStep
  <2>3. SUFFICES Behind(r)' /\ (InSight(r) => InSight(r)')
    BY <1>1, <1>4, <1>5, <1>7 DEF RowFollowed
  <2>4. Behind(r) /\ (Copied => Copied')
    BY <1>1, <1>7 DEF Copied
  <2>5. CASE Rests(p, r.id)
    <3>1. Stored(p)' = Stored(p) /\ store'[p] \subseteq store[p] /\ files'[r.id] = files[r.id]
          /\ (Stuck(p) => Stuck(p)')
      BY <2>5 DEF Rests, Stuck
    <3>2. Behind(r)'
      BY <1>1, <2>4, <3>1 DEF Behind
    <3>3. InSight(r) => InSight(r)'
      BY <1>1, <2>4, <3>1 DEF InSight
    <3>4. QED
      BY <3>2, <3>3
  <2>6. CASE Swings(p, r.id)
    <3>1. files'[r.id] = files[r.id] /\ files[r.id].status = r.status
      BY <1>1, <2>4, <2>6 DEF Swings, Behind, Stuck
    <3>2. Behind(r)'
      BY <3>1 DEF Behind
    <3>3. InSight(r) => InSight(r)'
      BY <1>1, <1>2, <2>1, <2>6, <3>1, SightSwings
    <3>4. QED
      BY <3>2, <3>3
  <2>7. CASE Settles(p, r.id)
    <3>1. Stored(p)' = Stored(p) /\ store'[p] = store[p] /\ ~Busy(p)'
      BY <2>7 DEF Settles, Stored
    <3>2. Stored(p)' \in {{}, StorageArea}
      BY <2>1, <2>7, <3>1 DEF Settles, Stored, StorageArea
    <3>3. Behind(r)'
      BY <1>1, <3>1, <3>2 DEF Behind, Stuck
    <3>4. InSight(r) => InSight(r)'
      BY <1>1, <2>4, <3>1 DEF InSight
    <3>5. QED
      BY <3>3, <3>4
  <2>8. QED
    BY <2>2, <2>5, <2>6, <2>7
<1>8. QED
  BY <1>6, <1>7

\* What befalls the storage beside a verification.
LEMMA RowBesideMishap ==
  ASSUME VInv, UNCHANGED <<files, req, verifier>>,
         NEW p \in Paths, RowFollowed(p), damaged \subseteq damaged',
         Copied => Copied' /\ store'[p] \subseteq store[p] /\ Stored(p)' = Stored(p),
         Stored(p)' \in {{}, Stored(p)} \/ (Stored(p) # {} /\ Stored(p)' = StorageArea)
  PROVE  RowFollowed(p)'
<1>1. PICK r \in verifier.todo :
         /\ r.path = p /\ files[r.id].path = p
         /\ p \in damaged \/ (Behind(r) /\ (r = Current => InSight(r)))
  BY DEF RowFollowed
<1>2. r \in verifier'.todo /\ Current' = Current /\ files' = files /\ (Busy(p)' <=> Busy(p))
  BY <1>1 DEF Current, Busy
<1>3. Behind(r) => Behind(r)'
  BY <1>1, <1>2 DEF Behind, Stuck
<1>4. InSight(r) => InSight(r)'
  <2>1. verifier' = verifier
    OBVIOUS
  <2>2. ASSUME InSight(r), verifier.pc = "hash"
        PROVE  Copied' /\ store'[p] \subseteq store[p]
    BY <2>2 DEF InSight
  <2>3. Stored(p) = {} => Stored(p)' = {}
    OBVIOUS
  <2>4. QED
    BY <1>1, <2>1, <2>2, <2>3 DEF InSight
<1>5. QED
  BY <1>1, <1>2, <1>3, <1>4 DEF RowFollowed

\* Nobody but an operator moves a file without a row, once it is in software.
LEMMA OrphanBesideRequest ==
  ASSUME Serial, SoloInv, NEW w \in Workers, Arrive(w) \/ WorkerStep(w),
         NEW p \in Paths, ~Listed(p), "software" \in store[p]
  PROVE  "software" \in store'[p]
<1> DEFINE r == req[w]
<1>1. /\ Held /\ Shaped /\ Shape(r) /\ store \in [Paths -> SUBSET Area]
  BY DEF SoloInv, Held, Shaped, ReqShape, TypeOK
<1>2. CASE Arrive(w)
  <2>1. CASE UNCHANGED store
    BY <2>1
  <2>2. ASSUME NEW q \in Paths, store' = [store EXCEPT ![q] = @ \cup {"temporary"}]
        PROVE  "software" \in store'[p]
    BY <1>1, <2>2
  <2>3. QED
    BY <1>2, <2>1, <2>2 DEF Arrive, Get, UploadStart
<1>3. ASSUME WorkerStep(w), r.path # p
      PROVE  "software" \in store'[p]
  BY <1>1, <1>3, StoreKinds DEF Renamed
<1>4. ASSUME WorkerStep(w), r.path = p, r.op = "upload"
      PROVE  "software" \in store'[p]
  <2>1. MoveTo(r.op) = "quarantine"
    BY <1>4 DEF MoveTo
  <2>2. /\ r.pc = "replace" => r.area = "temporary"
        /\ r.pc \notin {"undoReplace", "unlink"}
    BY <1>1, <1>4 DEF Shape
  <2>3. QED
    BY <1>1, <1>3, <1>4, <2>1, <2>2, StoreKinds DEF Renamed
<1>5. ASSUME WorkerStep(w), r.path = p, r.op # "upload"
      PROVE  "software" \in store'[p]
  <2>1. ~AboutRow(r)
    <3>1. AboutRow(r) => r.id \in FileIds /\ files[r.id].path = p
      BY <1>1, <1>5 DEF Held, RowsHeld, RowHeld, AboutRow, Shape
    <3>2. QED
      BY <3>1 DEF Listed
  <2>2. r.pc \notin {"replace", "undoReplace"}
    BY <1>1, <1>5, <2>1 DEF AboutRow, Shape
  <2>3. QED
    BY <1>1, <1>5, <2>2, StoreKinds
<1>6. QED
  BY <1>2, <1>3, <1>4, <1>5

\* Beside a verification, whatever happens, trouble is followed on.
LEMMA FollowBeside ==
  ASSUME Serial, VInv, SoloInv, SoloInv', Follow, UNCHANGED verifier,
         troubled' \subseteq troubled, troubled' \subseteq Troubled',
         \/ RequestStep /\ UNCHANGED mishaps
         \/ (\E p \in Paths : CleanupTemporary(p)) /\ UNCHANGED <<damaged, mishaps>>
         \/ \E p \in Paths : Mishap(p)
  PROVE  Follow'
<1>1. /\ verifier' = verifier /\ store \in [Paths -> SUBSET Area]
      /\ verifier.pc = "idle" => troubled = {}
      /\ verifier.pc \in {"walkQuarantine", "walkSoftware", "report"} => verifier.todo = {}
      /\ verifier.pc = "software" => verifier.seen \subseteq {"quarantine"}
  BY DEF Follow, VInv, Shaped, TypeOK
<1>2. SUFFICES ASSUME NEW p \in Paths, NEW b \in BOOLEAN, <<p, b>> \in troubled', ~Told(p)
      PROVE  IF b THEN OrphanFollowed(p)' ELSE RowFollowed(p)'
  <2>1. \A p : Told(p) => Told(p)'
    BY DEF Told
  <2>2. troubled = {} => troubled' = {}
    OBVIOUS
  <2>3. QED
    BY <1>1, <1>2, <2>1, <2>2 DEF Follow
<1>3. /\ IF b THEN OrphanFollowed(p) ELSE RowFollowed(p)
      /\ <<p, b>> \in Troubled /\ <<p, b>> \in Troubled'
  BY <1>2 DEF Follow
<1>4. ASSUME NEW w \in Workers, Arrive(w) \/ WorkerStep(w), UNCHANGED <<damaged, mishaps>>
      PROVE  IF b THEN OrphanFollowed(p)' ELSE RowFollowed(p)'
  <2>1. CASE b
    <3>1. ~Listed(p)
      BY <1>3, <2>1, TroubleIs
    <3>2. OrphanFollowed(p)
      BY <1>3, <2>1
    <3>3. QED
      BY <1>1, <1>4, <2>1, <3>1, <3>2, OrphanBesideRequest DEF OrphanFollowed
  <2>2. CASE ~b
    BY <1>1, <1>3, <1>4, <2>2, RowBesideRequest
  <2>3. QED
    BY <2>1, <2>2
<1>5. ASSUME UNCHANGED <<files, req>>, damaged \subseteq damaged',
             Copied => Copied' /\ store'[p] \subseteq store[p] /\ Stored(p)' = Stored(p),
             Stored(p)' \in {{}, Stored(p)} \/ (Stored(p) # {} /\ Stored(p)' = StorageArea)
      PROVE  IF b THEN OrphanFollowed(p)' ELSE RowFollowed(p)'
  <2>1. CASE b
    <3>1. Stored(p)' # {}
      BY <1>3, <2>1, TroubleStays
    <3>2. "software" \in Stored(p) => "software" \in Stored(p)'
      BY <1>5, <3>1 DEF StorageArea
    <3>3. "software" \in store[p] => "software" \in store'[p]
      BY <3>2 DEF Stored, StorageArea
    <3>4. OrphanFollowed(p)
      BY <1>3, <2>1
    <3>5. QED
      BY <1>1, <2>1, <3>3, <3>4 DEF OrphanFollowed
  <2>2. CASE ~b
    BY <1>3, <1>5, <2>2, RowBesideMishap
  <2>3. QED
    BY <2>1, <2>2
<1>6. ASSUME NEW q \in Paths, CleanupTemporary(q), UNCHANGED <<damaged, mishaps>>
      PROVE  IF b THEN OrphanFollowed(p)' ELSE RowFollowed(p)'
  <2>1. store'[p] \subseteq store[p] /\ store[p] \ {"temporary"} \subseteq store'[p]
    BY <1>1, <1>6 DEF CleanupTemporary
  <2>2. Stored(p)' = Stored(p)
    BY <2>1 DEF Stored, StorageArea
  <2>3. UNCHANGED <<files, req>> /\ (Copied => Copied')
    BY <1>6 DEF CleanupTemporary, Copied
  <2>4. QED
    BY <1>5, <1>6, <2>1, <2>2, <2>3
<1>7. ASSUME NEW q \in Paths, Mishap(q)
      PROVE  IF b THEN OrphanFollowed(p)' ELSE RowFollowed(p)'
  <2>1. UNCHANGED <<files, req>> /\ ~Copied /\ damaged \subseteq damaged'
    BY <1>7, MishapAssumption DEF Mishap, Copied
  <2>2. Stored(p)' \in {{}, Stored(p)} \/ (Stored(p) # {} /\ Stored(p)' = StorageArea)
    <3>1. CASE UNCHANGED store \/ p # q
      BY <1>1, <1>7, <3>1 DEF Mishap, Stored
    <3>2. CASE p = q /\ store' = [store EXCEPT ![q] = @ \ StorageArea]
      BY <1>1, <3>2 DEF Stored
    <3>3. CASE p = q /\ store' = [store EXCEPT ![q] = @ \cup StorageArea]
      BY <1>1, <1>7, <3>3 DEF Mishap, Stored
    <3>4. QED
      BY <1>7, <3>1, <3>2, <3>3 DEF Mishap
  <2>3. QED
    BY <1>5, <2>1, <2>2
<1>8. QED
  BY <1>4, <1>6, <1>7 DEF RequestStep

\* Two copies of a file in the storage areas are the work of an operator.
LEMMA TwoCopies ==
  ASSUME SoloInv, NEW p \in Paths, StorageArea \subseteq store[p]
  PROVE  Copied
  BY DEF SoloInv, SingleCopy, StorageArea

\* A row that is looked for in quarantine while it is in trouble.
LEMMA SightQuarantine ==
  ASSUME VInv, SoloInv, NEW r \in InspectedRow, files[r.id].path = r.path, Behind(r),
         r.path \notin damaged, <<r.path, FALSE>> \in Troubled
  PROVE  IF "quarantine" \in store[r.path]
         THEN "quarantine" \notin AreaAllowed(r.status) \/ Copied
         ELSE "software" \notin AreaAllowed(r.status) \/ Stored(r.path) = {}
<1> DEFINE p == r.path
<1>1. p \in Paths /\ r.id \in FileIds
  BY DEF InspectedRow
<1>2. Stored(p) \in {{}, StorageArea} \/ ~(Stored(p) \subseteq AreaAllowed(files[r.id].status))
  BY <1>1, TroubleOfRow DEF SoloInv
<1>3. \/ Stored(p) \in {{}, StorageArea} \/ ~(Stored(p) \subseteq AreaAllowed(r.status))
  BY <1>2 DEF Behind, Stuck
<1>4. Stored(p) = StorageArea => Copied
  BY <1>1, TwoCopies DEF Stored
<1>5. "quarantine" \in store[p] /\ Stored(p) # StorageArea => Stored(p) = {"quarantine"}
  BY DEF Stored, StorageArea
<1>6. "quarantine" \notin store[p] => Stored(p) = {} \/ Stored(p) = {"software"}
  BY DEF Stored, StorageArea
<1>7. QED
  BY <1>3, <1>4, <1>5, <1>6 DEF StorageArea

\* A row whose file was seen in one area that its status expects, while it is in trouble.
LEMMA SightSoftware ==
  ASSUME VInv, SoloInv, NEW r \in InspectedRow, files[r.id].path = r.path, Behind(r),
         r.path \notin damaged, <<r.path, FALSE>> \in Troubled,
         verifier.pc = "software", verifier.seen \subseteq {"quarantine"}, InSight(r),
         NEW seen, seen = verifier.seen \cup ({"software"} \cap store[r.path]),
         seen # {}, seen # StorageArea, seen \subseteq AreaAllowed(r.status)
  PROVE  /\ seen = {"quarantine"} /\ Copied
         /\ "quarantine" \in AreaAllowed(r.status) /\ "quarantine" \notin store[r.path]
         /\ "software" \notin store[r.path]
<1> DEFINE p == r.path
<1>1. p \in Paths /\ r.id \in FileIds
  BY DEF InspectedRow
<1>2. "quarantine" \in verifier.seen
  BY DEF InSight, Stored, StorageArea
<1>3. /\ seen = {"quarantine"} /\ Copied /\ "quarantine" \in AreaAllowed(r.status)
      /\ "software" \notin store[p]
  BY <1>2 DEF InSight, StorageArea
<1>4. Stored(p) \in {{}, StorageArea} \/ ~(Stored(p) \subseteq AreaAllowed(files[r.id].status))
  BY <1>1, TroubleOfRow DEF SoloInv
<1>5. Stored(p) = {} \/ ~(Stored(p) \subseteq AreaAllowed(r.status))
  BY <1>3, <1>4 DEF Behind, Stuck, Stored, StorageArea
<1>6. "quarantine" \notin store[p]
  BY <1>3, <1>5 DEF Stored, StorageArea
<1>7. QED
  BY <1>3, <1>6

\* The steps of the verification itself, once it has begun.
LEMMA FollowVerifier ==
  ASSUME VInv, SoloInv, Follow, VerifierStep, UNCHANGED <<vars, damaged, mishaps>>,
         verifier.pc # "idle", verifier'.pc # "idle",
         troubled' \subseteq troubled, troubled' \subseteq Troubled'
  PROVE  Follow'
<1>1. /\ files' = files /\ store' = store /\ req' = req /\ damaged' = damaged
      /\ verifier \in VerifierState /\ (Copied => Copied')
  BY DEF vars, VInv, Copied
<1>2. \A p : /\ Stored(p)' = Stored(p) /\ (Busy(p)' <=> Busy(p))
             /\ (Stuck(p)' <=> Stuck(p))
  BY <1>1 DEF Stored, Busy, Stuck
<1>3. \A r : Behind(r) => Behind(r)'
  BY <1>1, <1>2 DEF Behind
<1>4. Troubled' = Troubled
  BY <1>1 DEF Troubled, Issues, Listed, Stored
<1>5. ASSUME verifier.issues \subseteq verifier'.issues,
             verifier'.pc \in {"walkQuarantine", "walkSoftware", "report"} => verifier'.todo = {},
             verifier'.pc = "software" => verifier'.seen \subseteq {"quarantine"},
             \A p \in Paths : OrphanFollowed(p) /\ <<p, TRUE>> \in Troubled =>
               Told(p)' \/ OrphanFollowed(p)',
             \A p \in Paths : RowFollowed(p) /\ <<p, FALSE>> \in Troubled =>
               Told(p)' \/ RowFollowed(p)'
      PROVE  Follow'
  <2>1. \A p : Told(p) => Told(p)'
    BY <1>5 DEF Told
  <2>2. SUFFICES ASSUME NEW p \in Paths, NEW b \in BOOLEAN, <<p, b>> \in troubled'
        PROVE  Told(p)' \/ IF b THEN OrphanFollowed(p)' ELSE RowFollowed(p)'
    BY <1>5 DEF Follow
  <2>3. <<p, b>> \in Troubled /\ (Told(p) \/ IF b THEN OrphanFollowed(p) ELSE RowFollowed(p))
    BY <2>2 DEF Follow
  <2>4. CASE b
    BY <1>5, <2>1, <2>3, <2>4
  <2>5. CASE ~b
    BY <1>5, <2>1, <2>3, <2>5
  <2>6. QED
    BY <2>4, <2>5
<1>6. ASSUME verifier'.known = verifier.known,
             verifier'.pc \notin {"report", "walkSoftware"}
      PROVE  \A p \in Paths : OrphanFollowed(p) => OrphanFollowed(p)'
  BY <1>6 DEF OrphanFollowed
<1>7. ASSUME NEW r \in verifier'.todo, r \in verifier.todo, files[r.id].path = r.path,
             r.path \in damaged \/ (Behind(r) /\ (r = Current' => InSight(r)'))
      PROVE  RowFollowed(r.path)'
  BY <1>1, <1>3, <1>7 DEF RowFollowed
<1>8. verifier.todo # {} => Current \in verifier.todo /\ Current \in InspectedRow
  BY <1>1, CurrentIsOne
<1>9. CASE LookIntoQuarantine
  <2>1. /\ verifier.todo # {} /\ verifier'.pc = "software" /\ verifier'.known = verifier.known
        /\ verifier'.todo = verifier.todo /\ verifier'.issues = verifier.issues
        /\ verifier'.seen = {"quarantine"} \cap store[Current.path]
    BY <1>1, <1>9 DEF LookIntoQuarantine, VerifierState
  <2>2. Current' = Current
    BY <2>1 DEF Current
  <2>3. ASSUME NEW p \in Paths, RowFollowed(p), <<p, FALSE>> \in Troubled
        PROVE  RowFollowed(p)'
    <3>1. PICK r \in verifier.todo :
             /\ r.path = p /\ files[r.id].path = p
             /\ p \in damaged \/ (Behind(r) /\ (r = Current => InSight(r)))
      BY <2>3 DEF RowFollowed
    <3>2. ASSUME p \notin damaged, r = Current
          PROVE  InSight(r)'
      <4>1. IF "quarantine" \in store[p]
            THEN "quarantine" \notin AreaAllowed(r.status) \/ Copied
            ELSE "software" \notin AreaAllowed(r.status) \/ Stored(p) = {}
        BY <1>8, <2>1, <2>3, <3>1, <3>2, SightQuarantine
      <4>2. QED
        BY <1>1, <1>2, <2>1, <3>1, <3>2, <4>1 DEF InSight
    <3>3. QED
      BY <1>7, <2>1, <2>2, <3>1, <3>2
  <2>4. QED
    BY <1>5, <1>6, <2>1, <2>3
<1>10. CASE LookIntoSoftware
  <2> DEFINE row == Current
             seen == verifier.seen \cup ({"software"} \cap store[row.path])
             found == {[kind |-> k, path |-> row.path] : k \in Placed(row, seen)}
  <2>1. /\ verifier.pc = "software"
        /\ verifier' = IF Hashed(row, seen)
             THEN [verifier EXCEPT !.pc = "hash", !.seen = seen, !.issues = @ \cup found]
             ELSE [verifier EXCEPT !.pc = "quarantine", !.seen = {}, !.todo = @ \ {row},
                                   !.issues = @ \cup found]
    BY <1>10 DEF LookIntoSoftware
  <2>2. row \in verifier.todo /\ row \in InspectedRow
    BY <1>8, <2>1 DEF VInv, VerifierKnows
  <2>3. verifier.seen \subseteq {"quarantine"} /\ seen \subseteq StorageArea
    BY <2>1 DEF Follow, StorageArea
  <2>4. Placed(row, seen) # {} => \E x \in verifier'.issues : x.path = row.path
    <3>1. ASSUME NEW k \in Placed(row, seen)
          PROVE  \E x \in verifier'.issues : x.path = row.path
      <4>1. [kind |-> k, path |-> row.path] \in found
        BY <3>1
      <4>2. [kind |-> k, path |-> row.path].path = row.path
        OBVIOUS
      <4> HIDE DEF found, seen, row
      <4>3. [kind |-> k, path |-> row.path] \in verifier'.issues
        BY <1>1, <2>1, <4>1 DEF VerifierState
      <4>4. QED
        BY <4>2, <4>3
    <3>2. QED
      BY <3>1
  <2>5. Placed(row, seen) = {} =>
          seen # {} /\ seen # StorageArea /\ seen \subseteq AreaAllowed(row.status)
    BY DEF Placed
  <2>6. ~Hashed(row, seen) => Placed(row, seen) # {}
    <3>1. seen = {} \/ seen = StorageArea \/ seen = {"quarantine"} \/ seen = {"software"}
      BY <2>3 DEF StorageArea
    <3>2. Cardinality({"quarantine"}) = 1 /\ Cardinality({"software"}) = 1
      BY FS_Singleton
    <3>3. QED
      BY <3>1, <3>2 DEF Hashed, Placed
  <2>7. /\ verifier'.known = verifier.known /\ verifier.issues \subseteq verifier'.issues
        /\ IF Hashed(row, seen)
           THEN verifier'.pc = "hash" /\ verifier'.seen = seen /\ verifier'.todo = verifier.todo
           ELSE verifier'.pc = "quarantine" /\ verifier'.todo = verifier.todo \ {row}
    <3> HIDE DEF found, seen, row
    <3>1. QED
      BY <1>1, <2>1 DEF VerifierState
  <2> HIDE DEF found, seen
  <2>8. ASSUME NEW p \in Paths, RowFollowed(p), <<p, FALSE>> \in Troubled, ~Told(p)'
        PROVE  RowFollowed(p)'
    <3>1. PICK r \in verifier.todo :
             /\ r.path = p /\ files[r.id].path = p
             /\ p \in damaged \/ (Behind(r) /\ (r = row => InSight(r)))
      BY <2>8 DEF RowFollowed
    <3>2. CASE r # row
      <4>1. r \in verifier'.todo /\ (r = Current' => InSight(r)')
        <5>1. CASE Hashed(row, seen)
          <6>1. Current' = row
            BY <2>7, <5>1 DEF Current
          <6>2. QED
            BY <2>7, <3>2, <5>1, <6>1
        <5>2. CASE ~Hashed(row, seen)
          BY <2>7, <3>2, <5>2 DEF InSight
        <5>3. QED
          BY <5>1, <5>2
      <4>2. QED
        BY <1>7, <3>1, <4>1
    <3>3. CASE r = row
      <4>1. Placed(row, seen) = {} /\ Hashed(row, seen)
        BY <2>4, <2>6, <2>8, <3>1, <3>3 DEF Told
      <4>2. verifier'.pc = "hash" /\ verifier'.seen = seen /\ r \in verifier'.todo
        BY <2>7, <4>1
      <4>3. ASSUME p \notin damaged
            PROVE  InSight(r)'
        <5>1. /\ r \in InspectedRow /\ files[r.id].path = r.path /\ Behind(r) /\ InSight(r)
              /\ r.path \notin damaged /\ <<r.path, FALSE>> \in Troubled
          BY <2>2, <2>8, <3>1, <3>3, <4>3
        <5>2. /\ seen = verifier.seen \cup ({"software"} \cap store[r.path])
              /\ seen # {} /\ seen # StorageArea /\ seen \subseteq AreaAllowed(r.status)
          BY <2>5, <3>3, <4>1 DEF seen
        <5>3. /\ seen = {"quarantine"} /\ Copied
              /\ "quarantine" \in AreaAllowed(r.status) /\ "quarantine" \notin store[p]
              /\ "software" \notin store[p]
          <6>1. verifier.pc = "software" /\ verifier.seen \subseteq {"quarantine"}
            BY <2>1, <2>3
          <6>2. /\ seen = {"quarantine"} /\ Copied
                /\ "quarantine" \in AreaAllowed(r.status) /\ "quarantine" \notin store[r.path]
                /\ "software" \notin store[r.path]
            BY <5>1, <5>2, <6>1, SightSoftware
          <6>3. QED
            BY <3>1, <6>2
        <5>4. QED
          BY <1>1, <3>1, <4>2, <5>3 DEF InSight
      <4>4. QED
        BY <1>7, <3>1, <4>2, <4>3
    <3>4. QED
      BY <3>2, <3>3
  <2>9. verifier'.pc \in {"hash", "quarantine"}
    BY <2>7
  <2>10. QED
    BY <1>5, <1>6, <2>7, <2>8, <2>9
<1>11. CASE Hash
  <2> DEFINE row == Current
             found == IF row.path \in damaged THEN OfKind("checksum", {row.path}) ELSE {}
  <2>1. /\ verifier.pc = "hash" /\ verifier.seen \subseteq store[row.path]
        /\ verifier' = [verifier EXCEPT !.pc = "quarantine", !.seen = {}, !.todo = @ \ {row},
                                        !.issues = @ \cup found]
    BY <1>11 DEF Hash, IdleVerifier
  <2>2. /\ verifier'.pc = "quarantine" /\ verifier'.known = verifier.known
        /\ verifier'.todo = verifier.todo \ {row} /\ verifier'.issues = verifier.issues \cup found
    <3> HIDE DEF found, row
    <3>1. QED
      BY <1>1, <2>1 DEF VerifierState
  <2>3. row.path \in damaged => \E x \in verifier'.issues : x.path = row.path
    <3>1. row.path \in damaged => [kind |-> "checksum", path |-> row.path] \in verifier'.issues
      BY <2>2 DEF OfKind
    <3>2. [kind |-> "checksum", path |-> row.path].path = row.path
      OBVIOUS
    <3> HIDE DEF row, found
    <3>3. QED
      BY <3>1, <3>2
  <2>4. ASSUME NEW p \in Paths, RowFollowed(p), <<p, FALSE>> \in Troubled, ~Told(p)'
        PROVE  RowFollowed(p)'
    <3>1. PICK r \in verifier.todo :
             /\ r.path = p /\ files[r.id].path = p
             /\ p \in damaged \/ (Behind(r) /\ (r = row => InSight(r)))
      BY <2>4 DEF RowFollowed
    <3>2. r # row
      <4>1. SUFFICES ASSUME r = row PROVE FALSE
        OBVIOUS
      <4>2. InSight(r) /\ r.path = p
        BY <2>3, <2>4, <3>1, <4>1 DEF Told
      <4>3. QED
        BY <2>1, <3>1, <4>1, <4>2 DEF InSight
    <3>3. QED
      BY <1>7, <2>2, <3>1, <3>2 DEF InSight
  <2>5. QED
    BY <1>5, <1>6, <2>2, <2>4
<1>12. CASE AllInspected
  <2>1. /\ verifier.todo = {} /\ verifier'.todo = {} /\ verifier'.pc = "walkQuarantine"
        /\ verifier'.known = verifier.known /\ verifier'.issues = verifier.issues
    BY <1>1, <1>12 DEF AllInspected, VerifierState
  <2>2. QED
    BY <1>5, <1>6, <2>1 DEF RowFollowed
<1>13. ASSUME NEW a \in StorageArea, NEW c, WalkArea(c, a, verifier'.pc),
              c \in {"walkQuarantine", "walkSoftware"},
              verifier'.pc = IF a = "quarantine" THEN "walkSoftware" ELSE "report",
              a = "software" <=> c = "walkSoftware"
       PROVE  Follow'
  <2>1. /\ verifier.pc = c /\ verifier'.todo = verifier.todo /\ verifier'.known = verifier.known
        /\ verifier'.issues = verifier.issues \cup UnknownFiles(a)
    BY <1>1, <1>13 DEF WalkArea, VerifierState
  <2>2. verifier.todo = {}
    BY <1>13, <2>1 DEF Follow
  <2>3. ASSUME NEW p \in Paths, OrphanFollowed(p), a \in store[p]
        PROVE  Told(p)'
    <3>1. [kind |-> "orphan", path |-> p] \in UnknownFiles(a)
      BY <2>3 DEF UnknownFiles, OfKind, OrphanFollowed
    <3>2. [kind |-> "orphan", path |-> p].path = p
      OBVIOUS
    <3>3. QED
      BY <2>1, <3>1, <3>2 DEF Told
  <2>4. ASSUME NEW p \in Paths, OrphanFollowed(p), <<p, TRUE>> \in Troubled, a \notin store[p]
        PROVE  OrphanFollowed(p)'
    <3>1. Stored(p) # {}
      BY <2>4, TroubleIs
    <3>2. a = "quarantine" /\ "software" \in store[p]
      <4>1. a = "software" => a \in store[p]
        BY <1>13, <2>1, <2>4 DEF OrphanFollowed
      <4>2. QED
        BY <2>4, <3>1, <4>1 DEF Stored, StorageArea
    <3>3. QED
      BY <1>1, <1>13, <2>1, <2>4, <3>2 DEF OrphanFollowed
  <2>5. QED
    BY <1>5, <1>13, <2>1, <2>2, <2>3, <2>4 DEF RowFollowed
<1>14. CASE WalkArea("walkQuarantine", "quarantine", "walkSoftware")
  <2>1. verifier'.pc = "walkSoftware"
    BY <1>1, <1>14 DEF WalkArea, VerifierState
  <2>2. QED
    BY <1>13, <1>14, <2>1 DEF StorageArea
<1>15. CASE WalkArea("walkSoftware", "software", "report")
  <2>1. verifier'.pc = "report"
    BY <1>1, <1>15 DEF WalkArea, VerifierState
  <2>2. QED
    BY <1>13, <1>15, <2>1 DEF StorageArea
<1>16. ~SelectRows /\ ~Reported
  BY DEF SelectRows, Reported, IdleVerifier
<1>17. QED
  BY <1>9, <1>10, <1>11, <1>12, <1>14, <1>15, <1>16 DEF VerifierStep

\* What has trouble at the SELECT is followed from there.
LEMMA FollowSelect ==
  ASSUME VInv, SelectRows, UNCHANGED <<vars, damaged>>, troubled' \subseteq Troubled'
  PROVE  Follow'
<1> DEFINE rows == {i \in FileIds : files[i] # NoRow}
           known == {files[i].path : i \in rows}
           row(i) == [id |-> i, path |-> files[i].path, status |-> files[i].status]
           todo == {row(i) : i \in rows}
<1>1. verifier' = [IdleVerifier EXCEPT !.pc = "quarantine", !.known = known, !.todo = todo]
  BY DEF SelectRows
<1>2. files' = files /\ store' = store /\ damaged' = damaged
  BY DEF vars
<1>3. \A p \in Paths, i \in FileIds : files[i].path = p => files[i] # NoRow
  BY FileAssumption DEF NoRow
<1>4. ASSUME NEW p \in Paths, ~Listed(p)
      PROVE  p \notin known
  BY <1>4 DEF Listed
<1>5. ASSUME NEW p \in Paths, Listed(p)
      PROVE  \E r \in todo : r.path = p /\ files[r.id].path = p /\ files[r.id].status = r.status
  <2>1. PICK i \in FileIds : files[i].path = p
    BY <1>5 DEF Listed
  <2>2. row(i) \in todo
    BY <1>3, <2>1
  <2>3. row(i).id = i /\ row(i).path = p /\ row(i).status = files[i].status
    BY <2>1
  <2> HIDE DEF row, todo
  <2>4. QED
    BY <2>1, <2>2, <2>3
<1> HIDE DEF known, todo
<1>6. verifier'.pc = "quarantine" /\ verifier'.known = known /\ verifier'.todo = todo
  BY <1>1 DEF IdleVerifier
<1>7. ASSUME NEW p \in Paths, NEW b \in BOOLEAN, <<p, b>> \in troubled'
      PROVE  IF b THEN OrphanFollowed(p)' ELSE RowFollowed(p)'
  <2>1. /\ b => ~Listed(p)'
        /\ ~b => Listed(p)'
    BY <1>7, TroubleStays
  <2>2. Listed(p)' <=> Listed(p)
    BY <1>2 DEF Listed
  <2>3. CASE b
    BY <1>4, <1>6, <2>1, <2>2, <2>3 DEF OrphanFollowed
  <2>4. CASE ~b
    <3>1. PICK r \in todo :
             r.path = p /\ files[r.id].path = p /\ files[r.id].status = r.status
      BY <1>5, <2>1, <2>2, <2>4
    <3>2. Behind(r)' /\ InSight(r)'
      BY <1>2, <1>6, <3>1 DEF Behind, InSight
    <3>3. RowFollowed(p)'
      BY <1>2, <1>6, <3>1, <3>2 DEF RowFollowed
    <3>4. QED
      BY <2>4, <3>3
  <2>5. QED
    BY <2>3, <2>4
<1>8. QED
  BY <1>6, <1>7 DEF Follow

\* Every step.
LEMMA FollowNext ==
  ASSUME Serial, FewCopies, VInv, SoloInv, Follow, [VNext]_vvars
  PROVE  Follow'
<1>1. SoloInv'
  BY SoloNext
<1>2. CASE UNCHANGED vvars
  <2>1. /\ files' = files /\ store' = store /\ req' = req /\ damaged' = damaged
        /\ mishaps' = mishaps /\ verifier' = verifier /\ troubled' = troubled
    BY <1>2 DEF vvars, vars
  <2>2. Troubled' = Troubled /\ Current' = Current
    BY <2>1 DEF Troubled, Issues, Listed, Stored, Current
  <2>3. \A r : (Behind(r)' <=> Behind(r)) /\ (InSight(r)' <=> InSight(r))
    BY <2>1 DEF Behind, Stuck, Busy, InSight, Stored, Copied
  <2>4. \A p : (RowFollowed(p)' <=> RowFollowed(p)) /\ (Told(p)' <=> Told(p))
             /\ (OrphanFollowed(p)' <=> OrphanFollowed(p))
    BY <2>1, <2>2, <2>3 DEF RowFollowed, Told, OrphanFollowed
  <2>5. QED
    BY <2>1, <2>2, <2>4 DEF Follow
<1>3. CASE VNext
  <2>1. /\ verifier'.pc = "idle" => troubled' = {}
        /\ troubled' \subseteq Troubled'
        /\ verifier.pc # "idle" => troubled' \subseteq troubled
    BY <1>3 DEF VNext
  <2>2. CASE verifier' = IdleVerifier
    BY <2>1, <2>2 DEF IdleVerifier, Follow
  <2>3. CASE VerifierStep /\ UNCHANGED <<vars, damaged, mishaps>> /\ verifier' # IdleVerifier
    <3>1. CASE SelectRows
      BY <2>1, <2>3, <3>1, FollowSelect
    <3>2. CASE ~SelectRows
      <4>1. verifier.pc # "idle" /\ verifier'.pc # "idle"
        <5>1. verifier \in VerifierState
          BY DEF VInv
        <5>2. QED
          BY <2>3, <3>2, <5>1 DEF VerifierStep, LookIntoQuarantine, LookIntoSoftware, Hash,
             AllInspected, WalkArea, Reported, VerifierState
      <4>2. QED
        BY <2>1, <2>3, <4>1, FollowVerifier
    <3>3. QED
      BY <3>1, <3>2
  <2>4. CASE UNCHANGED verifier /\
             \/ RequestStep /\ UNCHANGED mishaps
             \/ (\E p \in Paths : CleanupTemporary(p)) /\ UNCHANGED <<damaged, mishaps>>
             \/ \E p \in Paths : Mishap(p)
    <3>1. troubled' \subseteq troubled
      BY <2>1, <2>4
    <3>2. QED
      BY <1>1, <2>1, <2>4, <3>1, FollowBeside
  <2>5. QED
    BY <1>3, <2>2, <2>3, <2>4 DEF VNext, RequestStep, Mishap
<1>4. QED
  BY <1>2, <1>3

\* With one request at a time, and at most one copy of a file left by an operator, a row
\* that is in trouble when verify_storage begins and until it reports, and a file that no
\* row has named since, is in its report, whatever requests, faults, damage and losses
\* come between its looks.
THEOREM TroubleIsReported ==
  ASSUME Serial, FewCopies
  PROVE  VSpec => []TroubleReported
<1>1. ASSUME VInit PROVE SoloInv /\ Follow
  <2>1. HInv
    BY <1>1, HeldInit DEF VInit
  <2>2. Held /\ SingleCopy
    BY <2>1, HeldOf DEF HInv, IInv
  <2>3. UnusedEmpty /\ RowsOnce /\ UploadsUnlisted /\ Landed
    BY <1>1, FileAssumption DEF VInit, Init, UnusedEmpty, RowsOnce, UploadsUnlisted, Landed,
       IdleReq, StatusOps
  <2>4. Follow
    BY <1>1 DEF VInit, Follow, IdleVerifier
  <2>5. QED
    BY <2>2, <2>3, <2>4 DEF SoloInv
<1>2. VInv /\ SoloInv /\ Follow /\ [VNext]_vvars => (SoloInv /\ Follow)'
  BY SoloNext, FollowNext
<1>3. VInv /\ Follow => TroubleReported
  <2>1. SUFFICES ASSUME VInv, Follow, verifier.pc = "report", NEW t \in troubled
        PROVE  Told(t[1])
    BY DEF TroubleReported, Told
  <2>2. PICK p \in Paths, b \in BOOLEAN : t = <<p, b>>
    BY <2>1 DEF VInv, VTypeOK
  <2>3. Told(p) \/ IF b THEN OrphanFollowed(p) ELSE RowFollowed(p)
    BY <2>1, <2>2 DEF Follow
  <2>4. ~OrphanFollowed(p) /\ ~RowFollowed(p)
    BY <2>1 DEF Follow, OrphanFollowed, RowFollowed
  <2>5. QED
    BY <2>2, <2>3, <2>4
<1>4. QED
  BY <1>1, <1>2, <1>3, VerifierAlways, PTL DEF VSpec
=============================================================================
