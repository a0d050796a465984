---------------------------- MODULE CatalogProofs ----------------------------
(***************************************************************************)
(* Proofs about Catalog for every number of workers and releases, every    *)
(* set of versions and channels, and any number of raced writes.           *)
(***************************************************************************)
EXTENDS Catalog, TLAPS

USE CatalogAssumption

-----------------------------------------------------------------------------
(* The inductive invariant *)

Edits == {"update", "transition_status", "set_current_stable", "clear_current"}

\* What a transaction is about to write keeps the marker right if what it has loaded had
\* it right.
InFlight(r) ==
    /\ r.op \in Edits =>
         /\ r.id \in ReleaseIds /\ releases[r.id] # NoRelease
         /\ r.was \in Release /\ r.will \in Release
         /\ MarkerOK(r.was) => MarkerOK(r.will)
    /\ r.op = "create" => r.will \in Release /\ ~r.will.current
    /\ r.op = "software_transition" => r.was \in Software /\ r.will \in Software

IInv ==
    /\ TypeOK
    /\ \A w \in Workers : InFlight(req[w])
    /\ CurrentIsPublishedStable
    /\ IndexesHold(releases)

\* No two releases carry the current marker, but for those whose writes were raced.
OneCurrent ==
    \A i, j \in ReleaseIds \ raced : releases[i].current /\ releases[j].current => i = j

-----------------------------------------------------------------------------
(* Facts about operators *)

\* A row is no row's absence.
LEMMA ReleaseIsSome == \A r \in Release : r # NoRelease
  BY DEF Release, NoRelease, ReleaseStatus

\* An UPDATE writes the columns that differ from what was loaded, and keeps the others.
LEMMA UpdatedRelease ==
  ASSUME NEW row \in Release, NEW was \in Release, NEW will \in Release
  PROVE  /\ Updated(row, was, will) \in Release
         /\ was = row => Updated(row, was, will) = will
  BY DEF Updated, Release

\* The software row keeps its type through an UPDATE.
LEMMA UpdatedSoftware ==
  ASSUME NEW row \in Software, NEW was \in Software, NEW will \in Software
  PROVE  Updated(row, was, will) \in Software
  BY DEF Updated, Software

\* clear_current_stable takes markers away and changes nothing else.
LEMMA ClearedRow ==
  ASSUME NEW r, NEW i, NEW row \in Release \cup {NoRelease}
  PROVE  /\ Cleared(r, i, row) \in Release \cup {NoRelease}
         /\ Cleared(r, i, row) = NoRelease <=> row = NoRelease
         /\ MarkerOK(row) => MarkerOK(Cleared(r, i, row))
<1>1. CASE row = NoRelease
  BY <1>1 DEF Cleared, NoRelease, MarkerOK
<1>2. CASE row \in Release
  BY <1>2, ReleaseIsSome DEF Cleared, Release, MarkerOK
<1>3. QED
  BY <1>1, <1>2

-----------------------------------------------------------------------------
(* The SELECTs and checks *)

\* An idle transaction is well typed.
LEMMA IdleType == IdleReq \in Request /\ IdleReq.op = "none"
  BY DEF IdleReq, Request, Op

\* A transaction that begins keeps the invariant if what it is to write is in order.
LEMMA LoadStep ==
  ASSUME IInv, NEW w \in Workers, NEW op \in Op, NEW id \in ReleaseIds \cup {0},
         NEW was \in Release \cup Software \cup {NoRelease},
         NEW will \in Release \cup Software \cup {NoRelease},
         Load(w, op, id, was, will),
         InFlight([op |-> op, id |-> id, was |-> was, will |-> will])
  PROVE  IInv'
<1> DEFINE n == [op |-> op, id |-> id, was |-> was, will |-> will]
<1>1. n \in Request
  BY DEF Request
<1>2. req' = [req EXCEPT ![w] = n] /\ UNCHANGED <<software, releases, raced>>
  BY DEF Load
<1> HIDE DEF n
<1>3. /\ req' \in [Workers -> Request] /\ req'[w] = n
      /\ \A v \in Workers \ {w} : req'[v] = req[v]
  BY <1>1, <1>2 DEF IInv, TypeOK
<1>4. \A v \in Workers : InFlight(req'[v])
  BY <1>3 DEF IInv, n
<1>5. \A v \in Workers : InFlight(req[v])'
  BY <1>2, <1>4 DEF InFlight
<1>6. QED
  BY <1>2, <1>3, <1>5 DEF IInv, TypeOK, CurrentIsPublishedStable

\* Edits of a row and transitions of the entry.
LEMMA BeginStep ==
  ASSUME IInv, NEW w \in Workers, 
         \/ \E target \in Targets : SoftwareTransition(w, target)
         \/ \E v \in Versions, c \in Channels : Create(w, v, c)
         \/ \E i \in ReleaseIds :
              \/ \E v \in Versions, c \in Channels : Update(w, i, v, c)
              \/ \E target \in ReleaseStatus : TransitionStatus(w, i, target)
              \/ SetCurrentStable(w, i) \/ ClearCurrent(w, i)
  PROVE  IInv'
<1>1. /\ software \in Software /\ releases \in [ReleaseIds -> Release \cup {NoRelease}]
      /\ 0 \notin ReleaseIds
  BY DEF IInv, TypeOK, ReleaseIds
<1>2. ASSUME NEW target \in Targets, SoftwareTransition(w, target)
      PROVE  IInv'
  <2> DEFINE will == ApplySoftwareTransition(software, target)
             op == "software_transition"
  <2>1. will \in Software
    BY <1>1 DEF ApplySoftwareTransition, Software
  <2>2. InFlight([op |-> op, id |-> 0, was |-> software, will |-> will])
    BY <1>1, <2>1 DEF InFlight, Edits
  <2>3. op \in Op /\ Load(w, op, 0, software, will)
    BY <1>2 DEF Op, SoftwareTransition
  <2> HIDE DEF will
  <2>4. QED
    BY <1>1, <2>1, <2>2, <2>3, LoadStep
<1>3. ASSUME NEW v \in Versions, NEW c \in Channels, Create(w, v, c)
      PROVE  IInv'
  <2> DEFINE will == [version |-> v, channel |-> c, status |-> "draft", current |-> FALSE]
  <2>1. will \in Release /\ ~will.current
    BY DEF Release, ReleaseStatus
  <2>2. InFlight([op |-> "create", id |-> 0, was |-> NoRelease, will |-> will])
    BY <2>1 DEF InFlight, Edits
  <2>3. "create" \in Op /\ Load(w, "create", 0, NoRelease, will)
    BY <1>3 DEF Op, Create
  <2> HIDE DEF will
  <2>4. QED
    BY <2>1, <2>2, <2>3, LoadStep
<1>4. ASSUME NEW op \in Edits, NEW i \in ReleaseIds, NEW will \in Release,
             releases[i] # NoRelease, MarkerOK(releases[i]) => MarkerOK(will),
             Load(w, op, i, releases[i], will)
      PROVE  IInv'
  <2>1. InFlight([op |-> op, id |-> i, was |-> releases[i], will |-> will])
    BY <1>1, <1>4 DEF InFlight, Edits
  <2>2. op \in Op
    BY DEF Op, Edits
  <2>3. QED
    BY <1>1, <1>4, <2>1, <2>2, LoadStep
<1>5. ASSUME NEW i \in ReleaseIds, NEW v \in Versions, NEW c \in Channels, Update(w, i, v, c)
      PROVE  IInv'
  <2> DEFINE will == [releases[i] EXCEPT !.version = v, !.channel = c]
  <2>1. releases[i] \in Release /\ releases[i] # NoRelease
    BY <1>1, <1>5 DEF Update
  <2>2. will \in Release /\ (MarkerOK(releases[i]) => MarkerOK(will))
    BY <1>5, <2>1 DEF Update, Release, MarkerOK
  <2>3. Load(w, "update", i, releases[i], will)
    BY <1>5 DEF Update
  <2> HIDE DEF will
  <2>4. QED
    BY <1>4, <2>1, <2>2, <2>3 DEF Edits
<1>6. ASSUME NEW i \in ReleaseIds, NEW target \in ReleaseStatus, TransitionStatus(w, i, target)
      PROVE  IInv'
  <2> DEFINE will == ApplyReleaseTransition(releases[i], target)
  <2>1. releases[i] \in Release /\ releases[i] # NoRelease
    BY <1>1, <1>6 DEF TransitionStatus
  <2>2. will \in Release /\ (MarkerOK(releases[i]) => MarkerOK(will))
    BY <2>1 DEF ApplyReleaseTransition, Release, MarkerOK
  <2>3. Load(w, "transition_status", i, releases[i], will)
    BY <1>6 DEF TransitionStatus
  <2> HIDE DEF will
  <2>4. QED
    BY <1>4, <2>1, <2>2, <2>3 DEF Edits
<1>7. ASSUME NEW i \in ReleaseIds, SetCurrentStable(w, i)
      PROVE  IInv'
  <2> DEFINE will == [releases[i] EXCEPT !.current = TRUE]
  <2>1. releases[i] \in Release /\ releases[i] # NoRelease
    BY <1>1, <1>7 DEF SetCurrentStable
  <2>2. will \in Release /\ MarkerOK(will)
    BY <1>7, <2>1 DEF SetCurrentStable, EnsureCurrentStableCandidate, Release, MarkerOK
  <2>3. Load(w, "set_current_stable", i, releases[i], will)
    BY <1>7 DEF SetCurrentStable
  <2> HIDE DEF will
  <2>4. QED
    BY <1>4, <2>1, <2>2, <2>3 DEF Edits
<1>8. ASSUME NEW i \in ReleaseIds, ClearCurrent(w, i)
      PROVE  IInv'
  <2> DEFINE will == [releases[i] EXCEPT !.current = FALSE]
  <2>1. releases[i] \in Release /\ releases[i] # NoRelease
    BY <1>1, <1>8 DEF ClearCurrent, NoRelease
  <2>2. will \in Release /\ MarkerOK(will)
    BY <2>1 DEF Release, MarkerOK
  <2>3. Load(w, "clear_current", i, releases[i], will)
    BY <1>8 DEF ClearCurrent
  <2> HIDE DEF will
  <2>4. QED
    BY <1>4, <2>1, <2>2, <2>3 DEF Edits
<1>9. QED
  BY <1>2, <1>3, <1>5, <1>6, <1>7, <1>8

-----------------------------------------------------------------------------
(* The writes *)

\* A transaction that ends keeps the invariant if no row goes, and what it has written is
\* in order.
LEMMA EndStep ==
  ASSUME IInv, NEW w \in Workers, req' = [req EXCEPT ![w] = IdleReq],
         software' \in Software, releases' \in [ReleaseIds -> Release \cup {NoRelease}],
         raced' \subseteq ReleaseIds \cup {0},
         \A i \in ReleaseIds : releases[i] # NoRelease => releases'[i] # NoRelease,
         CurrentIsPublishedStable', IndexesHold(releases')
  PROVE  IInv'
<1>1. TypeOK'
  BY IdleType DEF IInv, TypeOK
<1>2. \A v \in Workers : InFlight(req[v])'
  <2>1. \A v \in Workers : req'[v] = IdleReq \/ req'[v] = req[v]
    BY DEF IInv, TypeOK
  <2>2. QED
    BY <2>1, IdleType DEF IInv, InFlight, Edits
<1>3. QED
  BY <1>1, <1>2 DEF IInv

\* CommitRelease: a row that is written as it was loaded carries what its transaction
\* checked; another one is raced.
LEMMA CommitReleaseStep ==
  ASSUME IInv, NEW w \in Workers, CommitRelease(w)
  PROVE  IInv'
<1> DEFINE r == req[w]
           row == Updated(releases[r.id], r.was, r.will)
<1>1. /\ r.op \notin {"none", "create", "software_transition"}
      /\ releases' = [i \in ReleaseIds |->
           IF i = r.id THEN row ELSE Cleared(r, i, releases[i])]
      /\ IndexesHold(releases') /\ req' = [req EXCEPT ![w] = IdleReq]
      /\ raced' = IF r.was = releases[r.id] THEN raced ELSE raced \cup {r.id}
      /\ software' = software
  BY DEF CommitRelease
<1>2. /\ r \in Request /\ InFlight(r) /\ software \in Software
      /\ releases \in [ReleaseIds -> Release \cup {NoRelease}]
      /\ raced \subseteq ReleaseIds \cup {0}
  BY DEF IInv, TypeOK
<1>3. r.op \in Edits
  BY <1>1, <1>2 DEF Request, Op, Edits
<1>4. /\ r.id \in ReleaseIds /\ releases[r.id] \in Release
      /\ r.was \in Release /\ r.will \in Release
      /\ MarkerOK(r.was) => MarkerOK(r.will)
  BY <1>2, <1>3 DEF InFlight
<1>5. row \in Release /\ row # NoRelease /\ (r.was = releases[r.id] => row = r.will)
  BY <1>4, UpdatedRelease, ReleaseIsSome
<1> HIDE DEF row
<1>6. ASSUME NEW i \in ReleaseIds
      PROVE  /\ releases'[i] \in Release \cup {NoRelease}
             /\ releases[i] # NoRelease => releases'[i] # NoRelease
             /\ i \notin raced' => MarkerOK(releases'[i])
  <2>1. CASE i = r.id
    BY <1>1, <1>4, <1>5, <2>1 DEF IInv, CurrentIsPublishedStable
  <2>2. CASE i # r.id
    <3>1. releases'[i] = Cleared(r, i, releases[i]) /\ (i \notin raced' => i \notin raced)
      BY <1>1, <2>2
    <3>2. QED
      BY <1>2, <3>1, ClearedRow DEF IInv, CurrentIsPublishedStable
  <2>3. QED
    BY <2>1, <2>2
<1>7. releases' \in [ReleaseIds -> Release \cup {NoRelease}]
  <2>1. DOMAIN releases' = ReleaseIds /\ releases' = [i \in ReleaseIds |-> releases'[i]]
    BY <1>1
  <2>2. QED
    BY <1>6, <2>1
<1>8. raced' \subseteq ReleaseIds \cup {0} /\ CurrentIsPublishedStable'
  BY <1>1, <1>2, <1>4, <1>6 DEF CurrentIsPublishedStable
<1>9. QED
  BY <1>1, <1>2, <1>6, <1>7, <1>8, EndStep

\* CommitCreate: the new release has no marker.
LEMMA CommitCreateStep ==
  ASSUME IInv, NEW w \in Workers, NEW i \in ReleaseIds, CommitCreate(w, i)
  PROVE  IInv'
<1>1. /\ req[w].op = "create" /\ releases' = [releases EXCEPT ![i] = req[w].will]
      /\ IndexesHold(releases') /\ req' = [req EXCEPT ![w] = IdleReq]
      /\ UNCHANGED <<software, raced>>
  BY DEF CommitCreate
<1>2. /\ software \in Software /\ releases \in [ReleaseIds -> Release \cup {NoRelease}]
      /\ raced \subseteq ReleaseIds \cup {0}
  BY DEF IInv, TypeOK
<1>3. req[w].will \in Release /\ ~req[w].will.current /\ req[w].will # NoRelease
  BY <1>1, ReleaseIsSome DEF IInv, InFlight
<1>4. /\ releases' \in [ReleaseIds -> Release \cup {NoRelease}]
      /\ \A j \in ReleaseIds : releases[j] # NoRelease => releases'[j] # NoRelease
  BY <1>1, <1>2, <1>3
<1>5. CurrentIsPublishedStable'
  BY <1>1, <1>2, <1>3 DEF IInv, CurrentIsPublishedStable, MarkerOK
<1>6. QED
  BY <1>1, <1>2, <1>4, <1>5, EndStep

\* CommitSoftware touches no release.
LEMMA CommitSoftwareStep ==
  ASSUME IInv, NEW w \in Workers, CommitSoftware(w)
  PROVE  IInv'
<1>1. /\ req[w].op = "software_transition"
      /\ software' = Updated(software, req[w].was, req[w].will)
      /\ req' = [req EXCEPT ![w] = IdleReq]
      /\ raced' \in {raced, raced \cup {0}} /\ releases' = releases
  BY DEF CommitSoftware
<1>2. /\ software \in Software /\ releases \in [ReleaseIds -> Release \cup {NoRelease}]
      /\ raced \subseteq ReleaseIds \cup {0} /\ IndexesHold(releases)
  BY DEF IInv, TypeOK
<1>3. software' \in Software
  BY <1>1, <1>2, UpdatedSoftware DEF IInv, InFlight
<1>4. CurrentIsPublishedStable'
  BY <1>1 DEF IInv, CurrentIsPublishedStable
<1>5. QED
  BY <1>1, <1>2, <1>3, <1>4, EndStep

\* Abort: nothing is written.
LEMMA AbortStep ==
  ASSUME IInv, NEW w \in Workers, Abort(w)
  PROVE  IInv'
<1>1. req' = [req EXCEPT ![w] = IdleReq] /\ UNCHANGED <<software, releases, raced>>
  BY DEF Abort
<1>2. CurrentIsPublishedStable' /\ IndexesHold(releases')
  BY <1>1 DEF IInv, CurrentIsPublishedStable
<1>3. QED
  BY <1>1, <1>2, EndStep DEF IInv, TypeOK

-----------------------------------------------------------------------------
(* The invariant *)

\* There is no release yet.
LEMMA InitIInv == Init => IInv
<1> SUFFICES ASSUME Init PROVE IInv
  OBVIOUS
<1>1. \A i \in ReleaseIds : releases[i] = NoRelease
  BY DEF Init
<1>2. TypeOK
  BY IdleType DEF Init, TypeOK, Software, SoftwareStatus
<1>3. \A w \in Workers : InFlight(req[w])
  BY IdleType DEF Init, InFlight, Edits
<1>4. CurrentIsPublishedStable /\ IndexesHold(releases)
  BY <1>1 DEF CurrentIsPublishedStable, MarkerOK, NoRelease, IndexesHold, Duplicates
<1>5. QED
  BY <1>2, <1>3, <1>4 DEF IInv

\* Every step keeps the invariant.
LEMMA NextIInv == IInv /\ [Next]_vars => IInv'
<1> SUFFICES ASSUME IInv, [Next]_vars PROVE IInv'
  OBVIOUS
<1>1. ASSUME NEW w \in Workers,
             \/ CommitRelease(w) \/ CommitSoftware(w) \/ Abort(w)
             \/ \E i \in ReleaseIds : CommitCreate(w, i)
      PROVE  IInv'
  BY <1>1, CommitReleaseStep, CommitSoftwareStep, AbortStep, CommitCreateStep
<1>2. CASE UNCHANGED vars
  BY <1>2 DEF vars, IInv, TypeOK, InFlight, CurrentIsPublishedStable
<1>3. QED
  BY <1>1, <1>2, BeginStep DEF Next

-----------------------------------------------------------------------------
(* The theorems *)

\* The invariant holds in every reachable state.
THEOREM Invariance == Spec => []IInv
<1>1. QED
  BY InitIInv, NextIInv, PTL DEF Spec

\* Every variable keeps its type.
THEOREM TypeCorrect == Spec => []TypeOK
<1>1. IInv => TypeOK
  BY DEF IInv
<1>2. QED
  BY <1>1, Invariance, PTL

\* Only a published stable release carries the current marker, unless a write to it landed
\* on a change that its transaction had not read.
THEOREM MarkerIsEarned == Spec => []CurrentIsPublishedStable
<1>1. IInv => CurrentIsPublishedStable
  BY DEF IInv
<1>2. QED
  BY <1>1, Invariance, PTL

\* set_current_stable: with the marker right, the unique index leaves it on one release.
THEOREM MarkerIsUnique == Spec => []OneCurrent
<1>1. IInv => OneCurrent
  BY DEF IInv, TypeOK, CurrentIsPublishedStable, MarkerOK, OneCurrent, IndexesHold,
     Duplicates, NoRelease
<1>2. QED
  BY <1>1, Invariance, PTL

\* The page recommends a published release, and a marked one if there is one, wherever
\* overlapping requests have left the marker.
THEOREM RecommendationIsPublished == Spec => []RecommendsPublished
<1>1. IInv => RecommendsPublished
  <2> SUFFICES ASSUME IInv, NEW i \in CurrentRelease
               PROVE  /\ releases[i].status = "published"
                      /\ (\E j \in ReleaseIds :
                            releases[j].current /\ releases[j].status = "published")
                           => releases[i].current
    BY DEF RecommendsPublished
  <2> DEFINE marked == {j \in ReleaseViews : ViewIsCurrent(releases[j])}
  <2>1. CASE marked # {}
    BY <2>1 DEF CurrentRelease, ViewIsCurrent
  <2>2. CASE marked = {}
    BY <2>2 DEF CurrentRelease, ReleaseViews, ViewIsCurrent
  <2>3. QED
    BY <2>1, <2>2
<1>2. QED
  BY <1>1, Invariance, PTL
=============================================================================
