------------------------------ MODULE Catalog ------------------------------
(***************************************************************************)
(* One catalog entry and its releases (SoftwareService, ReleaseService):   *)
(* lifecycle transitions and the selection of the current stable release.  *)
(*                                                                         *)
(* A transaction SELECTs what it checks and, later, writes the columns     *)
(* that differ from what it loaded; only the write holds SQLite's lock.    *)
(* Creating and editing a release run on the event loop, the other routes  *)
(* in threads.                                                             *)
(***************************************************************************)
EXTENDS CatalogPolicies, Naturals, FiniteSets

CONSTANTS
    Workers,      \* concurrent requests
    MaxRelease,   \* bound: releases of the entry
    Versions,     \* version strings, normalised
    Channels,     \* the release channels this instance uses
    Targets,      \* the software statuses its administrators ask for
    MaxRaced      \* bound: with more rows raced no new transaction begins

ASSUME CatalogAssumption ==
    /\ MaxRelease \in Nat /\ MaxRaced \in Nat
    /\ Channels \subseteq ReleaseChannel
    /\ Targets \subseteq SoftwareStatus

VARIABLES
    software,   \* the software row: status and whether archived_at is set
    releases,   \* releases: row id -> row, NoRelease where there is none
    req,        \* worker -> transaction in flight
    raced       \* rows written over a change they had not read; 0: the software row

vars == <<software, releases, req, raced>>

ReleaseIds == 1..MaxRelease
Software == [status : SoftwareStatus, archivedAt : BOOLEAN]
Release == [version : Versions, channel : Channels, status : ReleaseStatus,
            current : BOOLEAN]
NoRelease == [version |-> "none", channel |-> "none", status |-> "none", current |-> FALSE]

\* was and will: the row as loaded and as changed in memory.
Op == {"none", "create", "update", "transition_status", "set_current_stable",
       "clear_current", "software_transition"}
Request == [op : Op, id : ReleaseIds \cup {0},
            was : Release \cup Software \cup {NoRelease},
            will : Release \cup Software \cup {NoRelease}]
IdleReq == [op |-> "none", id |-> 0, was |-> NoRelease, will |-> NoRelease]

Init ==
    /\ software = [status |-> "draft", archivedAt |-> FALSE]
    /\ releases = [i \in ReleaseIds |-> NoRelease]
    /\ req = [w \in Workers |-> IdleReq]
    /\ raced = {}

Idle(w) == req[w].op = "none"
LoopFree(w) == \A v \in Workers \ {w} : req[v].op \notin {"create", "update"}

Load(w, op, id, was, will) ==
    /\ Idle(w)
    /\ Cardinality(raced) <= MaxRaced
    /\ req' = [req EXCEPT ![w] = [op |-> op, id |-> id, was |-> was, will |-> will]]
    /\ UNCHANGED <<software, releases, raced>>

-----------------------------------------------------------------------------
(* apply_software_transition *)

ApplySoftwareTransition(s, target) ==
    [s EXCEPT !.status = target, !.archivedAt = (target = "archived")]

-----------------------------------------------------------------------------
(* The SELECTs and checks of each operation; one that would write what it has   *)
(* loaded writes nothing and is left out.                                       *)

SoftwareTransition(w, target) ==
    /\ target \in SOFTWARE_TRANSITIONS[software.status]
    /\ Load(w, "software_transition", 0, software, ApplySoftwareTransition(software, target))

SameIdentity(version, channel) ==
    {i \in ReleaseIds : releases[i].version = version /\ releases[i].channel = channel}

Create(w, version, channel) ==
    /\ LoopFree(w)
    /\ SameIdentity(version, channel) = {}
    /\ Load(w, "create", 0, NoRelease,
            [version |-> version, channel |-> channel, status |-> "draft", current |-> FALSE])

Update(w, i, version, channel) ==
    /\ LoopFree(w)
    /\ releases[i] # NoRelease
    /\ <<version, channel>> # <<releases[i].version, releases[i].channel>>
    /\ releases[i].current => channel = "stable"
    /\ SameIdentity(version, channel) \subseteq {i}
    /\ Load(w, "update", i, releases[i],
            [releases[i] EXCEPT !.version = version, !.channel = channel])

TransitionStatus(w, i, target) ==
    /\ releases[i] # NoRelease
    /\ ReleaseTransitionAllowed(releases[i], target, software)
    /\ Load(w, "transition_status", i, releases[i], ApplyReleaseTransition(releases[i], target))

SetCurrentStable(w, i) ==
    /\ releases[i] # NoRelease
    /\ EnsureCurrentStableCandidate(releases[i], software)
    /\ Load(w, "set_current_stable", i, releases[i], [releases[i] EXCEPT !.current = TRUE])

ClearCurrent(w, i) ==
    /\ releases[i].current
    /\ Load(w, "clear_current", i, releases[i], [releases[i] EXCEPT !.current = FALSE])

-----------------------------------------------------------------------------
(* The write and commit *)

\* The row after an UPDATE of the columns that differ from the loaded ones.
Updated(row, was, will) ==
    [c \in DOMAIN row |-> IF will[c] # was[c] THEN will[c] ELSE row[c]]

\* clear_current_stable, the first statement of set_current_stable.
Cleared(r, i, row) ==
    IF r.op = "set_current_stable" /\ i # r.id /\ row.channel = "stable"
    THEN [row EXCEPT !.current = FALSE] ELSE row

\* The two unique indexes of the table.
Duplicates(rows, i, j) ==
    /\ i # j /\ rows[i] # NoRelease /\ rows[j] # NoRelease
    /\ \/ rows[i].version = rows[j].version /\ rows[i].channel = rows[j].channel
       \/ \A k \in {i, j} : rows[k].current /\ rows[k].channel = "stable"

IndexesHold(rows) == \A i, j \in ReleaseIds : ~Duplicates(rows, i, j)

IsNextId(i) == \A j \in ReleaseIds : releases[j] = NoRelease <=> j >= i

CommitRelease(w) ==
    LET r == req[w]
    IN  /\ r.op \notin {"none", "create", "software_transition"}
        /\ releases' = [i \in ReleaseIds |->
             IF i = r.id THEN Updated(releases[i], r.was, r.will)
             ELSE Cleared(r, i, releases[i])]
        /\ IndexesHold(releases')
        /\ req' = [req EXCEPT ![w] = IdleReq]
        /\ raced' = IF r.was = releases[r.id] THEN raced ELSE raced \cup {r.id}
        /\ UNCHANGED software

CommitCreate(w, i) ==
    /\ req[w].op = "create"
    /\ IsNextId(i)
    /\ releases' = [releases EXCEPT ![i] = req[w].will]
    /\ IndexesHold(releases')
    /\ req' = [req EXCEPT ![w] = IdleReq]
    /\ UNCHANGED <<software, raced>>

CommitSoftware(w) ==
    /\ req[w].op = "software_transition"
    /\ software' = Updated(software, req[w].was, req[w].will)
    /\ req' = [req EXCEPT ![w] = IdleReq]
    /\ raced' = IF req[w].was = software THEN raced ELSE raced \cup {0}
    /\ UNCHANGED releases

\* A unique index refuses the write, or the database is busy.
Abort(w) ==
    /\ ~Idle(w)
    /\ req' = [req EXCEPT ![w] = IdleReq]
    /\ UNCHANGED <<software, releases, raced>>

Next == \E w \in Workers :
    \/ \E target \in Targets : SoftwareTransition(w, target)
    \/ \E v \in Versions, c \in Channels : Create(w, v, c)
    \/ \E i \in ReleaseIds :
         \/ \E v \in Versions, c \in Channels : Update(w, i, v, c)
         \/ \E target \in ReleaseStatus : TransitionStatus(w, i, target)
         \/ SetCurrentStable(w, i) \/ ClearCurrent(w, i) \/ CommitCreate(w, i)
    \/ CommitRelease(w) \/ CommitSoftware(w) \/ Abort(w)

Spec == Init /\ [][Next]_vars

-----------------------------------------------------------------------------
(* What the public pages make of it *)

ReleaseViews == {i \in ReleaseIds : releases[i].status \in {"published", "archived"}}

\* Mutant: the marker of the row is taken as it is.
RawMarker(r) == r.current

ViewIsCurrent(r) == r.current /\ r.status = "published"

\* _current_release; without a marker the dates, left out here, choose among these.
CurrentRelease ==
    LET marked == {i \in ReleaseViews : ViewIsCurrent(releases[i])}
    IN  IF marked # {} THEN marked
        ELSE {i \in ReleaseViews : releases[i].channel = "stable"
                                     /\ releases[i].status # "archived"}

-----------------------------------------------------------------------------
(* Properties *)

\* Every variable has its type.
TypeOK ==
    /\ software \in Software
    /\ releases \in [ReleaseIds -> Release \cup {NoRelease}]
    /\ req \in [Workers -> Request]
    /\ raced \subseteq ReleaseIds \cup {0}

MarkerOK(r) == r.current => r.status = "published" /\ r.channel = "stable"

\* Only a published stable release carries the current marker, however selections, edits
\* and transitions of the other releases and of the entry interleave with its own.
CurrentIsPublishedStable == \A i \in ReleaseIds \ raced : MarkerOK(releases[i])

\* The release a page recommends for download is published and unless no published
\* release has the marker it has it: also where overlapping requests have left the
\* marker on an archived or a disabled release.
RecommendsPublished ==
    \A i \in CurrentRelease :
        /\ releases[i].status = "published"
        /\ (\E j \in ReleaseIds : releases[j].current /\ releases[j].status = "published")
             => releases[i].current

\* The same for every release, also when two requests write it at once.
MarkerAlwaysOK == \A i \in ReleaseIds : MarkerOK(releases[i])

\* A selection that commits has marked its release.
SelectionMarks ==
    [][\A w \in Workers :
         req[w].op = "set_current_stable" /\ CommitRelease(w)
           => releases'[req[w].id].current]_vars
=============================================================================
