----------------------------- MODULE AuditTrail -----------------------------
(***************************************************************************)
(* The audit log beside the changes it records, and an operator who pages  *)
(* through it.  Every service reads a row, writes the change and, in the   *)
(* same transaction, the event; SQLite takes the write lock with the first *)
(* write, so that rows are read before it.  Here the row is one release.   *)
(*                                                                         *)
(* An event gets its time when its INSERT is built.  After a change that   *)
(* is under the write lock; an event on its own, such as file_verified,    *)
(* may wait for the lock with its time already set.                        *)
(***************************************************************************)
EXTENDS CatalogPolicies, Integers, FiniteSets, SequencesExt

CONSTANTS
    Workers,      \* requests that may run at once
    PerPage,      \* rows on a page of the audit browser
    MaxEvents,    \* bound: events in the log
    MaxTime       \* bound: the clock

ASSUME AuditAssumption ==
    /\ PerPage \in Nat \ {0}
    /\ {MaxEvents, MaxTime} \subseteq Nat

VARIABLES
    status,     \* committed status of the release
    log,        \* the rows of audit_logs, in the order of their ids
    clock,      \* the clock
    job,        \* per request: its place and what it has read or built
    browser     \* the operator's walk through the pages

auditVars == <<status, log, clock, job, browser>>

\* to = "none": an event that changes nothing.
Event == [at : 0..MaxTime, to : ReleaseStatus \cup {"none"}]

IdleJob == [pc |-> "idle", to |-> "none", at |-> 0]
IdleBrowser == [pc |-> "idle", page |-> 1, total |-> 0, known |-> {}, shown |-> <<>>,
                torn |-> FALSE, quiet |-> TRUE]

AuditInit ==
    /\ status = "draft"
    /\ log = <<>>
    /\ clock = 0
    /\ job = [w \in Workers |-> IdleJob]
    /\ browser = IdleBrowser

-----------------------------------------------------------------------------
(* Requests. *)

Locked == \E w \in Workers : job[w].pc = "written"

\* Room for the events of all requests under way.
Room == Len(log) + Cardinality({w \in Workers : job[w].pc # "idle"}) < MaxEvents

\* ReleaseService.transition_status: the row is read and the transition checked ...
Read(w, target) ==
    /\ job[w].pc = "idle"
    /\ Room
    /\ target \in RELEASE_TRANSITIONS[status]
    /\ job' = [job EXCEPT ![w] = [pc |-> "read", to |-> target, at |-> clock]]
    /\ UNCHANGED <<status, log, clock, browser>>

\* Mutant: the event carries the time at which the request began.
WriteStampedEarly(w) ==
    /\ job[w].pc = "read"
    /\ ~Locked
    /\ job' = [job EXCEPT ![w].pc = "written"]
    /\ UNCHANGED <<status, log, clock, browser>>

\* ... the row is updated, which takes the write lock, and the event is inserted ...
Write(w) ==
    /\ job[w].pc = "read"
    /\ ~Locked
    /\ job' = [job EXCEPT ![w].pc = "written", ![w].at = clock]
    /\ UNCHANGED <<status, log, clock, browser>>

\* What the operator's walk has to know of a commit (see the ghosts of the browser).
Noticed == [browser EXCEPT !.quiet = FALSE, !.torn = @ \/ browser.pc = "counted"]

Appended(at, to) == Append(log, [at |-> at, to |-> to])

\* ... and both are committed, or neither is.
Commit(w) ==
    /\ job[w].pc = "written"
    /\ status' = job[w].to
    /\ log' = Appended(job[w].at, job[w].to)
    /\ browser' = Noticed
    /\ job' = [job EXCEPT ![w] = IdleJob]
    /\ UNCHANGED clock

\* A conflict, a failed flush, a refused lock: nothing is written.
Rollback(w) ==
    /\ job[w].pc # "idle"
    /\ job' = [job EXCEPT ![w] = IdleJob]
    /\ UNCHANGED <<status, log, clock, browser>>

\* An event without a change: its time is set, then it waits for the lock.
Note(w) ==
    /\ job[w].pc = "idle"
    /\ Room
    /\ job' = [job EXCEPT ![w] = [pc |-> "noted", to |-> "none", at |-> clock]]
    /\ UNCHANGED <<status, log, clock, browser>>

CommitNote(w) ==
    /\ job[w].pc = "noted"
    /\ ~Locked
    /\ log' = Appended(job[w].at, "none")
    /\ browser' = Noticed
    /\ job' = [job EXCEPT ![w] = IdleJob]
    /\ UNCHANGED <<status, clock>>

ClockTicks ==
    /\ clock < MaxTime
    /\ clock' = clock + 1
    /\ UNCHANGED <<status, log, job, browser>>

-----------------------------------------------------------------------------
(* The audit browser. *)

\* ORDER BY timestamp DESC, id DESC
Before(i, j) == log[i].at > log[j].at \/ (log[i].at = log[j].at /\ i > j)

Place(i) == Cardinality({j \in DOMAIN log : Before(j, i)}) + 1
Listing == [k \in DOMAIN log |-> CHOOSE i \in DOMAIN log : Place(i) = k]

Offset(page) == (page - 1) * PerPage

PageItems(page) ==
    SubSeq(Listing, Offset(page) + 1, IF Offset(page) + PerPage < Len(log)
                                      THEN Offset(page) + PerPage ELSE Len(log))

\* Mutant: the last page is counted only when it is full.
FullPages(total) == total \div PerPage

Pages(total) == (total + PerPage - 1) \div PerPage

Open ==
    /\ browser.pc = "idle"
    /\ browser' = [IdleBrowser EXCEPT !.pc = "asking", !.known = DOMAIN log]
    /\ UNCHANGED <<status, log, clock, job>>

\* paginate_scalars: SELECT count(*) ...
Count ==
    /\ browser.pc = "asking"
    /\ browser' = [browser EXCEPT !.pc = "counted", !.total = Len(log)]
    /\ UNCHANGED <<status, log, clock, job>>

\* ... and the rows of the page, in a statement of its own; has_next decides whether the
\* page has a link to the next one.
Fetch ==
    /\ browser.pc = "counted"
    /\ LET more == browser.page < Pages(browser.total)
       IN  browser' = [browser EXCEPT
             !.pc = IF more THEN "asking" ELSE "done",
             !.page = IF more THEN @ + 1 ELSE @,
             !.shown = @ \o PageItems(browser.page)]
    /\ UNCHANGED <<status, log, clock, job>>

Close ==
    /\ browser.pc = "done"
    /\ browser' = IdleBrowser
    /\ UNCHANGED <<status, log, clock, job>>

AuditNext ==
    \/ \E w \in Workers :
          \/ \E target \in ReleaseStatus : Read(w, target)
          \/ Write(w)
          \/ Commit(w)
          \/ Rollback(w)
          \/ Note(w)
          \/ CommitNote(w)
    \/ ClockTicks
    \/ Open
    \/ Count
    \/ Fetch
    \/ Close

AuditSpec == AuditInit /\ [][AuditNext]_auditVars

-----------------------------------------------------------------------------
(* Properties. *)

\* Types; one transaction writes at a time, and the log keeps to its bound.
AuditTypeOK ==
    /\ status \in ReleaseStatus
    /\ log \in Seq(Event) /\ Len(log) <= MaxEvents
    /\ clock \in 0..MaxTime
    /\ \A w \in Workers :
         /\ job[w].pc \in {"idle", "read", "written", "noted"}
         /\ job[w].at <= clock
    /\ Cardinality({w \in Workers : job[w].pc = "written"}) <= 1
    /\ browser.pc \in {"idle", "asking", "counted", "done"}
    /\ browser.known \subseteq DOMAIN log
    /\ Range(browser.shown) \subseteq DOMAIN log

Changes == {k \in DOMAIN log : log[Listing[k]].to # "none"}

\* "Each successful write and its audit event are persisted inside the same database
\* transaction": whoever reads the log from the top finds as its first change the one that
\* made the status what it is, also when transitions overlapped and each overwrote the other.
TrailTellsStatus ==
    status = IF Changes = {} THEN "draft" ELSE log[Listing[Min(Changes)]].to

\* An operator who follows the links to the last page has seen every event there was when
\* he began, and exactly once when nothing was recorded meanwhile; unless an event was
\* recorded between the count and the rows of a page, when the last one can fall off.
WalkSeesAll ==
    browser.pc = "done" =>
        /\ browser.torn \/ browser.known \subseteq Range(browser.shown)
        /\ browser.quiet => Len(browser.shown) = Cardinality(browser.known)

\* The same without the exception.
WalkNeverTorn == browser.pc = "done" => browser.known \subseteq Range(browser.shown)
=============================================================================
