----------------------------- MODULE AdminPages -----------------------------
(***************************************************************************)
(* What the browser of an administrator shows: forms with their tokens,    *)
(* and the pages of the audit log.  The two share no state, so that one    *)
(* suffices at a time; the initial state says which.  Forms are examined   *)
(* in several tabs, and under a clock that is set back, each with bounds   *)
(* of its own.                                                             *)
(***************************************************************************)
EXTENDS FormTokens, AuditTrail

CONSTANTS
    Parts,     \* those to be examined
    TabsIn,    \* part -> bound: tabs in use
    TicksIn,   \* part -> bound: time that passes
    BackIn     \* part -> bound: how far the clock is set back

Part == {"tabs", "clock", "log"}

ASSUME PartAssumption ==
    /\ Parts \subseteq Part
    /\ {TabsIn, TicksIn, BackIn} \subseteq [Part -> Nat]

VARIABLE part

pageVars == <<formVars, auditVars, part>>

PagesInit ==
    /\ FormInit
    /\ AuditInit
    /\ part \in Parts

InUse == {t \in Tabs : page[t] # NoForm \/ req[t] # IdleReq}
SetBackBy == ticks + MaxBack - now

Forms ==
    /\ part \in {"tabs", "clock"}
    /\ FormNext
    /\ Cardinality(InUse') <= TabsIn[part]
    /\ ticks' <= TicksIn[part]
    /\ SetBackBy' <= BackIn[part]
    /\ UNCHANGED auditVars

Log ==
    /\ part = "log"
    /\ AuditNext
    /\ UNCHANGED formVars

PagesNext == (Forms \/ Log) /\ UNCHANGED part

PagesSpec == PagesInit /\ [][PagesNext]_pageVars
=============================================================================
