---------------------------- MODULE AtomicFiles ----------------------------
(***************************************************************************)
(* What the file lifecycle promises: each record has one status and one    *)
(* storage area, and an operation changes both in one indivisible step or  *)
(* changes nothing.                                                        *)
(***************************************************************************)
EXTENDS Naturals, FilePolicies

CONSTANT MaxFile    \* bound: largest row id

VARIABLE rec        \* row id -> [status, area], Gone where there is no row

Gone == [status |-> "none", area |-> "none"]
Record == [status : FileStatus, area : StorageArea]

AInit == rec = [i \in 1..MaxFile |-> Gone]

\* An upload ends in quarantine, whatever status it gets.
Create(i, s) ==
    /\ rec[i] = Gone
    /\ s \in {"quarantine", "ready", "rejected"}
    /\ rec' = [rec EXCEPT ![i] = [status |-> s, area |-> "quarantine"]]

\* A decision about the file that leaves it where it is.
Decide(i, s) ==
    /\ rec[i] # Gone
    /\ s \in FILE_TRANSITIONS[rec[i].status] \ {"published"}
    /\ rec[i].area \in AreaAllowed(s)
    /\ rec' = [rec EXCEPT ![i].status = s]

Publish(i) ==
    /\ rec[i] = [status |-> "ready", area |-> "quarantine"]
    /\ rec' = [rec EXCEPT ![i] = [status |-> "published", area |-> "software"]]

\* A disabled or archived file returns to quarantine as a ready one.
Restore(i) ==
    /\ rec[i] # Gone
    /\ rec[i].status \in {"disabled", "archived"}
    /\ rec' = [rec EXCEPT ![i] = [status |-> "ready", area |-> "quarantine"]]

Remove(i) ==
    /\ rec[i] # Gone
    /\ EnsureDeletable(rec[i])
    /\ rec' = [rec EXCEPT ![i] = Gone]

ANext == \E i \in 1..MaxFile :
    \/ \E s \in FileStatus : Create(i, s) \/ Decide(i, s)
    \/ Publish(i) \/ Restore(i) \/ Remove(i)

ASpec == AInit /\ [][ANext]_rec

\* Every record is of its type and its bytes lie where its status expects them.
ASafe ==
    /\ rec \in [1..MaxFile -> Record \cup {Gone}]
    /\ \A i \in 1..MaxFile : rec[i] # Gone => rec[i].area \in AreaAllowed(rec[i].status)
=============================================================================
