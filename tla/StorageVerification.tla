------------------------ MODULE StorageVerification ------------------------
(***************************************************************************)
(* ReconciliationService.verify_storage run from the CLI beside the live   *)
(* application: one SELECT of all rows, a look at quarantine and software  *)
(* for each of them, then a walk over both areas for files that no row of  *)
(* the SELECT names.  Everything it compares may change between two looks. *)
(*                                                                         *)
(* A file is damaged when its size or digest is not that of its row.       *)
(***************************************************************************)
EXTENDS Reconciliation

CONSTANTS
    Mishaps,      \* what befalls the storage from outside
    MaxMishaps    \* bound: how many times

ASSUME MishapAssumption ==
    /\ Mishaps \subseteq {"damage", "lose", "copy"}
    /\ MaxMishaps \in Nat

VARIABLES
    damaged,    \* paths whose bytes are not what was uploaded
    mishaps,    \* how many mishaps there were
    verifier,   \* the CLI process
    troubled,   \* ghost: rows and orphans with some issue at the snapshot and ever since
    untouched   \* ghost: paths whose row and file are as they were at the snapshot

vvars == <<files, store, used, req, alarms, damaged, mishaps, verifier, troubled, untouched>>

Kind == {"missing", "duplicate", "area", "checksum", "orphan"}
Issue == [kind : Kind, path : Paths]
InspectedRow == [id : FileIds, path : Paths, status : FileStatus]

\* todo: rows still to be inspected; seen: the areas where the first of them was found.
IdleVerifier == [pc |-> "idle", known |-> {}, todo |-> {}, seen |-> {}, issues |-> {}]

VInit ==
    /\ Init
    /\ damaged = {}
    /\ mishaps = 0
    /\ verifier = IdleVerifier
    /\ troubled = {}
    /\ untouched = {}

\* Types of what verify_storage and the mishaps add to the file lifecycle's state.
VTypeOK ==
    /\ TypeOK
    /\ damaged \subseteq Paths
    /\ mishaps \in 0..MaxMishaps
    /\ verifier.pc \in {"idle", "quarantine", "software", "hash", "walkQuarantine",
                        "walkSoftware", "report"}
    /\ verifier.known \subseteq Paths
    /\ verifier.todo \subseteq InspectedRow
    /\ verifier.seen \subseteq StorageArea
    /\ verifier.issues \subseteq Issue
    /\ troubled \subseteq Paths \X BOOLEAN
    /\ untouched \subseteq Paths

OfKind(kind, paths) == {[kind |-> kind, path |-> p] : p \in paths}

\* The issues there are, which a verification without interference would report.
Issues ==
    LET listed == {p \in Paths : Listed(p)}
        single == {p \in listed : Cardinality(Stored(p)) = 1}
    IN  OfKind("missing", {p \in listed : Stored(p) = {}})
        \cup OfKind("duplicate", {p \in listed : Stored(p) = StorageArea})
        \cup OfKind("area", {p \in single : \E i \in FileIds :
                               files[i].path = p /\ ~(Stored(p) \subseteq AreaAllowed(files[i].status))})
        \cup OfKind("checksum", single \cap damaged)
        \cup OfKind("orphan", {p \in Paths \ listed : Stored(p) # {}})

\* A path with an issue of its row, or without a row.
Troubled == {<<x.path, x.kind = "orphan">> : x \in Issues}

-----------------------------------------------------------------------------
(* verify_storage *)

\* Mutant: only published files are listed.
SelectPublishedRows ==
    /\ verifier.pc = "idle"
    /\ LET rows == {i \in FileIds : files[i].status = "published"}
       IN  verifier' = [IdleVerifier EXCEPT !.pc = "quarantine",
             !.known = {files[i].path : i \in rows},
             !.todo = {[id |-> i, path |-> files[i].path, status |-> files[i].status] : i \in rows}]

\* _metadata_snapshot
SelectRows ==
    /\ verifier.pc = "idle"
    /\ LET rows == {i \in FileIds : files[i] # NoRow}
       IN  verifier' = [IdleVerifier EXCEPT !.pc = "quarantine",
             !.known = {files[i].path : i \in rows},
             !.todo = {[id |-> i, path |-> files[i].path, status |-> files[i].status] : i \in rows}]

Current == CHOOSE r \in verifier.todo : \A q \in verifier.todo : r.id <= q.id

\* inspect_stored_files looks into one area after the other.
LookIntoQuarantine ==
    /\ verifier.pc = "quarantine"
    /\ verifier.todo # {}
    /\ verifier' = [verifier EXCEPT !.pc = "software",
                                    !.seen = {"quarantine"} \cap store[Current.path]]

\* Mutant: the status is compared only for files that should be published.
PlacedPublished(row, seen) ==
    CASE seen = {} -> {"missing"}
      [] seen = StorageArea -> {"duplicate"}
      [] OTHER -> IF row.status = "published" => seen = {"software"} THEN {} ELSE {"area"}

\* What the two looks say of a row that is not in exactly one area, or in a wrong one.
Placed(row, seen) ==
    CASE seen = {} -> {"missing"}
      [] seen = StorageArea -> {"duplicate"}
      [] OTHER -> IF seen \subseteq AreaAllowed(row.status) THEN {} ELSE {"area"}

\* A file in one area is hashed, be it the right one or not.
Hashed(row, seen) == Cardinality(seen) = 1

LookIntoSoftware ==
    LET row == Current
        seen == verifier.seen \cup ({"software"} \cap store[row.path])
        found == {[kind |-> k, path |-> row.path] : k \in Placed(row, seen)}
    IN  /\ verifier.pc = "software"
        /\ verifier' = IF Hashed(row, seen)
             THEN [verifier EXCEPT !.pc = "hash", !.seen = seen, !.issues = @ \cup found]
             ELSE [verifier EXCEPT !.pc = "quarantine", !.seen = {}, !.todo = @ \ {row},
                                   !.issues = @ \cup found]

\* sha256_file at the place where the file was seen; if it is gone by now the error
\* ends the whole verification without a report.
Hash ==
    LET row == Current
        found == IF row.path \in damaged THEN OfKind("checksum", {row.path}) ELSE {}
    IN  /\ verifier.pc = "hash"
        /\ verifier' = IF verifier.seen \subseteq store[row.path]
             THEN [verifier EXCEPT !.pc = "quarantine", !.seen = {}, !.todo = @ \ {row},
                                   !.issues = @ \cup found]
             ELSE IdleVerifier

AllInspected ==
    /\ verifier.pc = "quarantine"
    /\ verifier.todo = {}
    /\ verifier' = [verifier EXCEPT !.pc = "walkQuarantine"]

\* _orphan_issues
UnknownFiles(a) == OfKind("orphan", {p \in Paths \ verifier.known : a \in store[p]})

WalkArea(pc, a, next) ==
    /\ verifier.pc = pc
    /\ verifier' = [verifier EXCEPT !.pc = next, !.issues = @ \cup UnknownFiles(a)]

Reported ==
    /\ verifier.pc = "report"
    /\ verifier' = IdleVerifier

VerifierStep ==
    \/ SelectRows \/ LookIntoQuarantine \/ LookIntoSoftware \/ Hash \/ AllInspected
    \/ WalkArea("walkQuarantine", "quarantine", "walkSoftware")
    \/ WalkArea("walkSoftware", "software", "report")
    \/ Reported

-----------------------------------------------------------------------------
(* Everything else *)

\* Bytes change in place, a file is lost, an operator leaves a second copy of it.
Mishap(p) ==
    /\ mishaps < MaxMishaps
    /\ mishaps' = mishaps + 1
    /\ Stored(p) # {}
    /\ \/ "damage" \in Mishaps /\ damaged' = damaged \cup {p} /\ UNCHANGED store
       \/ /\ "lose" \in Mishaps
          /\ store' = [store EXCEPT ![p] = @ \ StorageArea]
          /\ UNCHANGED damaged
       \/ /\ "copy" \in Mishaps
          /\ store' = [store EXCEPT ![p] = @ \cup StorageArea]
          /\ UNCHANGED damaged
    /\ UNCHANGED <<files, used, req, alarms, verifier>>

\* The requests of FileLifecycle; a publication refuses damaged bytes, the others
\* see damage only if it changed the size.
RequestStep ==
    /\ \E w \in Workers :
         /\ Arrive(w) \/ WorkerStep(w)
         /\ Locate(w) /\ req[w].op \in {"publish", "verify_integrity"}
              => req[w].path \notin damaged
    /\ UNCHANGED <<damaged, mishaps, verifier>>

\* What happened to the row or the file of p in this step.
Touched(p) ==
    \/ {i \in FileIds : files[i].path = p} # {i \in FileIds : files'[i].path = p}
    \/ \E i \in FileIds : files[i].path = p /\ files'[i] # files[i]
    \/ store'[p] # store[p]
    \/ (p \in damaged) # (p \in damaged')

VNext ==
    /\ \/ VerifierStep /\ UNCHANGED <<vars, damaged, mishaps>>
       \/ RequestStep
       \/ (\E p \in Paths : CleanupTemporary(p)) /\ UNCHANGED <<damaged, mishaps, verifier>>
       \/ \E p \in Paths : Mishap(p)
       \/ Crash /\ verifier' = IdleVerifier /\ UNCHANGED <<damaged, mishaps>>
    /\ \/ /\ verifier'.pc = "idle"
          /\ troubled' = {} /\ untouched' = {}
       \/ /\ verifier.pc = "idle" /\ verifier'.pc # "idle"
          /\ troubled' = Troubled' /\ untouched' = Paths
       \/ /\ verifier.pc # "idle" /\ verifier'.pc # "idle"
          /\ troubled' = troubled \cap Troubled'
          /\ untouched' = {p \in untouched : ~Touched(p)}

VSpec == VInit /\ [][VNext]_vvars

-----------------------------------------------------------------------------
(* Properties *)

\* "The read-only verification pass detects" every mismatch: a row that was in trouble
\* when it began and ever since, and a file that no row has named since, is in its
\* report, whatever moves meanwhile.
TroubleReported ==
    verifier.pc = "report" =>
        \A t \in troubled : \E x \in verifier.issues : x.path = t[1]

\* Stronger: damage that lasts is reported as damage.
DamageReported ==
    verifier.pc = "report" =>
        \A p \in damaged : <<p, FALSE>> \in troubled /\ p \in verifier.known
            => [kind |-> "checksum", path |-> p] \in verifier.issues

\* What a report says of a file that nobody touched during the verification is true.
NoFalseAlarm ==
    verifier.pc = "report" => \A x \in verifier.issues : x.path \in untouched => x \in Issues
=============================================================================
