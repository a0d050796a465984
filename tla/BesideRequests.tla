--------------------------- MODULE BesideRequests ---------------------------
(***************************************************************************)
(* The requests of FileLifecycle, alone or with one companion that reads   *)
(* or repairs what they change: orphan cleanup, a backup, a download, a    *)
(* checksum repair or a storage verification.  Each companion is a module  *)
(* of its own; here the initial state says which of them is there.         *)
(* Companions never meet: commands are scheduled one after another, and    *)
(* downloads change nothing that a command looks at.                       *)
(***************************************************************************)
EXTENDS OrphanCleanup, BackupSnapshot, Downloads, ChecksumRepair, StorageVerification,
        FileRefinement

CONSTANTS
    Companions,    \* those to be examined
    OpsBeside,     \* companion -> operations requested beside it
    RowsBeside     \* companion -> bound: rows in the table

Companion == {"none", "cleanup", "backup", "download", "repair", "verification"}

ASSUME CompanionAssumption ==
    /\ Companions \subseteq Companion
    /\ OpsBeside \in [Companion -> SUBSET Ops]
    /\ RowsBeside \in [Companion -> 0..MaxFile]

VARIABLE companion

downloadVars == <<chain, stats, day, reader, shown, served>>
repairVars == <<bytes, sums, want, repair, calm>>
verificationVars == <<damaged, mishaps, verifier, troubled, untouched>>

besideVars == <<vars, cleaner, backup, downloadVars, repairVars, verificationVars, companion>>

BesideInit ==
    /\ CInit /\ BInit /\ DInit /\ RInit /\ VInit
    /\ companion \in Companions

\* The requests that arrive beside a companion; beside a backup, as long as it runs.
Requested ==
    /\ \/ companion = "backup" /\ backup'.pc = "idle"
       \/ \A w \in Workers : req'[w].op \in OpsBeside[companion] \cup {"none"}
    /\ \A i \in FileIds : i > RowsBeside[companion] => files'[i] = NoRow

RequestsAlone ==
    /\ companion = "none"
    /\ Next
    /\ UNCHANGED <<cleaner, backup, downloadVars, repairVars, verificationVars>>

BesideCleanup ==
    /\ companion = "cleanup"
    /\ CNext
    /\ UNCHANGED <<backup, downloadVars, repairVars, verificationVars>>

BesideBackup ==
    /\ companion = "backup"
    /\ BNext
    /\ UNCHANGED <<cleaner, downloadVars, repairVars, verificationVars>>

BesideDownload ==
    /\ companion = "download"
    /\ DNext
    /\ UNCHANGED <<cleaner, backup, repairVars, verificationVars>>

BesideRepair ==
    /\ companion = "repair"
    /\ RNext
    /\ UNCHANGED <<cleaner, backup, downloadVars, verificationVars>>

BesideVerification ==
    /\ companion = "verification"
    /\ VNext
    /\ UNCHANGED <<cleaner, backup, downloadVars, repairVars>>

BesideNext ==
    /\ \/ RequestsAlone \/ BesideCleanup \/ BesideBackup
       \/ BesideDownload \/ BesideRepair \/ BesideVerification
    /\ Requested
    /\ UNCHANGED companion

BesideSpec == BesideInit /\ [][BesideNext]_besideVars

-----------------------------------------------------------------------------
(* Properties *)

\* Served one after the other, the requests of the file service behave as if bytes and row
\* changed together, in one step that leads from one place AreaAllowed names to another;
\* also when a transaction fails and the move before it is undone.  For the behaviours
\* without a companion this is Atomic!ASpec.
ImplementsAtomicFiles ==
    Atomic!AInit /\ [][companion = "none" => Atomic!ANext]_<<Logical, companion>>
=============================================================================
