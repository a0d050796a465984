----------------------------- MODULE MCBackups -----------------------------
(***************************************************************************)
(* Instances of Backups for TLC.                                           *)
(***************************************************************************)
EXTENDS Backups, TLC

AllFaults == FaultKind
FailTwice == {"step", "undo"}
RmtreeFault == {"rmtree"}
NoFault == {}
ProcSymmetry == Permutations(Procs)
=============================================================================
