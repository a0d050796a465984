-------------------------- MODULE MCFileLifecycle --------------------------
(***************************************************************************)
(* Instances of FileLifecycle for TLC.                                     *)
(***************************************************************************)
EXTENDS FileLifecycle, TLC

\* A file that may be published, and one the scanner condemns.
Good == [scanner |-> "clean", match |-> TRUE]
Infected == [scanner |-> "infected", match |-> TRUE]

OnlyGood == {Good}
GoodAndInfected == {Good, Infected}

AllOps == Operation
SafeTogether == {"upload", "verify_integrity", "publish", "disable", "archive",
                 "delete_metadata", "permanently_delete"}
LoudFaults == {"db", "move", "undo", "unlink"}
AllFaults == FaultKind
NoFault == {}

WorkerSymmetry == Permutations(Workers)
BothSymmetry == Permutations(Paths) \cup Permutations(Workers)
=============================================================================
