-------------------------- MODULE MCBesideRequests --------------------------
(***************************************************************************)
(* Instances of BesideRequests for TLC.                                    *)
(***************************************************************************)
EXTENDS BesideRequests, TLC

OnlyGood == {[scanner |-> "clean", match |-> TRUE]}
GoodAndInfected == {[scanner |-> "clean", match |-> TRUE],
                    [scanner |-> "infected", match |-> TRUE]}

AllOps == Operation

NoFault == {}
AllFaults == FaultKind
FewFaults == {"db", "move"}
AllMishaps == {"damage", "lose", "copy"}

Commands == {"cleanup", "backup", "verification"}
Others == {"none", "repair", "download"}
OnlyRepair == {"repair"}

\* The operations that move no file, beside a backup; those that make files come and go,
\* beside the others.
SomeOps == [none |-> Operation,
            cleanup |-> Operation,
            backup |-> {"upload", "approve", "reject", "reopen", "disable", "archive",
                        "verify_integrity", "delete_metadata"},
            download |-> {"upload", "reopen", "approve", "publish", "disable",
                          "restore_ready", "permanently_delete"},
            repair |-> {"upload", "publish", "permanently_delete"},
            verification |-> {"upload", "publish", "restore_ready", "permanently_delete"}]
EveryOp == [c \in Companion |-> Operation]
PublishOnly == [c \in Companion |-> {"upload", "publish"}]

TwoRows == [none |-> 2, cleanup |-> 2, backup |-> 1, download |-> 1, repair |-> 2, verification |-> 1]
OneRow == [c \in Companion |-> 1]

Symmetry == Permutations(Paths) \cup Permutations(Contents)
=============================================================================
