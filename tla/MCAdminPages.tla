---------------------------- MODULE MCAdminPages ----------------------------
(***************************************************************************)
(* Instances of AdminPages for TLC.                                        *)
(***************************************************************************)
EXTENDS AdminPages, TLC

SomeTabs == [tabs |-> 2, clock |-> 1, log |-> 0]
SomeTicks == [tabs |-> 2, clock |-> 4, log |-> 0]
SomeBack == [tabs |-> 0, clock |-> 3, log |-> 0]
OnlyLog == {"log"}

Symmetry == Permutations(Tabs) \cup Permutations(Workers)
=============================================================================
