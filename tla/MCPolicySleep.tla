--------------------------- MODULE MCPolicySleep ---------------------------
(***************************************************************************)
(* Values of the constants of PolicySleep for TLC.                         *)
(***************************************************************************)
EXTENDS PolicySleep, TLC

CONSTANTS h1, h2, h3, a1, a2, a3

\* A parent, a child of init, and its child.
Family == [p \in Pids |-> IF p = 2 THEN 1 ELSE NULL]

\* Refused calls; fewer where there are most interleavings.
NoneRefused == [any |-> 0]
SomeRefused == [any |-> 1, family |-> 4]
ThreeKept   == [family |-> 3]

\* Bound: logs of up to two records where there are most interleavings.
SmallIfAny == keeps = "any" => \A c \in Pids : call[c].size <= 2

Blocks == Permutations(LogIds) \cup Permutations(ArrIds)
=============================================================================
