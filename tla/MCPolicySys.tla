---------------------------- MODULE MCPolicySys ----------------------------
(***************************************************************************)
(* Values of the constants of PolicySys for TLC.                           *)
(***************************************************************************)
EXTENDS PolicySys, TLC

CONSTANTS h1, h2, h3, a1, a2, a3

Pids2 == {1, 2}
Pids3 == {1, 2, 3}

\* One pid nobody has and one the wrappers turn away.
Args1 == {-1, 1, 5}
Args2 == {-1, 1, 2, 5}

SizesOwn  == {0, 1}
SizesRing == {-1, 0, 1, 2, 3}
LevelsAll == {0, 1, 2, 3}
BothPasswords == {234123, 0}
GoodPassword  == {234123}

Blocks == Permutations({h1, h2, h3}) \cup Permutations({a1, a2, a3})
=============================================================================
