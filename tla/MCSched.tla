------------------------------ MODULE MCSched ------------------------------
(***************************************************************************)
(* Values of the constants of Sched for TLC.                               *)
(***************************************************************************)
EXTENDS Sched

CONSTANTS t1, t2, t3

TwoNices == {-1, 0}
=============================================================================
