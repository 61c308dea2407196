----------------------------- MODULE MCForkPid -----------------------------
(***************************************************************************)
(* Values of the constants of ForkPid for TLC.                             *)
(***************************************************************************)
EXTENDS ForkPid, TLC

CONSTANTS s1, s2, s3, s4, s5

\* States after an id was missed are checked and not explored further.
Seen == ~unseen

Others == Permutations(Slots \ {InitSlot})
=============================================================================
