----------------------------- MODULE MCWaitGroup -----------------------------
(***************************************************************************)
(* Values of the constants of WaitGroup for TLC.                           *)
(***************************************************************************)
EXTENDS WaitGroup, TLC

CONSTANTS init, t1, t2, t3

FourTasks == {init, t1, t2, t3}

\* fork, a thread, and a thread that is a sibling.
AllForks == {[thread |-> FALSE, sibling |-> FALSE, clone |-> FALSE],
             [thread |-> TRUE,  sibling |-> FALSE, clone |-> TRUE],
             [thread |-> TRUE,  sibling |-> TRUE,  clone |-> TRUE]}

Arg(w, t, h) == [want |-> w, nothread |-> t, nohang |-> h]

\* init waits for anybody.
SomeWaits ==
    [t \in FourTasks |->
        IF t = init THEN {Arg("all", FALSE, FALSE), Arg("all", FALSE, TRUE)}
        ELSE {Arg("normal", FALSE, FALSE), Arg("clone", TRUE, FALSE)}]

\* Bound: one task at level 0 at a time.
OneRefused == Cardinality({t \in FourTasks : task[t].refused}) <= 1

Others == Permutations(FourTasks \ {init})
==============================================================================
