----------------------------- MODULE PolicySpec -----------------------------
(***************************************************************************)
(* What the policy mechanism promises its users, with no pointers, rings   *)
(* or heap: every process has at most one policy, a policy has a level and *)
(* a queue of the calls it refused, a refused call is appended with the    *)
(* time it happened, and get_process_log hands out the oldest records,     *)
(* each of them once.  A call that fails changes nothing.                  *)
(***************************************************************************)
EXTENDS Integers, Sequences

CONSTANTS Pids,      \* process identifiers
          InitPid,   \* the process that is there from the start
          Sizes,     \* capacities a log can be given
          Errnos,    \* error numbers a call may return
          EINVAL     \* the one a call the policy refuses returns

VARIABLES proc,      \* proc[p]: phase, policy and queue of process p
          now,       \* the clock records are stamped with
          ret,       \* what the last call returned
          handed     \* the records the last call handed out

vars == <<proc, now, ret, handed>>

NoProc(ph) == [phase |-> ph, on |-> FALSE, level |-> 2, cap |-> 0,
               queue |-> <<>>]

Init == /\ proc = [p \in Pids |-> NoProc(IF p = InitPid THEN "active"
                                                        ELSE "free")]
        /\ now = 0
        /\ ret = 0
        /\ handed = <<>>

Known(p) == proc[p].phase # "free"

\* The policy of q admits a call that needs level req.
Admits(q, req) == ~proc[q].on \/ proc[q].level >= req

Returns(v) == ret' = v /\ handed' = <<>> /\ now' = now

-----------------------------------------------------------------------------
Refuse == /\ \E e \in Errnos : Returns(-e)
          /\ UNCHANGED proc

Nothing == Returns(0) /\ UNCHANGED proc

Enable(p, n) ==
    /\ Known(p) /\ ~proc[p].on
    /\ proc' = [proc EXCEPT ![p] = [phase |-> @.phase, on |-> TRUE, level |-> 2,
                                    cap |-> n, queue |-> <<>>]]
    /\ Returns(0)

Disable(p) ==
    /\ Known(p) /\ proc[p].on
    /\ proc' = [proc EXCEPT ![p] = NoProc(@.phase)]
    /\ Returns(0)

SetLevel(p, l) ==
    /\ Known(p) /\ proc[p].on
    /\ proc' = [proc EXCEPT ![p].level = l]
    /\ Returns(0)

\* A call of p that needs level req is refused and recorded.
Deny(p, req) ==
    /\ proc[p].phase = "active"
    /\ ~Admits(p, req)
    /\ Len(proc[p].queue) < proc[p].cap
    /\ proc' = [proc EXCEPT ![p].queue =
                   Append(@, [syscall_req_level |-> req,
                              proc_level |-> proc[p].level,
                              time |-> now])]
    /\ Returns(-EINVAL)

\* The k oldest records of p leave its queue for the caller's memory.
Hand(p, k) ==
    /\ Known(p) /\ proc[p].on
    /\ handed' = SubSeq(proc[p].queue, 1, k)
    /\ proc' = [proc EXCEPT ![p].queue = SubSeq(@, k + 1, Len(@))]
    /\ ret' = 0
    /\ now' = now

-----------------------------------------------------------------------------
Spawn(q, p) ==
    /\ proc[q].phase = "active" /\ Admits(q, 2)
    /\ proc[p].phase = "free"
    /\ proc' = [proc EXCEPT ![p] = NoProc("active")]
    /\ Returns(p)

\* The level is looked at when the wait begins, not when it ends.
BeginWait(q) ==
    /\ proc[q].phase = "active" /\ Admits(q, 1)
    /\ proc' = [proc EXCEPT ![q].phase = "waiting"]
    /\ UNCHANGED <<now, ret, handed>>

LeaveWait(q) ==
    /\ proc[q].phase = "waiting"
    /\ proc' = [proc EXCEPT ![q].phase = "active"]
    /\ \E e \in Errnos : Returns(-e)

Reap(q, z) ==
    /\ \/ proc[q].phase = "waiting"
       \/ proc[q].phase = "active" /\ Admits(q, 1)
    /\ proc[z].phase = "dead"
    /\ proc' = [proc EXCEPT ![z] = NoProc("free"), ![q].phase = "active"]
    /\ Returns(z)

Die(p) ==
    /\ proc[p].phase = "active"
    /\ proc' = [proc EXCEPT ![p].phase = "dead"]
    /\ UNCHANGED <<now, ret, handed>>

Tick == now' > now /\ UNCHANGED <<proc, ret, handed>>

Next ==
    \/ Refuse
    \/ Nothing
    \/ Tick
    \/ \E p \in Pids :
          \/ \E n \in Sizes : Enable(p, n)
          \/ Disable(p)
          \/ \E l \in 0..2 : SetLevel(p, l)
          \/ \E req \in 1..2 : Deny(p, req)
          \/ \E k \in 1..Len(proc[p].queue) : Hand(p, k)
          \/ \E q \in Pids : Spawn(q, p) \/ Reap(q, p)
          \/ BeginWait(p)
          \/ LeaveWait(p)
          \/ Die(p)

Spec == Init /\ [][Next]_vars
=============================================================================
