----------------------------- MODULE PolicySleep -----------------------------
(***************************************************************************)
(* The policy calls split where they sleep.  kmalloc(GFP_KERNEL) may wait  *)
(* for memory and copy_to_user for a page, and other processes run         *)
(* meanwhile; nothing in kernel/hw1_syscalls.c locks the task_struct p it  *)
(* has looked up or the log p points to.                                   *)
(*                                                                         *)
(* Levels are 0 and 2, records are serial numbers, and calls that are      *)
(* refused (they change nothing, see PolicySys) are left out.  A zombie is *)
(* a process that makes no more calls, so leaving is one step: release_task*)
(* by the parent.  Processes have one thread each.                         *)
(***************************************************************************)
EXTENDS LogArray

CONSTANTS Pids, Sizes, LogIds, ArrIds, NULL,
          Parent,       \* Parent[p], NULL for init, which makes no policy call
          MaxDenied,    \* bound on refused calls, for each discipline
          Disciplines   \* what callers keep to, see below

(***************************************************************************)
(* How processes use the calls: "any" way they like; or in the "family", a *)
(* process about itself or a child of its own, and no two calls about one  *)
(* process at the same time.  A process cannot be reaped while its parent, *)
(* which would do it, or it itself is asleep in a call; a stranger's call  *)
(* does not keep it from going, however few calls there are.               *)
(***************************************************************************)

ASSUME SleepAssumption == /\ Sizes \subseteq Nat
                          /\ Disciplines \subseteq {"any", "family"}
                          /\ MaxDenied \in [Disciplines -> Nat]
ASSUME FamilyAssumption == Parent \in [Pids -> Pids \cup {NULL}]
\* No pid is NULL, and a word nobody has set is neither a number nor a block.
ASSUME WordsAssumption == NULL \notin Pids /\ UNINIT \notin Nat \cup ArrIds

VARIABLES task,    \* task[p]: alive, policy_on, policy_level, logArray
          logs,    \* live headers
          arrays,  \* live arrays
          call,    \* call[c]: the policy call c is asleep in
          denied,  \* refused calls so far
          queue,   \* queue[p]: refused calls of p nobody has been handed, a set
                   \* of serial numbers, so that they are ordered by time
          crowded, \* logs that got full while a read of them was copying
          wild,    \* memory that is freed, or not yet set, has been used; the
                   \* model stops there
          keeps    \* the discipline the callers keep to

vars == <<task, logs, arrays, call, denied, queue, crowded, wild, keeps>>

Calling(at, pid, size) ==
    [at |-> at, pid |-> pid, size |-> size, prev |-> 0, temp |-> << >>]

Idle == Calling("idle", NULL, 0)

Init == /\ task = [p \in Pids |-> [alive |-> TRUE, policy_on |-> 0,
                                   policy_level |-> 2, logArray |-> NULL]]
        /\ logs = << >>
        /\ arrays = << >>
        /\ call = [c \in Pids |-> Idle]
        /\ denied = 0
        /\ queue = [p \in Pids |-> {}]
        /\ crowded = {}
        /\ wild = FALSE
        /\ keeps \in Disciplines

-----------------------------------------------------------------------------
With(heap, b, v) == [x \in DOMAIN heap \cup {b} |-> IF x = b THEN v ELSE heap[x]]

Without(heap, b) == [x \in DOMAIN heap \ {b} |-> heap[x]]

\* A header that kmalloc has just given out: no field is set.
Garbage == [f \in DOMAIN NewLog(0, NULL) |-> UNINIT]

\* Nobody is asleep in a call about p.
Quiet(p) == \A c \in Pids : call[c].pid # p

\* c, not in a call itself, may make one about p.
May(c, p) == /\ ~wild
             /\ task[c].alive /\ task[p].alive
             /\ call[c] = Idle
             /\ keeps = "family" => c \in {p, Parent[p]} /\ Quiet(p)

Log(p) == logs[task[p].logArray]

\* The task_struct and the log that a call of c comes back to are still there.
TargetThere(c) == task[call[c].pid].alive
LogThere(c) == TargetThere(c) /\ task[call[c].pid].logArray \in DOMAIN logs
LogReady(c) == LogThere(c) /\ Log(call[c].pid) # Garbage

\* The call c sleeps in comes back from the place called at.
Resumes(c, at) == ~wild /\ call[c].at = at

Done(c) == call' = [call EXCEPT ![c] = Idle]

\* A policy that is on is used through p->logArray with no further check.
HasLog(p) == /\ task[p].policy_on = 1
             /\ task[p].logArray \in DOMAIN logs
             /\ Log(p) # Garbage

\* A call comes back to a task_struct or log that is freed, or to a log that
\* another call has not set up yet.
Wild(c) == /\ wild' = TRUE
           /\ Done(c)
           /\ UNCHANGED <<task, logs, arrays, denied, queue, crowded, keeps>>

-----------------------------------------------------------------------------
(***************************************************************************)
(* sys_enable_policy: checks, kmalloc of the header, kmalloc of the array. *)
(* After each sleep the code goes on through p->logArray as it is then: a  *)
(* call on the right of an assignment is made before the left is computed. *)
(***************************************************************************)
EnableBegins(c, p, size) ==
    /\ May(c, p)
    /\ task[p].policy_on # 1
    /\ call' = [call EXCEPT ![c] = Calling("header", p, size)]
    /\ UNCHANGED <<task, logs, arrays, denied, queue, crowded, wild, keeps>>

Enable(p, size, h, a) ==
    /\ logs' = With(logs, h, NewLog(size, a))
    /\ task' = [task EXCEPT ![p].logArray = h, ![p].policy_on = 1,
                            ![p].policy_level = 2]
    /\ queue' = [queue EXCEPT ![p] = {}]
    /\ crowded' = crowded \ {p}

EnableHeader(c, h) ==
    LET p == call[c].pid IN
    /\ Resumes(c, "header") /\ TargetThere(c)
    /\ h \notin DOMAIN logs
    /\ IF call[c].size = 0
       THEN Enable(p, 0, h, UNINIT) /\ Done(c)
       ELSE /\ logs' = With(logs, h, Garbage)
            /\ task' = [task EXCEPT ![p].logArray = h]
            /\ call' = [call EXCEPT ![c].at = "array"]
            /\ UNCHANGED <<queue, crowded>>
    /\ UNCHANGED <<arrays, denied, wild, keeps>>

EnableNoHeader(c) ==
    /\ Resumes(c, "header") /\ TargetThere(c)
    /\ task' = [task EXCEPT ![call[c].pid].logArray = NULL]
    /\ Done(c)
    /\ UNCHANGED <<logs, arrays, denied, queue, crowded, wild, keeps>>

EnableArray(c, a) ==
    LET p == call[c].pid IN
    /\ Resumes(c, "array") /\ LogThere(c)
    /\ a \notin DOMAIN arrays
    /\ arrays' = With(arrays, a, NewArray(call[c].size))
    /\ Enable(p, call[c].size, task[p].logArray, a)
    /\ Done(c)
    /\ UNCHANGED <<denied, wild, keeps>>

EnableNoArray(c) ==
    /\ Resumes(c, "array") /\ LogThere(c)
    /\ logs' = Without(logs, task[call[c].pid].logArray)
    /\ Done(c)
    /\ UNCHANGED <<task, arrays, denied, queue, crowded, wild, keeps>>

EnableWild(c) == /\ \/ Resumes(c, "header") /\ ~TargetThere(c)
                    \/ Resumes(c, "array") /\ ~LogThere(c)
                 /\ Wild(c)

-----------------------------------------------------------------------------
FreeLog_NoArray(p) == arrays' = arrays /\ logs' = Without(logs, task[p].logArray)

FreeLog(p) ==
    /\ arrays' = IF Log(p).size # 0 THEN Without(arrays, Log(p).array)
                                    ELSE arrays
    /\ logs' = Without(logs, task[p].logArray)

Disabled_LevelOnly(t) == [t EXCEPT !.policy_level = 2]

Disabled(t) == [t EXCEPT !.policy_on = 0, !.policy_level = 2]

\* sys_disable_policy and sys_set_process_capabilities do not sleep.
Disable(c, p) ==
    /\ May(c, p)
    /\ HasLog(p)
    /\ task' = [task EXCEPT ![p] = Disabled(@)]
    /\ FreeLog(p)
    /\ queue' = [queue EXCEPT ![p] = {}]
    /\ crowded' = crowded \ {p}
    /\ UNCHANGED <<call, denied, wild, keeps>>

SetLevel(c, p, l) ==
    /\ May(c, p)
    /\ task[p].policy_on = 1
    /\ task' = [task EXCEPT ![p].policy_level = l]
    /\ UNCHANGED <<logs, arrays, call, denied, queue, crowded, wild, keeps>>

\* p, which has exited, is released in its parent's sys_wait4; the parent is
\* then in no other call.  A parent that has gone leaves it to init.
Release(p) ==
    /\ ~wild
    /\ task[p].alive
    /\ call[p] = Idle
    /\ \A c \in Pids : c = Parent[p] => call[c] = Idle
    /\ \/ HasLog(p) /\ FreeLog(p)
       \/ task[p].policy_on = 0 /\ UNCHANGED <<logs, arrays>>
    /\ task' = [task EXCEPT ![p].alive = FALSE, ![p].policy_on = 0]
    /\ queue' = [queue EXCEPT ![p] = {}]
    /\ crowded' = crowded \ {p}
    /\ UNCHANGED <<call, denied, wild, keeps>>

-----------------------------------------------------------------------------
(***************************************************************************)
(* sys_get_process_log: checks and kmalloc of tempArray, the copy loop and *)
(* copy_to_user, then the end of the call.                                 *)
(***************************************************************************)
GetBegins(c, p, k) ==
    /\ May(c, p)
    /\ HasLog(p)
    /\ k > 0 /\ Enough(Log(p), k)
    /\ call' = [call EXCEPT ![c] = [Calling("temp", p, k) EXCEPT
                                       !.prev = Log(p).indexRead]]
    /\ UNCHANGED <<task, logs, arrays, denied, queue, crowded, wild, keeps>>

\* The loop wraps at the size the log has now.
LoopSlot(g, j) == (g.indexRead + j) % g.size

GetLoop(c) ==
    LET p == call[c].pid
        k == call[c].size
        g == Log(p)
    IN  /\ Resumes(c, "temp") /\ LogReady(c) /\ g.indexRead < g.size
        /\ logs' = [logs EXCEPT ![task[p].logArray].indexRead = LoopSlot(g, k)]
        /\ call' = [call EXCEPT
                      ![c].at = "copy",
                      ![c].temp = [j \in 1..k |->
                                      arrays[g.array][LoopSlot(g, j - 1)]]]
        /\ UNCHANGED <<task, arrays, denied, queue, crowded, wild, keeps>>

GetNoMem(c) == /\ Resumes(c, "temp")
               /\ Done(c)
               /\ UNCHANGED <<task, logs, arrays, denied, queue, crowded, wild, keeps>>

Finish_NoReset(g, k) == [g EXCEPT !.full = 0, !.indexWrite = 0]

Finish(g, k) == IF k = g.size
                THEN [g EXCEPT !.full = 0, !.indexWrite = 0, !.indexRead = 0]
                ELSE [g EXCEPT !.full = 0]

Records(s) == {s[i] : i \in DOMAIN s}

GetOk(c) ==
    LET p == call[c].pid IN
    /\ Resumes(c, "copy") /\ LogReady(c)
    /\ logs' = [logs EXCEPT ![task[p].logArray] = Finish(@, call[c].size)]
    /\ queue' = [queue EXCEPT ![p] = @ \ Records(call[c].temp)]
    /\ Done(c)
    /\ UNCHANGED <<task, arrays, denied, crowded, wild, keeps>>

GetFault(c) ==
    /\ Resumes(c, "copy") /\ LogReady(c)
    /\ logs' = [logs EXCEPT ![task[call[c].pid].logArray].indexRead =
                                call[c].prev]
    /\ Done(c)
    /\ UNCHANGED <<task, arrays, denied, queue, crowded, wild, keeps>>

\* An index left by a longer log starts the loop behind the array's end.
GetWild(c) == /\ \/ Resumes(c, "temp") /\ ~LogReady(c)
                 \/ Resumes(c, "copy") /\ ~LogReady(c)
                 \/ /\ Resumes(c, "temp") /\ LogReady(c)
                    /\ Log(call[c].pid).indexRead >= Log(call[c].pid).size
              /\ Wild(c)

-----------------------------------------------------------------------------
(***************************************************************************)
(* The hook of sys_sched_yield, called by the process or, as yield(), by   *)
(* __alloc_pages on its behalf (Sched has what becomes of the CPU).  Logs  *)
(* are large enough: only a read that is copying may leave no slot free.   *)
(***************************************************************************)
Forbidden(c) == task[c].policy_on = 1 /\ task[c].policy_level < 1

\* Calls that are copying records of c out; were such a call undone after the
\* hook's write, c's log would be full.
Copying(c) == {d \in Pids : call[d].pid = c /\ call[d].at = "copy"}
Crowds(c) == \E d \in Copying(c) :
                PutLog([Log(c) EXCEPT !.indexRead = call[d].prev]).full = 1

Denied(c) ==
    LET g == Log(c) IN
    /\ ~wild
    /\ task[c].alive /\ HasLog(c) /\ Forbidden(c)
    /\ g.size # 0 /\ (Count(g) < g.size \/ Copying(c) # {})
    /\ denied < MaxDenied[keeps]
    /\ denied' = denied + 1
    /\ arrays' = [arrays EXCEPT ![g.array] = PutArray(g, @, denied')]
    /\ logs' = [logs EXCEPT ![task[c].logArray] = PutLog(@)]
    /\ queue' = [queue EXCEPT ![c] = @ \cup {denied'}]
    /\ crowded' = IF Crowds(c) THEN crowded \cup {c} ELSE crowded
    /\ UNCHANGED <<task, call, wild, keeps>>

Yield(c) == call[c] = Idle /\ Denied(c)

\* yield() of __alloc_pages, for a process asleep in a kmalloc or in the page
\* fault of a copy_to_user
KernelYield(c) == call[c].at # "idle" /\ Denied(c)

\* A hook, a policy call or release_task finds p's policy on and its log gone
\* or not set up.
DanglingUse(p) ==
    /\ ~wild
    /\ task[p].alive /\ task[p].policy_on = 1
    /\ ~HasLog(p)
    /\ wild' = TRUE
    /\ UNCHANGED <<task, logs, arrays, call, denied, queue, crowded, keeps>>

Next ==
    \E c \in Pids :
        \/ \E p \in Pids, size \in Sizes : EnableBegins(c, p, size)
        \/ \E h \in LogIds : EnableHeader(c, h)
        \/ EnableNoHeader(c)
        \/ \E a \in ArrIds : EnableArray(c, a)
        \/ EnableNoArray(c)
        \/ EnableWild(c)
        \/ \E p \in Pids : Disable(c, p)
        \/ \E p \in Pids, l \in {0, 2} : SetLevel(c, p, l)
        \/ Release(c)
        \/ \E p \in Pids, k \in Sizes : GetBegins(c, p, k)
        \/ GetLoop(c)
        \/ GetNoMem(c)
        \/ GetOk(c)
        \/ GetFault(c)
        \/ GetWild(c)
        \/ Yield(c)
        \/ KernelYield(c)
        \/ DanglingUse(c)

Spec == Init /\ [][Next]_vars

-----------------------------------------------------------------------------
(***************************************************************************)
(* Types.  The write index of a live log stays in its array whatever the   *)
(* interleaving; the read index need not, a late fault can restore one of  *)
(* an older and longer log.                                                *)
(***************************************************************************)
TypeOK ==
    /\ task \in [Pids -> [alive : BOOLEAN, policy_on : {0, 1},
                          policy_level : {0, 2}, logArray : LogIds \cup {NULL}]]
    /\ DOMAIN logs \subseteq LogIds /\ DOMAIN arrays \subseteq ArrIds
    /\ \A l \in DOMAIN logs : logs[l] # Garbage =>
          /\ logs[l].size \in Nat /\ logs[l].indexRead \in Nat
          /\ logs[l].indexWrite \in 0..(IF logs[l].size = 0 THEN 0
                                        ELSE logs[l].size - 1)
    /\ \A c \in Pids : call[c].at \in {"idle", "header", "array", "temp", "copy"}
    /\ denied \in 0..MaxDenied[keeps]

(***************************************************************************)
(* No policy call, hook or release_task uses a task_struct or a log that   *)
(* has been freed, or replaced by one not set up, while a call slept, as   *)
(* long as the callers keep to the family discipline.                      *)
(***************************************************************************)
NoUseAfterFree == keeps # "any" => ~wild

(***************************************************************************)
(* No leak (last_semester_test/test09.c): every live header belongs to a   *)
(* task whose policy is on or to an enable_policy that is still asleep,    *)
(* and every live array to a live header.                                  *)
(***************************************************************************)
NoLeak ==
    /\ \A l \in DOMAIN logs : \E p \in Pids :
          /\ task[p].logArray = l
          /\ \/ task[p].policy_on = 1
             \/ \E c \in Pids : call[c].at = "array" /\ call[c].pid = p
    /\ \A a \in DOMAIN arrays : \E l \in DOMAIN logs :
          logs[l] # Garbage /\ logs[l].size # 0 /\ logs[l].array = a

(***************************************************************************)
(* A process has all of its forbidden activities, and no others, in its    *)
(* log (last_semester_test/test11.c): when no call about p is under way,   *)
(* the ring holds exactly the refused calls nobody has been handed yet,    *)
(* each once, the oldest first.                                            *)
(***************************************************************************)
Lists(s, records) == /\ Records(s) = records
                     /\ \A i, j \in DOMAIN s : i < j => s[i] < s[j]

LogExact(p) ==
    task[p].alive /\ HasLog(p) /\ Quiet(p)
        => Lists(Contents(Log(p), arrays[Log(p).array]), queue[p])

LogIsQueue == \A p \in Pids : LogExact(p)

(***************************************************************************)
(* What the discipline buys: sleeping in the middle of enable_policy leaks *)
(* nothing, and the log of a process that is refused at any moment, in its *)
(* own sleeping calls too, holds exactly the refused calls, unless it once *)
(* got full while a get_process_log was copying from it.                   *)
(***************************************************************************)
NoLeakIfKept == keeps # "any" => NoLeak

KeptLogIsQueue == keeps # "any" =>
    \A p \in Pids : p \notin crowded => LogExact(p)
==============================================================================
