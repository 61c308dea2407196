-------------------------------- MODULE Sched --------------------------------
(***************************************************************************)
(* The scheduler of kernel/sched.c as built for one CPU (no CONFIG_SMP),   *)
(* with the calls of do_fork, do_exit and release_task into it, the hook   *)
(* of sys_sched_yield and the yield() loop of __alloc_pages.               *)
(*                                                                         *)
(* The kernel does not preempt itself: schedule() runs when a task blocks, *)
(* yields, or returns to user mode with need_resched set, and interrupts   *)
(* (the timer, a wake-up) come between any two steps.  Each C function is  *)
(* an operator from a state s = [task, rq] to the state it leaves.         *)
(*                                                                         *)
(* jiffies grows for ever but only differences of it are looked at, so a   *)
(* task carries sleep_time = jiffies - sleep_timestamp and the run queue   *)
(* expired_time = jiffies - expired_timestamp, each kept up to the value   *)
(* above which the code no longer tells them apart.  A prio_array is named *)
(* by its role, so switching the arrays renames them.                      *)
(***************************************************************************)
EXTENDS Integers, Sequences, FiniteSets

CONSTANTS Tasks,             \* task_structs
          InitTask,          \* the one of init, which never exits
          Started,           \* tasks that exist at first, init among them
          Mortal,            \* tasks that exit
          Sleepers,          \* tasks that sleep
          SleepStates,       \* states they sleep in
          Yielders,          \* tasks that call sched_yield
          Idle,              \* the idle task
          MAX_RT_PRIO, MAX_PRIO,
          PrioBonus,         \* MAX_USER_PRIO * PRIO_BONUS_RATIO / 100
          INTERACTIVE_DELTA,
          MAX_SLEEP_AVG, STARVATION_LIMIT, MIN_TIMESLICE, MAX_TIMESLICE,
          Nices,             \* nice arguments callers pass
          Policies,          \* policies sched_setscheduler is called with
          NiceOthers,        \* setpriority is called for other tasks
          Allocators,        \* tasks that run out of memory
          Restricted,        \* tasks whose policy is on at level 0
          NULL

\* [ -20 .. 19 ] is the range of nice, the user priorities shifted by half.
MAX_USER_PRIO == MAX_PRIO - MAX_RT_PRIO
NiceShift == MAX_RT_PRIO + MAX_USER_PRIO \div 2
CHILD_PENALTY == 95
PARENT_PENALTY == 100
EXIT_WEIGHT == 3

Sleeping == {"INTERRUPTIBLE", "UNINTERRUPTIBLE"}

ASSUME TasksAssumption == /\ InitTask \in Started /\ Started \subseteq Tasks
                          /\ Mortal \subseteq Tasks \ {InitTask}
                          /\ Idle \notin Tasks /\ NULL \notin {"active", "expired"}
                          /\ SleepStates \subseteq Sleeping
                          /\ IsFiniteSet(Tasks)
                          /\ Sleepers \subseteq Tasks /\ Yielders \subseteq Tasks
                          /\ Restricted \subseteq Tasks /\ Allocators \subseteq Tasks
ASSUME PrioAssumption ==
    /\ MAX_RT_PRIO \in Nat \ {0} /\ MAX_PRIO \in Nat
    /\ MAX_RT_PRIO + 1 < MAX_PRIO
    /\ PrioBonus \in Nat /\ INTERACTIVE_DELTA \in Int
    /\ MAX_SLEEP_AVG \in Nat \ {0} /\ STARVATION_LIMIT \in Nat
    /\ MIN_TIMESLICE \in Nat \ {0} /\ MAX_TIMESLICE \in Nat
    /\ MIN_TIMESLICE <= MAX_TIMESLICE
ASSUME CallsAssumption == /\ Nices \subseteq Int /\ NiceOthers \in BOOLEAN
                          /\ Policies \subseteq {"OTHER", "FIFO", "RR"}

VARIABLES task, rq

vars == <<task, rq>>

Roles == {"active", "expired"}
Prios == 0..(MAX_PRIO - 1)

NICE_TO_PRIO(nice) == NiceShift + nice
TASK_NICE(t) == t.static_prio - NiceShift
rt_task(t) == t.prio < MAX_RT_PRIO

TASK_TIMESLICE(t) ==
    MIN_TIMESLICE + ((MAX_TIMESLICE - MIN_TIMESLICE)
                     * (MAX_PRIO - 1 - t.static_prio)) \div (MAX_USER_PRIO - 1)

\* Integer division of C, which rounds towards 0.
Quotient(a, b) == IF a < 0 THEN -((-a) \div b) ELSE a \div b

DELTA(t) == Quotient(TASK_NICE(t) * PrioBonus, MAX_USER_PRIO) + INTERACTIVE_DELTA

TASK_INTERACTIVE(t) == t.prio <= t.static_prio - DELTA(t)

Least(a, b) == IF a < b THEN a ELSE b

-----------------------------------------------------------------------------
FreeTask == [state |-> "free", array |-> NULL, prio |-> MAX_PRIO - 1,
             static_prio |-> MAX_PRIO - 1, policy |-> "OTHER",
             time_slice |-> MIN_TIMESLICE, first_time_slice |-> FALSE,
             sleep_avg |-> 0, sleep_time |-> 0, need_resched |-> FALSE,
             alloc |-> FALSE, parent |-> NULL]

\* init_idle
IdleTask == [FreeTask EXCEPT !.state = "RUNNING", !.prio = MAX_PRIO]

\* The tasks that have been started are at nice 0 with a whole time slice.
FirstTask ==
    LET t == [FreeTask EXCEPT !.state = "RUNNING", !.array = "active",
                              !.static_prio = NICE_TO_PRIO(0),
                              !.prio = NICE_TO_PRIO(0), !.parent = InitTask]
    IN  [t EXCEPT !.time_slice = TASK_TIMESLICE(t)]

\* sched_init, and the first tasks on their queue
Init ==
    /\ task = [p \in Tasks \cup {Idle} |-> IF p = Idle THEN IdleTask
                                           ELSE IF p \in Started THEN FirstTask
                                           ELSE FreeTask]
    /\ \E q \in [1..Cardinality(Started) -> Started] :
          /\ \A p \in Started : \E n \in DOMAIN q : q[n] = p
          /\ rq = [curr |-> q[1], nr_running |-> Len(q),
                   nr_uninterruptible |-> 0, expired_time |-> NULL,
                   nr_active |-> [a \in Roles |-> IF a = "active" THEN Len(q)
                                                                  ELSE 0],
                   bitmap |-> [a \in Roles |-> IF a = "active"
                                               THEN {NICE_TO_PRIO(0)} ELSE {}],
                   queue |-> [a \in Roles |-> [i \in Prios |->
                                 IF a = "active" /\ i = NICE_TO_PRIO(0)
                                 THEN q ELSE << >>]]]

Now == [task |-> task, rq |-> rq]

Becomes(s) == \E x \in {s} : task' = x.task /\ rq' = x.rq

Current(s) == s.task[s.rq.curr]

-----------------------------------------------------------------------------
\* The node of p is taken out of the list.
list_del(q, p) ==
    LET n == CHOOSE i \in DOMAIN q : q[i] = p
    IN  [i \in 1..(Len(q) - 1) |-> IF i < n THEN q[i] ELSE q[i + 1]]

\* list_add(&current->run_list, queue->next): behind the first task
AddSecond(q, p) == IF q = << >> THEN <<p>> ELSE <<Head(q), p>> \o Tail(q)

dequeue_task_KeepsBit(s, p, a) ==
    LET i == s.task[p].prio IN
    [task |-> s.task,
     rq |-> [s.rq EXCEPT !.nr_active[a] = @ - 1,
                         !.queue[a][i] = list_del(@, p)]]

dequeue_task(s, p, a) ==
    LET i == s.task[p].prio
        q == list_del(s.rq.queue[a][i], p)
    IN  [task |-> s.task,
         rq |-> [s.rq EXCEPT !.nr_active[a] = @ - 1,
                             !.queue[a][i] = q,
                             !.bitmap[a] = IF q = << >> THEN @ \ {i} ELSE @]]

enqueue_task(s, p, a) ==
    LET i == s.task[p].prio IN
    [task |-> [s.task EXCEPT ![p].array = a],
     rq |-> [s.rq EXCEPT !.nr_active[a] = @ + 1,
                         !.queue[a][i] = Append(@, p),
                         !.bitmap[a] = @ \cup {i}]]

sched_find_first_bit(bits) ==
    IF bits = {} THEN MAX_PRIO
    ELSE CHOOSE i \in bits : \A j \in bits : i <= j

effective_prio(t) ==
    LET bonus == (PrioBonus * t.sleep_avg) \div MAX_SLEEP_AVG - PrioBonus \div 2
        prio  == t.static_prio - bonus
    IN  IF prio < MAX_RT_PRIO THEN MAX_RT_PRIO ELSE Least(prio, MAX_PRIO - 1)

\* The sleep bonus of activate_task.
Rested(t) ==
    LET u == [t EXCEPT !.sleep_avg = Least(@ + t.sleep_time, MAX_SLEEP_AVG)]
    IN  IF ~rt_task(t) /\ t.sleep_time # 0
        THEN [u EXCEPT !.prio = effective_prio(u)] ELSE t

activate_task(s, p) ==
    LET r == enqueue_task([s EXCEPT !.task[p] = Rested(@)], p, "active")
    IN  [r EXCEPT !.rq.nr_running = @ + 1]

deactivate_task(s, p) ==
    LET r == dequeue_task(s, p, s.task[p].array)
    IN  [task |-> [r.task EXCEPT ![p].array = NULL],
         rq |-> [r.rq EXCEPT !.nr_running = @ - 1,
                             !.nr_uninterruptible =
                                 IF s.task[p].state = "UNINTERRUPTIBLE"
                                 THEN @ + 1 ELSE @]]

resched_task(s, p) == [s EXCEPT !.task[p].need_resched = TRUE]

-----------------------------------------------------------------------------
\* A task that comes on the queue takes the CPU from one of lower priority.
PreemptCurr_AnyPrio(s, p) == s

PreemptCurr(s, p) == IF s.task[p].prio < Current(s).prio
                     THEN resched_task(s, s.rq.curr) ELSE s

try_to_wake_up(s, p) ==
    LET r == [s EXCEPT !.rq.nr_uninterruptible =
                 IF s.task[p].state = "UNINTERRUPTIBLE" THEN @ - 1 ELSE @]
        u == IF s.task[p].array = NULL THEN PreemptCurr(activate_task(r, p), p)
             ELSE s
    IN  [u EXCEPT !.task[p].state = "RUNNING"]

wake_up_forked_process(s, p) ==
    LET kid == [s.task[p] EXCEPT !.state = "RUNNING"]
        old == [kid EXCEPT !.sleep_avg = (@ * CHILD_PENALTY) \div 100]
        u   == [s EXCEPT !.task[s.rq.curr].sleep_avg = (@ * PARENT_PENALTY) \div 100]
        r   == IF rt_task(kid) THEN [s EXCEPT !.task[p] = kid]
               ELSE [u EXCEPT !.task[p] = [old EXCEPT !.prio = effective_prio(old)]]
    IN  activate_task(r, p)

sched_exit(s, p) ==
    LET c == Current(s)
        z == s.task[p]
    IN  [s EXCEPT !.task[s.rq.curr] = [c EXCEPT
           !.time_slice =
               IF z.first_time_slice THEN Least(@ + z.time_slice, MAX_TIMESLICE)
               ELSE @,
           !.sleep_avg =
               IF z.sleep_avg < c.sleep_avg
               THEN (@ * EXIT_WEIGHT + z.sleep_avg) \div (EXIT_WEIGHT + 1)
               ELSE @]]

-----------------------------------------------------------------------------
EXPIRED_STARVING_Never(r) == FALSE

EXPIRED_STARVING(r) ==
    /\ r.expired_time # NULL
    /\ r.expired_time >= STARVATION_LIMIT * r.nr_running + 1

\* p, a task of the active array, starts a new time slice.
NewSlice(s, p) ==
    [s EXCEPT !.task[p] = [@ EXCEPT !.time_slice = TASK_TIMESLICE(s.task[p]),
                                    !.first_time_slice = FALSE,
                                    !.need_resched = TRUE]]

\* An RR task goes to the end of its queue.
RequeueRR(s, p) ==
    enqueue_task(dequeue_task(NewSlice(s, p), p, "active"), p, "active")

\* Any other goes to the expired array, or back if it is interactive and the
\* expired tasks are not starving.
ExpireSlice(s, p) ==
    LET d == dequeue_task(s, p, "active")
        e == NewSlice([d EXCEPT !.task[p].prio = effective_prio(d.task[p])], p)
    IN  IF ~TASK_INTERACTIVE(e.task[p]) \/ EXPIRED_STARVING(e.rq)
        THEN enqueue_task([e EXCEPT !.rq.expired_time =
                              IF @ = NULL THEN 0 ELSE @], p, "expired")
        ELSE enqueue_task(e, p, "active")

scheduler_tick(s) ==
    LET c == s.rq.curr
        t == s.task[c]
        used == [s EXCEPT !.task[c].time_slice = @ - 1]
        ran  == [used EXCEPT !.task[c].sleep_avg = IF @ # 0 THEN @ - 1 ELSE @]
    IN  IF c = Idle THEN s
        ELSE IF t.array # "active" THEN resched_task(s, c)
        ELSE IF rt_task(t) THEN
            IF t.policy # "RR" THEN s
            ELSE IF t.time_slice = 1 THEN RequeueRR(used, c) ELSE used
        ELSE IF t.time_slice = 1 THEN ExpireSlice(ran, c) ELSE ran

-----------------------------------------------------------------------------
\* The arrays trade roles and expired_timestamp is cleared.
Other(a) == CASE a = "active" -> "expired" [] a = "expired" -> "active"
              [] OTHER -> NULL

SwitchArrays(s) ==
    [task |-> [p \in DOMAIN s.task |-> [s.task[p] EXCEPT !.array = Other(@)]],
     rq |-> [s.rq EXCEPT !.queue = [a \in Roles |-> @[Other(a)]],
                         !.bitmap = [a \in Roles |-> @[Other(a)]],
                         !.nr_active = [a \in Roles |-> @[Other(a)]],
                         !.expired_time = NULL]]

\* pick_next_task: from the highest non-empty queue of the active array
PickNext(s) ==
    LET r == IF s.rq.nr_active["active"] = 0 THEN SwitchArrays(s) ELSE s
        i == sched_find_first_bit(r.rq.bitmap["active"])
    IN  IF s.rq.nr_running = 0
        THEN [s EXCEPT !.rq = [@ EXCEPT !.curr = Idle, !.expired_time = NULL]]
        ELSE [r EXCEPT !.rq.curr = Head(r.rq.queue["active"][i])]

\* schedule(); signalled: a signal is pending for current
schedule(s, signalled) ==
    LET prev == s.rq.curr
        r == [s EXCEPT !.task[prev].sleep_time = 0]
        stays == signalled /\ s.task[prev].state = "INTERRUPTIBLE"
        u == IF stays THEN [r EXCEPT !.task[prev].state = "RUNNING"]
             ELSE IF s.task[prev].state = "RUNNING" THEN r
             ELSE deactivate_task(r, prev)
    IN  [PickNext(u) EXCEPT !.task[prev].need_resched = FALSE]

\* sys_sched_yield past the hook, up to its call of schedule()
Requeue(s) ==
    LET c == s.rq.curr
        t == s.task[c]
        q == list_del(s.rq.queue[t.array][t.prio], c)
        rest == s.rq.bitmap[t.array] \ {t.prio}
        next == sched_find_first_bit(rest)
        i == IF next = MAX_PRIO \/ next <= t.prio THEN t.prio ELSE next
    IN  IF rt_task(t)
        THEN [s EXCEPT !.rq.queue[t.array][t.prio] = Append(q, c)]
        ELSE IF q # << >>
        THEN [s EXCEPT !.rq.queue[t.array][t.prio] = AddSecond(q, c)]
        ELSE LET r == [s EXCEPT !.rq.queue[t.array][t.prio] = << >>]
             IN  [task |-> [r.task EXCEPT ![c].prio = i],
                  rq |-> [r.rq EXCEPT !.queue[t.array][i] = AddSecond(@, c),
                                      !.bitmap[t.array] = rest \cup {i}]]

sys_sched_yield_Stays(s) == Requeue(s)

\* The hook returns -EINVAL before anything else is done.
sys_sched_yield(s) == IF s.rq.curr \in Restricted THEN s
                      ELSE schedule(Requeue(s), FALSE)

-----------------------------------------------------------------------------
\* The policy of p is not real-time: it moves to the queue of its new nice.
Renice(s, p, nice) ==
    LET prio == NICE_TO_PRIO(nice)
        a == s.task[p].array
        r == IF a = NULL THEN s ELSE dequeue_task(s, p, a)
        u == [r EXCEPT !.task[p] = [@ EXCEPT !.static_prio = prio, !.prio = prio]]
        w == enqueue_task(u, p, a)
    IN  IF a = NULL THEN u
        ELSE IF prio < w.task[p].static_prio \/ p = s.rq.curr
        THEN resched_task(w, s.rq.curr) ELSE w

set_user_nice(s, p, nice) ==
    IF TASK_NICE(s.task[p]) = nice
        \/ NICE_TO_PRIO(nice) \notin MAX_RT_PRIO..(MAX_PRIO - 1)
    THEN s
    ELSE IF rt_task(s.task[p])
    THEN [s EXCEPT !.task[p].static_prio = NICE_TO_PRIO(nice)]
    ELSE Renice(s, p, nice)

setscheduler(s, p, policy, rt_priority) ==
    LET a == s.task[p].array
        r == IF a = NULL THEN s ELSE deactivate_task(s, p)
        u == [r EXCEPT !.task[p] = [@ EXCEPT
                 !.policy = policy,
                 !.prio = IF policy # "OTHER" THEN MAX_RT_PRIO - 1 - rt_priority
                          ELSE r.task[p].static_prio]]
    IN  IF a = NULL THEN u ELSE activate_task(u, p)

\* do_fork: the slice is shared; a parent left with none ends its slice now.
ShareSlice(s, child) ==
    LET c == s.rq.curr
        t == s.task[c]
    IN  [s EXCEPT !.task = [@ EXCEPT
           ![child] = [t EXCEPT !.time_slice = (t.time_slice + 1) \div 2,
                                !.first_time_slice = TRUE, !.sleep_time = 0,
                                !.array = NULL, !.parent = c],
           ![c].time_slice = t.time_slice \div 2]]

SplitSlice_NoRefill(s, child) == ShareSlice(s, child)

SplitSlice(s, child) ==
    LET c == s.rq.curr
        r == ShareSlice(s, child)
    IN  IF r.task[c].time_slice # 0 THEN r
        ELSE scheduler_tick([r EXCEPT !.task[c].time_slice = 1])

-----------------------------------------------------------------------------
(***************************************************************************)
(* Steps.  c is in user mode, or in a system call it has just made; a task *)
(* that sets its state or loops in __alloc_pages stays in the kernel.      *)
(***************************************************************************)
OnCpu(c) == rq.curr = c /\ task[c].state = "RUNNING"

InUser(c) == c # Idle /\ OnCpu(c) /\ ~task[c].alloc

Alive(p) == task[p].state # "free"

MaxExpired == STARVATION_LIMIT * Cardinality(Tasks) + 1

\* Where activate_task can come next for p, which looks at sleep_time; it is
\* 0 elsewhere.
CanActivate(p) == \/ task[p].state \in Sleeping
                  \/ task[p].array # NULL /\ Policies # {}

\* do_timer: jiffies moves on, then scheduler_tick
Aged == [task |-> [p \in DOMAIN task |->
                      [task[p] EXCEPT !.sleep_time =
                          IF CanActivate(p) THEN Least(@ + 1, MAX_SLEEP_AVG)
                          ELSE 0]],
         rq |-> [rq EXCEPT !.expired_time =
                    IF @ = NULL THEN NULL ELSE Least(@ + 1, MaxExpired)]]

Tick == \E s \in {Aged} : Becomes(scheduler_tick(s))

\* Return to user mode, or the idle loop, with need_resched set.
Resched == /\ rq.curr = Idle \/ InUser(rq.curr)
           /\ task[rq.curr].need_resched
           /\ \E s \in {Now} : Becomes(schedule(s, FALSE))

\* current->state is set first, schedule() is called later; meanwhile an
\* interrupt may wake the task, or it finds what it waits for by itself.
PrepareSleep(c) ==
    /\ c \in Sleepers /\ OnCpu(c)
    /\ \E st \in SleepStates :
          task' = [task EXCEPT ![c].state = st]
    /\ UNCHANGED rq

NoSleep(c) == /\ rq.curr = c
              /\ task[c].state \in Sleeping
              /\ task' = [task EXCEPT ![c].state = "RUNNING"]
              /\ UNCHANGED rq

Block == /\ task[rq.curr].state # "RUNNING"
         /\ \E signalled \in BOOLEAN : \E s \in {Now} : Becomes(schedule(s, signalled))

WakeUp(p) == /\ task[p].state \in Sleeping
             /\ Becomes(try_to_wake_up(Now, p))

\* The child runs first; vfork sleeps until the child is done with the memory.
Fork(c, child) ==
    LET r == wake_up_forked_process(SplitSlice(Now, child), child) IN
    /\ InUser(c) /\ c \notin Restricted
    /\ ~Alive(child)
    /\ \/ Becomes(resched_task(r, c))
       \/ Becomes(schedule([r EXCEPT !.task[c].state = "UNINTERRUPTIBLE"], FALSE))

\* exit_notify, which gives the children to init and takes from them what
\* is left to return of their first slice; do_exit then calls schedule(),
\* see Block.
Exit(c) ==
    /\ InUser(c) /\ c \in Mortal
    /\ LET orphans == [p \in DOMAIN task |->
                          IF task[p].parent # c THEN task[p]
                          ELSE [task[p] EXCEPT !.parent = InitTask,
                                               !.first_time_slice = FALSE]]
       IN  task' = [orphans EXCEPT ![c].state = "ZOMBIE"]
    /\ UNCHANGED rq

\* release_task, from sys_wait4
Release(c, z) ==
    /\ InUser(c) /\ c \notin Restricted
    /\ task[z].state = "ZOMBIE" /\ task[z].parent = c
    /\ Becomes([sched_exit(Now, z) EXCEPT !.task[z] = FreeTask])

Yield(c) == InUser(c) /\ c \in Yielders /\ \E s \in {Now} : Becomes(sys_sched_yield(s))

\* sys_nice is for oneself, sys_setpriority for anyone.
SetNice(c, p, nice) ==
    /\ InUser(c) /\ Alive(p) /\ p # Idle
    /\ p = c \/ NiceOthers
    /\ Becomes(set_user_nice(Now, p, nice))

SetScheduler(c, p, policy) ==
    /\ InUser(c) /\ Alive(p) /\ p # Idle
    /\ IF policy = "OTHER" THEN Becomes(setscheduler(Now, p, policy, 0))
       ELSE \E rt \in 1..(MAX_RT_PRIO - 1) :
               Becomes(setscheduler(Now, p, policy, rt))

(***************************************************************************)
(* __alloc_pages with memory exhausted: until pages are freed it wakes     *)
(* kswapd, yields, reclaims and tries again.  The two scans of             *)
(* try_to_free_pages look at need_resched once per page and                *)
(* kmem_cache_reap once per slab it frees, so not at all when nothing is   *)
(* left to reclaim.                                                        *)
(***************************************************************************)
AllocBegins(c) == /\ InUser(c) /\ c \in Allocators
                  /\ task' = [task EXCEPT ![c].alloc = TRUE]
                  /\ UNCHANGED rq

AllocYields == /\ OnCpu(rq.curr) /\ task[rq.curr].alloc
               /\ \E s \in {Now} : Becomes(sys_sched_yield(s))

AllocReclaims == /\ OnCpu(rq.curr) /\ task[rq.curr].alloc
                 /\ task[rq.curr].need_resched
                 /\ \E s \in {Now} : Becomes(schedule(s, FALSE))

\* wakeup_kswapd sets the state, then calls schedule() unless kswapd is
\* overloaded (Block), or not (NoSleep); kswapd_done is WakeUp.
AllocSleeps(c) == /\ OnCpu(c) /\ task[c].alloc
                  /\ task' = [task EXCEPT ![c].state = "UNINTERRUPTIBLE"]
                  /\ UNCHANGED rq

AllocEnds(c) == /\ OnCpu(c) /\ task[c].alloc
                /\ task' = [task EXCEPT ![c].alloc = FALSE]
                /\ UNCHANGED rq

Reprioritise == \E c, p \in Tasks :
    \/ \E nice \in Nices : SetNice(c, p, nice)
    \/ \E policy \in Policies : SetScheduler(c, p, policy)

Next == \/ Tick
        \/ Resched
        \/ Block
        \/ AllocYields
        \/ AllocReclaims
        \/ Reprioritise
        \/ \E c \in Tasks : \/ PrepareSleep(c)
                            \/ NoSleep(c)
                            \/ WakeUp(c)
                            \/ Exit(c)
                            \/ Yield(c)
                            \/ AllocBegins(c)
                            \/ AllocSleeps(c)
                            \/ AllocEnds(c)
                            \/ \E p \in Tasks : Fork(c, p) \/ Release(c, p)

Spec == Init /\ [][Next]_vars

(***************************************************************************)
(* The timer interrupt keeps coming, and a task that has set its state     *)
(* calls schedule() or sets it back.  Every system call goes through the   *)
(* test of need_resched on its return and every turn of the allocator's    *)
(* loop through yield(), so those two cannot be put off for ever by other  *)
(* calls of the same task: strong fairness.  Nothing is asked of           *)
(* AllocReclaims, which needs something to reclaim, nor of AllocSleeps     *)
(* followed by Block, which needs a kswapd that is not overloaded: that    *)
(* flag, once set, is cleared only when kswapd runs again.                 *)
(***************************************************************************)
LiveSpec == /\ Spec
            /\ WF_vars(Tick)
            /\ SF_vars(Resched)
            /\ WF_vars(Block)
            /\ SF_vars(AllocYields)

-----------------------------------------------------------------------------
Queued(a) == {p \in Tasks : task[p].array = a}

Occurrences(a, i, p) == {n \in DOMAIN rq.queue[a][i] : rq.queue[a][i][n] = p}

(***************************************************************************)
(* Types; in particular no task is without a time slice, which do_fork     *)
(* asserts with BUG(), and none has more than MAX_TIMESLICE.               *)
(***************************************************************************)
TypeOK ==
    /\ rq.curr \in Tasks \cup {Idle}
    /\ \A p \in Tasks :
          /\ task[p].array \in Roles \cup {NULL}
          /\ task[p].prio \in Prios
          /\ task[p].static_prio \in MAX_RT_PRIO..(MAX_PRIO - 1)
          /\ task[p].time_slice \in 1..MAX_TIMESLICE
          /\ task[p].sleep_avg \in 0..MAX_SLEEP_AVG
          /\ (task[p].policy = "OTHER") = ~rt_task(task[p])

(***************************************************************************)
(* The run queue agrees with itself and with the tasks, whatever the order *)
(* of wake-ups, ticks, priority changes, yields, forks and exits: exactly  *)
(* the runnable tasks and current are queued, once, in the queue of their  *)
(* priority in the array they point to; the bitmap and the counters say    *)
(* what the queues hold.  So schedule() never takes the head of an empty   *)
(* queue, a sleeper is never run and a zombie never again.                 *)
(***************************************************************************)
RunqueueOK ==
    /\ \A p \in Tasks :
          (task[p].array # NULL) <=> (task[p].state = "RUNNING" \/ p = rq.curr)
    /\ \A a \in Roles, i \in Prios :
          /\ i \in rq.bitmap[a] <=> rq.queue[a][i] # << >>
          /\ \A p \in Tasks :
                Cardinality(Occurrences(a, i, p)) =
                    IF task[p].array = a /\ task[p].prio = i THEN 1 ELSE 0
    /\ \A a \in Roles : rq.nr_active[a] = Cardinality(Queued(a))
    /\ rq.nr_running = Cardinality(Queued("active") \cup Queued("expired"))
    /\ rq.nr_uninterruptible =
          Cardinality({p \in Tasks : /\ task[p].state = "UNINTERRUPTIBLE"
                                     /\ task[p].array = NULL})

(***************************************************************************)
(* While a better task waits in the active array, or any task while the    *)
(* CPU idles, current is marked to be rescheduled.  The comment in         *)
(* set_user_nice claims it for priority changes too.                       *)
(***************************************************************************)
Better(p) == /\ p # rq.curr
             /\ task[p].array = "active"
             /\ task[p].prio < task[rq.curr].prio

PreemptPending ==
    \/ task[rq.curr].need_resched
    \/ \A p \in Tasks : ~Better(p)

(***************************************************************************)
(* Wake-ups, forks, ticks, yields and switches never lose a preemption:    *)
(* only set_user_nice and setscheduler can make a waiting task better than *)
(* current without a reschedule being marked.                              *)
(***************************************************************************)
PreemptKept == [][PreemptPending => PreemptPending' \/ Reprioritise]_vars

(***************************************************************************)
(* Interactive tasks that are put back into the active array do not keep   *)
(* it in use for ever, thanks to EXPIRED_STARVING: the arrays are switched *)
(* and the expired tasks are active again.  There are two ways around this *)
(* limit: to be a real-time task, and to go to sleep when one's slice has  *)
(* just run out, since the wake-up puts the task into the active array     *)
(* with a new slice.  A task of the active array may still wait for ever,  *)
(* behind better ones that no more expire than it does.                    *)
(***************************************************************************)
Slips(p) == /\ rq.curr = p /\ task[p].array = "expired"
            /\ task[p].state \in Sleeping

ExpiredReturns ==
    (Queued("expired") # {}) ~>
        (Queued("expired") = {} \/ \E q \in Tasks : rt_task(task[q]) \/ Slips(q))

(***************************************************************************)
(* The allocator gives the CPU to others: a task that loops in             *)
(* __alloc_pages while others are runnable stops looping or stops running  *)
(* ("we must yield the CPU (to rpciod) to avoid deadlock").                *)
(***************************************************************************)
AllocLetsOthersRun == \A p \in Allocators :
    (rq.curr = p /\ task[p].alloc /\ rq.nr_running > 1 /\ ~rt_task(task[p]))
        ~> (rq.curr # p \/ ~task[p].alloc \/ rt_task(task[p]))
==============================================================================
