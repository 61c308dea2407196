------------------------------- MODULE ForkPid -------------------------------
(***************************************************************************)
(* Process ids: get_pid of kernel/fork.c, with do_fork split where it      *)
(* sleeps, exit and release_task, setsid and setpgid.                      *)
(*                                                                         *)
(* get_pid looks at the task list only now and then: in between it trusts  *)
(* next_safe, a bound below which no id was in use at its last scan.  The  *)
(* child gets its pid before copy_files ... copy_namespace, which sleep,   *)
(* and is linked into the task list after them, where a scan can see it.   *)
(***************************************************************************)
EXTENDS Integers, FiniteSets

CONSTANTS Slots,          \* task_structs
          InitSlot,       \* the one of init, which never exits
          PID_MAX,        \* the first number that is no pid
          RESERVED_PIDS,  \* where ids start after a wrap: the 300 in get_pid
          max_threads,
          RLIMIT_NPROC,   \* processes a user may have
          Capable,        \* tasks the limit of the user does not bind
          NULL

ASSUME SlotsAssumption == /\ IsFiniteSet(Slots) /\ InitSlot \in Slots
                          /\ NULL \notin Slots /\ Capable \subseteq Slots
ASSUME PidAssumption == /\ PID_MAX \in Nat /\ RESERVED_PIDS \in Nat
                        /\ 1 < RESERVED_PIDS /\ RESERVED_PIDS < PID_MAX
ASSUME LimitAssumption == /\ max_threads \in Nat /\ 1 < max_threads
                          /\ RLIMIT_NPROC \in Nat

VARIABLES task,        \* task_structs
          last_pid, next_safe,
          nr_threads,  \* tasks in the task list
          processes,   \* tasks of the user
          unseen       \* history: an id may be in use that get_pid missed

vars == <<task, last_pid, next_safe, nr_threads, processes, unseen>>

Pids == 0..(PID_MAX - 1)

Task == [state : {"free", "forking", "live", "zombie"},
         pid : Pids, pgrp : Pids, session : Pids, tgid : Pids, leader : BOOLEAN,
         parent : Slots \cup {NULL}, child : Slots \cup {NULL}]

FreeTask == [state |-> "free", pid |-> 0, pgrp |-> 0, session |-> 0, tgid |-> 0,
             leader |-> FALSE, parent |-> NULL, child |-> NULL]

\* init, which has pid 1 and the group and session of the swapper
Init ==
    /\ task = [p \in Slots |-> IF p = InitSlot
                               THEN [FreeTask EXCEPT !.state = "live", !.pid = 1,
                                                     !.tgid = 1]
                               ELSE FreeTask]
    /\ last_pid = 1
    /\ next_safe = PID_MAX
    /\ nr_threads = 1
    /\ processes = 1
    /\ unseen = FALSE

\* The task list, and the tasks inside do_fork with a child they have not
\* linked yet.
Linked == {p \in Slots : task[p].state \in {"live", "zombie"}}
Forkers == {p \in Slots : task[p].child # NULL}
Allocated == {p \in Slots : task[p].state # "free"}

Ids(t) == {t.pid, t.pgrp, t.tgid, t.session}

Taken == UNION {Ids(task[p]) : p \in Linked}

-----------------------------------------------------------------------------
(***************************************************************************)
(* get_pid.  The ids a scan tries are those above last_pid, then those     *)
(* from RESERVED_PIDS on; last_pid itself is not tried.                    *)
(***************************************************************************)
Candidates == {x \in 1..(PID_MAX - 1) :
                  x > last_pid \/ (x >= RESERVED_PIDS /\ x < last_pid)}

TriedBefore(x) == {y \in Candidates : IF x > last_pid
                                      THEN y > last_pid /\ y < x
                                      ELSE y > last_pid \/ y < x}

Safe_Late == last_pid + 1 <= next_safe /\ last_pid + 1 < PID_MAX

Safe == last_pid + 1 < next_safe

\* n is the least id in use above x, or PID_MAX.
SafeUpTo_Top(x, n) == n = PID_MAX

SafeUpTo(x, n) == /\ n \in Taken \cup {PID_MAX}
                  /\ n > x
                  /\ \A y \in Taken : y > x => n <= y

GetPid(x, n) ==
    \/ Safe /\ x = last_pid + 1 /\ n = next_safe
    \/ /\ ~Safe
       /\ x \in Candidates \ Taken
       /\ TriedBefore(x) \subseteq Taken
       /\ SafeUpTo(x, n)

\* Every id was tried.  What next_safe is left at depends on the order of the
\* task list: PID_MAX, or some id it met that is in use.
NoMorePids(n) == /\ ~Safe
                 /\ Candidates \subseteq Taken
                 /\ n \in {PID_MAX} \cup {y \in Taken : y > last_pid}

-----------------------------------------------------------------------------
HasRoom_Late(c) == /\ processes < RLIMIT_NPROC \/ c \in Capable
                   /\ nr_threads <= max_threads

\* The two limits; nr_threads is looked at here and counted in ForkLinks.
HasRoom(c) == /\ processes < RLIMIT_NPROC \/ c \in Capable
              /\ nr_threads < max_threads

Runs(c) == task[c].state = "live" /\ task[c].child = NULL

\* do_fork up to get_pid: the child is a copy of its parent that only the
\* parent knows.
ForkBegins(c, p, x, n) ==
    /\ Runs(c) /\ task[p].state = "free"
    /\ HasRoom(c)
    /\ GetPid(x, n)
    /\ task' = [task EXCEPT ![p] = [task[c] EXCEPT !.state = "forking", !.pid = x,
                                                   !.leader = FALSE],
                            ![c].child = p]
    /\ last_pid' = x
    /\ next_safe' = n
    /\ processes' = processes + 1
    /\ unseen' = (unseen \/ (x <= last_pid /\ Forkers # {}))
    /\ UNCHANGED nr_threads

ForkNoPid(c, n) ==
    /\ Runs(c)
    /\ \E p \in Slots : task[p].state = "free"
    /\ HasRoom(c)
    /\ NoMorePids(n)
    /\ next_safe' = n
    /\ unseen' = TRUE
    /\ UNCHANGED <<task, last_pid, nr_threads, processes>>

\* One of copy_files ... copy_thread fails.
ForkFails_Uncounted(c) ==
    /\ task[c].child # NULL
    /\ task' = [task EXCEPT ![task[c].child] = FreeTask, ![c].child = NULL]
    /\ UNCHANGED <<last_pid, next_safe, nr_threads, processes, unseen>>

ForkFails(c) ==
    /\ task[c].child # NULL
    /\ task' = [task EXCEPT ![task[c].child] = FreeTask, ![c].child = NULL]
    /\ processes' = processes - 1
    /\ UNCHANGED <<last_pid, next_safe, nr_threads, unseen>>

\* The child enters the task list, with CLONE_THREAD as a thread of c.  (With
\* CLONE_PARENT, left out here, only setpgid would see a difference.)
ForkLinks(c, thread) ==
    LET p == task[c].child IN
    /\ p # NULL
    /\ task' = [task EXCEPT ![p].state = "live",
                            ![p].tgid = IF thread THEN task[c].tgid
                                         ELSE task[p].pid,
                            ![p].parent = c,
                            ![c].child = NULL]
    /\ nr_threads' = nr_threads + 1
    /\ UNCHANGED <<last_pid, next_safe, processes, unseen>>

-----------------------------------------------------------------------------
\* forget_original_parent: the children go to a thread of the group that is
\* not exiting, or to init.
Reapers(c) == LET threads == {q \in Linked \ {c} : /\ task[q].tgid = task[c].tgid
                                                   /\ task[q].state = "live"}
              IN  IF threads = {} THEN {InitSlot} ELSE threads

Exit(c, reaper) ==
    /\ Runs(c) /\ c # InitSlot
    /\ reaper \in Reapers(c)
    /\ task' = [p \in Slots |->
                  IF p = c THEN [task[p] EXCEPT !.state = "zombie"]
                  ELSE IF p \in Linked /\ task[p].parent = c
                  THEN [task[p] EXCEPT !.parent = IF p = reaper THEN InitSlot
                                                  ELSE reaper]
                  ELSE task[p]]
    /\ UNCHANGED <<last_pid, next_safe, nr_threads, processes, unseen>>

\* release_task and unhash_process
Release(z) ==
    /\ task[z].state = "zombie"
    /\ task' = [task EXCEPT ![z] = FreeTask]
    /\ nr_threads' = nr_threads - 1
    /\ processes' = processes - 1
    /\ UNCHANGED <<last_pid, next_safe, unseen>>

sys_setsid(c) ==
    /\ Runs(c)
    /\ \A p \in Linked : task[p].pgrp # task[c].pid
    /\ task' = [task EXCEPT ![c].leader = TRUE, ![c].session = task[c].pid,
                            ![c].pgrp = task[c].pid]
    /\ UNCHANGED <<last_pid, next_safe, nr_threads, processes, unseen>>

\* p is the caller or a child of it in its session that has not called exec;
\* p may be asleep in do_fork, whose child then keeps the old group.
sys_setpgid(c, p, pgid) ==
    /\ Runs(c) /\ p \in Linked
    /\ \/ p = c
       \/ task[p].parent = c /\ task[p].session = task[c].session
    /\ ~task[p].leader
    /\ \/ pgid = task[p].pid
       \/ \E q \in Linked : task[q].pgrp = pgid /\ task[q].session = task[c].session
    /\ task' = [task EXCEPT ![p].pgrp = pgid]
    /\ unseen' = (unseen \/ task[p].child # NULL)
    /\ UNCHANGED <<last_pid, next_safe, nr_threads, processes>>

Next == \E c \in Slots :
    \/ \E p \in Slots, x \in Pids, n \in 1..PID_MAX : ForkBegins(c, p, x, n)
    \/ \E n \in 1..PID_MAX : ForkNoPid(c, n)
    \/ ForkFails(c)
    \/ \E thread \in BOOLEAN : ForkLinks(c, thread)
    \/ \E reaper \in Slots : Exit(c, reaper)
    \/ Release(c)
    \/ sys_setsid(c)
    \/ \E p \in Slots, pgid \in Pids \ {0} : sys_setpgid(c, p, pgid)

Spec == Init /\ [][Next]_vars

-----------------------------------------------------------------------------
TypeOK ==
    /\ task \in [Slots -> Task]
    /\ last_pid \in 1..(PID_MAX - 1)
    /\ next_safe \in 1..PID_MAX
    /\ nr_threads \in Int /\ processes \in Int
    /\ unseen \in BOOLEAN

(***************************************************************************)
(* What get_pid relies on when it does not scan: no task of the list has   *)
(* an id, of any of the four kinds, between last_pid and next_safe.  It    *)
(* fails only after every id was found in use, after the ids have wrapped  *)
(* while a fork was asleep, and after a setpgid of a task inside do_fork.  *)
(***************************************************************************)
GapIsFree ==
    ~unseen => \A p \in Linked :
                  Ids(task[p]) \cap ((last_pid + 1)..(next_safe - 1)) = {}

(***************************************************************************)
(* No two tasks have the same pid, the children not linked yet included.   *)
(***************************************************************************)
PidsUnique ==
    ~unseen => \A p, q \in Allocated : p # q => task[p].pid # task[q].pid

(***************************************************************************)
(* Both counters are right on every path through do_fork, and although the *)
(* test of nr_threads and its increment are separated by sleeps, the limit *)
(* is exceeded by no more than the tasks that were inside do_fork: every   *)
(* fork in flight needs a task of its own.                                 *)
(***************************************************************************)
CountersExact ==
    /\ nr_threads = Cardinality(Linked)
    /\ processes = Cardinality(Allocated)

ThreadsBounded == nr_threads + Cardinality(Forkers) <= 2 * max_threads - 2
==============================================================================
