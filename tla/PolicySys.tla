------------------------------ MODULE PolicySys ------------------------------
(***************************************************************************)
(* The process policy of the OS HW1 kernel: the four system calls of       *)
(* kernel/hw1_syscalls.c reached through the wrappers of                   *)
(* user_files/hw1_syscalls.h, the hooks in do_fork, sys_wait4 and          *)
(* sys_sched_yield, and the life cycle (fork, exit, wait, release_task)    *)
(* that creates and frees the policy fields of task_struct.                *)
(*                                                                         *)
(* The kernel is built for one CPU and does not preempt itself, so a call  *)
(* is one step except where it sleeps.  Here a call sleeps only in         *)
(* sys_wait4; PolicySleep.tla splits the calls where kmalloc and           *)
(* copy_to_user may sleep.                                                 *)
(***************************************************************************)
EXTENDS LogArray

CONSTANTS Pids,          \* pids get_pid hands out; 1 is init
          PidArgs,       \* pid arguments callers pass, known or not
          SizeArgs,      \* size arguments callers pass
          LevelArgs,     \* new_level arguments callers pass
          Passwords,     \* password arguments callers pass
          LogIds,        \* heap blocks that can hold a log header
          ArrIds,        \* heap blocks that can hold an array of records
          NULL,          \* the null pointer
          MaxJiffies,    \* bound on the clock
          LogLargeEnough \* TRUE: "assuming that the size of the log array
                         \* is large enough (for hw)", as each hook says

InitPid  == 1
AnyChild == -1           \* the pid argument of wait4 that matches any child
Password == 234123

\* include/asm-i386/errno.h and include/linux/errno.h
EPERM       == 1
ESRCH       == 3
ECHILD      == 10
EAGAIN      == 11
ENOMEM      == 12
EFAULT      == 14
EINVAL      == 22
ERESTARTSYS == 512
Errnos == {EPERM, ESRCH, ECHILD, EAGAIN, ENOMEM, EFAULT, EINVAL, ERESTARTSYS}

ASSUME PidsAssumption == /\ InitPid \in Pids
                         /\ Pids \subseteq (Nat \ {0})
ASSUME ArgsAssumption == /\ PidArgs \subseteq Int
                         /\ SizeArgs \subseteq Int
                         /\ LevelArgs \subseteq Int
                         /\ Passwords \subseteq Int
ASSUME HeapAssumption == NULL \notin LogIds /\ UNINIT \notin ArrIds
ASSUME BoundAssumption == MaxJiffies \in Nat /\ LogLargeEnough \in BOOLEAN

VARIABLES task,      \* task[p]: the fields of p's task_struct that matter
          logs,      \* live log headers: block -> struct log_array
          arrays,    \* live record arrays: block -> their contents
          jiffies,
          ret,       \* what the last call returned
          user_mem   \* what the last call copied to the caller

vars == <<task, logs, arrays, jiffies, ret, user_mem>>

Levels  == 0..2
States  == {"free", "running", "waiting", "woken", "zombie"}
Records == [syscall_req_level : 1..2, proc_level : 0..1, time : Nat]

\* A pid get_pid may hand out: no task_struct is hashed under it.
FreeTask == [state |-> "free", parent |-> 0, wait |-> AnyChild,
             policy_on |-> 0, policy_level |-> 2, logArray |-> NULL]

\* The task_struct of init when the first system call is made: do_fork, called
\* for it at boot, has reset the policy fields.
InitTask == [FreeTask EXCEPT !.state = "running"]

Init == /\ task = [p \in Pids |-> IF p = InitPid THEN InitTask ELSE FreeTask]
        /\ logs = [b \in {} |-> NULL]
        /\ arrays = [b \in {} |-> NULL]
        /\ jiffies = 0
        /\ ret = 0
        /\ user_mem = << >>

-----------------------------------------------------------------------------
\* kmalloc gives out a block that is not live, kfree ends its life.
kmalloc(heap, b, v) == [x \in DOMAIN heap \cup {b} |-> IF x = b THEN v
                                                                ELSE heap[x]]
kfree(heap, b) == [x \in DOMAIN heap \ {b} |-> heap[x]]

\* find_task_by_pid: zombies are hashed until release_task.
Hashed == {p \in Pids : task[p].state # "free"}

Running(c) == task[c].state = "running"

Log(p) == logs[task[p].logArray]

Return(v) == ret' = v /\ user_mem' = << >>

\* A call of c that returns v and has done nothing else.
NoEffect(c, v) == /\ Running(c)
                  /\ Return(v)
                  /\ UNCHANGED <<task, logs, arrays, jiffies>>

Fail(c, e) == NoEffect(c, -e)

-----------------------------------------------------------------------------
(***************************************************************************)
(* System call 243, enable_policy.  The wrapper's checks come first; 0 is  *)
(* no error.                                                               *)
(***************************************************************************)
sys_enable_errno(pid, size, password) ==
    IF pid \notin Hashed THEN ESRCH
    ELSE IF \/ password # Password
            \/ task[pid].policy_on = 1
            \/ size < 0
         THEN EINVAL ELSE 0

enable_errno(pid, size, password) ==
    IF pid < 0 THEN ESRCH
    ELSE IF size < 0 THEN EINVAL ELSE sys_enable_errno(pid, size, password)

EnableRefused(c, pid, size, password) ==
    /\ enable_errno(pid, size, password) # 0
    /\ Fail(c, enable_errno(pid, size, password))

\* The header cannot be allocated: the null pointer is stored all the same.
EnableNoHeader(c, pid, size, password) ==
    /\ Running(c)
    /\ enable_errno(pid, size, password) = 0
    /\ task' = [task EXCEPT ![pid].logArray = NULL]
    /\ Return(-ENOMEM)
    /\ UNCHANGED <<logs, arrays, jiffies>>

\* The array cannot be allocated: the header h is freed again, and p keeps
\* pointing at it.
EnableNoArray(c, pid, size, password, h) ==
    /\ Running(c)
    /\ enable_errno(pid, size, password) = 0
    /\ size # 0
    /\ h \notin DOMAIN logs
    /\ task' = [task EXCEPT ![pid].logArray = h]
    /\ logs' = kfree(kmalloc(logs, h, NewLog(0, UNINIT)), h)
    /\ Return(-ENOMEM)
    /\ UNCHANGED <<arrays, jiffies>>

Enabled(t, h) == [t EXCEPT !.policy_on = 1, !.policy_level = 2, !.logArray = h]

EnableOk(c, pid, size, password, h, a) ==
    /\ Running(c)
    /\ enable_errno(pid, size, password) = 0
    /\ h \notin DOMAIN logs
    /\ a \notin DOMAIN arrays
    /\ task' = [task EXCEPT ![pid] = Enabled(@, h)]
    /\ IF size = 0
       THEN /\ logs' = kmalloc(logs, h, NewLog(0, UNINIT))
            /\ arrays' = arrays
       ELSE /\ logs' = kmalloc(logs, h, NewLog(size, a))
            /\ arrays' = kmalloc(arrays, a, NewArray(size))
    /\ Return(0)
    /\ UNCHANGED jiffies

EnablePolicy(c) ==
    \E pid \in PidArgs, size \in SizeArgs, password \in Passwords :
        \/ EnableRefused(c, pid, size, password)
        \/ EnableNoHeader(c, pid, size, password)
        \/ \E h \in LogIds :
              \/ EnableNoArray(c, pid, size, password, h)
              \/ \E a \in ArrIds : EnableOk(c, pid, size, password, h, a)

-----------------------------------------------------------------------------
(***************************************************************************)
(* The heap after p's log is freed, as sys_disable_policy and release_task *)
(* do it.  The task's pointer is not cleared.                              *)
(***************************************************************************)
ArraysWithout(g) == IF g.size # 0 THEN kfree(arrays, g.array) ELSE arrays

LogsWithout(h) == kfree(logs, h)

\* System call 244, disable_policy.
disable_errno(pid, password) ==
    IF pid < 0 \/ pid \notin Hashed THEN ESRCH
    ELSE IF task[pid].policy_on = 0 \/ password # Password THEN EINVAL ELSE 0

Disabled(t) == [t EXCEPT !.policy_on = 0, !.policy_level = 2]

DisableRefused(c, pid, password) ==
    /\ disable_errno(pid, password) # 0
    /\ Fail(c, disable_errno(pid, password))

DisableOk(c, pid, password) ==
    /\ Running(c)
    /\ disable_errno(pid, password) = 0
    /\ task' = [task EXCEPT ![pid] = Disabled(@)]
    /\ arrays' = ArraysWithout(Log(pid))
    /\ logs' = LogsWithout(task[pid].logArray)
    /\ Return(0)
    /\ UNCHANGED jiffies

DisablePolicy(c) ==
    \E pid \in PidArgs, password \in Passwords :
        DisableRefused(c, pid, password) \/ DisableOk(c, pid, password)

-----------------------------------------------------------------------------
\* System call 245, set_process_capabilities.
capabilities_errno_NoRange(pid, new_level, password) ==
    IF pid < 0 \/ pid \notin Hashed THEN ESRCH
    ELSE IF password # Password \/ task[pid].policy_on = 0 THEN EINVAL ELSE 0

capabilities_errno(pid, new_level, password) ==
    IF pid < 0 \/ pid \notin Hashed THEN ESRCH
    ELSE IF \/ new_level > 2 \/ new_level < 0
            \/ password # Password
            \/ task[pid].policy_on = 0
         THEN EINVAL ELSE 0

SetRefused(c, pid, new_level, password) ==
    /\ capabilities_errno(pid, new_level, password) # 0
    /\ Fail(c, capabilities_errno(pid, new_level, password))

SetOk(c, pid, new_level, password) ==
    /\ Running(c)
    /\ capabilities_errno(pid, new_level, password) = 0
    /\ task' = [task EXCEPT ![pid].policy_level = new_level]
    /\ Return(0)
    /\ UNCHANGED <<logs, arrays, jiffies>>

SetProcessCapabilities(c) ==
    \E pid \in PidArgs, new_level \in LevelArgs, password \in Passwords :
        \/ SetRefused(c, pid, new_level, password)
        \/ SetOk(c, pid, new_level, password)

-----------------------------------------------------------------------------
(***************************************************************************)
(* System call 246, get_process_log.  The wrapper answers 0 to a request   *)
(* for no records without entering the kernel.                             *)
(***************************************************************************)
get_log_errno(pid, size) ==
    IF pid < 0 \/ pid \notin Hashed THEN ESRCH
    ELSE IF task[pid].policy_on = 0 \/ ~Enough(Log(pid), size)
         THEN EINVAL ELSE 0

EntersKernel_Always(size) == TRUE

EntersKernel(size) == size # 0

\* pid < 0 is looked at before size == 0.
GetNothing(c, pid, size) ==
    /\ pid >= 0 /\ ~EntersKernel(size)
    /\ NoEffect(c, 0)

GetRefused(c, pid, size) ==
    /\ pid < 0 \/ EntersKernel(size)
    /\ get_log_errno(pid, size) # 0
    /\ Fail(c, get_log_errno(pid, size))

GetNoMem(c, pid, size) ==
    /\ EntersKernel(size)
    /\ get_log_errno(pid, size) = 0
    /\ Fail(c, ENOMEM)

\* The records do not reach user_mem: indexRead goes back to prev_indexRead.
GetFault(c, pid, size) ==
    /\ Running(c)
    /\ EntersKernel(size)
    /\ get_log_errno(pid, size) = 0
    /\ logs' = [logs EXCEPT ![task[pid].logArray] = RestoreRead(@, size)]
    /\ Return(-ENOMEM)
    /\ UNCHANGED <<task, arrays, jiffies>>

GetOk(c, pid, size) ==
    /\ Running(c)
    /\ EntersKernel(size)
    /\ get_log_errno(pid, size) = 0
    /\ user_mem' = ReadRecords(Log(pid), arrays[Log(pid).array], size)
    /\ logs' = [logs EXCEPT ![task[pid].logArray] = FinishRead(@, size)]
    /\ ret' = 0
    /\ UNCHANGED <<task, arrays, jiffies>>

GetProcessLog(c) ==
    \E pid \in PidArgs, size \in SizeArgs :
        \/ GetNothing(c, pid, size)
        \/ GetRefused(c, pid, size)
        \/ GetNoMem(c, pid, size)
        \/ GetFault(c, pid, size)
        \/ GetOk(c, pid, size)

-----------------------------------------------------------------------------
(***************************************************************************)
(* The hook of do_fork, sys_wait4 and sys_sched_yield: a process whose     *)
(* policy is on and whose level is below req gets a record and -EINVAL.    *)
(* A log of size 0 has no array to write to; that case, and under          *)
(* LogLargeEnough a log with no room, is what the comment at each hook     *)
(* assumes away.                                                           *)
(***************************************************************************)
Forbidden(c, req) == task[c].policy_on = 1 /\ task[c].policy_level < req

HasRoom(g) == g.size # 0 /\ (LogLargeEnough => Count(g) < g.size)

Denied(c, req) ==
    LET g   == Log(c)
        rec == Record(req, task[c].policy_level, jiffies)
    IN  /\ Running(c)
        /\ Forbidden(c, req)
        /\ HasRoom(g)
        /\ arrays' = [arrays EXCEPT ![g.array] = PutArray(g, @, rec)]
        /\ logs' = [logs EXCEPT ![task[c].logArray] = PutLog(@)]
        /\ Return(-EINVAL)
        /\ UNCHANGED <<task, jiffies>>

-----------------------------------------------------------------------------
(***************************************************************************)
(* sys_sched_yield.  Its work on the run queue leaves this state alone.    *)
(***************************************************************************)
YieldOk(c) == ~Forbidden(c, 1) /\ NoEffect(c, 0)

SchedYield(c) == Denied(c, 1) \/ YieldOk(c)

\* do_fork copies current and resets the policy fields of the copy.
Child_Inherits(c) == [task[c] EXCEPT !.state = "running", !.parent = c,
                                     !.policy_level = 2]

Child(c) == [task[c] EXCEPT !.state = "running", !.parent = c,
                            !.policy_level = 2, !.policy_on = 0,
                            !.logArray = NULL]

(***************************************************************************)
(* do_fork: bad flags (EINVAL, EPERM), limits (EAGAIN) and allocation      *)
(* (ENOMEM) end it with the new task_struct freed; otherwise the child     *)
(* starts with no policy.                                                  *)
(***************************************************************************)
ForkFails(c, e) == ~Forbidden(c, 2) /\ Fail(c, e)

ForkOk(c, child) ==
    /\ Running(c)
    /\ ~Forbidden(c, 2)
    /\ child \notin Hashed
    /\ task' = [task EXCEPT ![child] = Child(c)]
    /\ Return(child)
    /\ UNCHANGED <<logs, arrays, jiffies>>

Fork(c) == \/ Denied(c, 2)
           \/ \E e \in {EINVAL, EPERM, EAGAIN, ENOMEM} : ForkFails(c, e)
           \/ \E child \in Pids : ForkOk(c, child)

-----------------------------------------------------------------------------
(***************************************************************************)
(* do_exit and exit_notify: the children of c go to init, c becomes a      *)
(* zombie and keeps its policy, and a parent asleep in sys_wait4 is woken  *)
(* for c and for every zombie it inherits.                                 *)
(***************************************************************************)
Orphans_Living(c) ==
    {q \in Hashed : task[q].parent = c /\ task[q].state # "zombie"}

Orphans(c) == {q \in Hashed : task[q].parent = c}

Notified_InitOnly(c) == {InitPid}

Notified(c) == {task[c].parent} \cup
               (IF \E q \in Orphans(c) : task[q].state = "zombie"
                THEN {InitPid} ELSE {})

Wake(t) == [t EXCEPT !.state = IF @ = "waiting" THEN "woken" ELSE @]

AfterExit(c, q) ==
    LET t == task[q]
        r == IF q \in Orphans(c) THEN [t EXCEPT !.parent = InitPid] ELSE t
    IN  IF q = c THEN [t EXCEPT !.state = "zombie"]
        ELSE IF q \in Notified(c) THEN Wake(r) ELSE r

Exit(c) == /\ Running(c)
           /\ c # InitPid
           /\ task' = [q \in Pids |-> AfterExit(c, q)]
           /\ UNCHANGED <<logs, arrays, jiffies, ret, user_mem>>

-----------------------------------------------------------------------------
(***************************************************************************)
(* sys_wait4.  Matching are the children of c that its pid argument w      *)
(* selects; WaitLoop is one pass from the label repeat.                    *)
(***************************************************************************)
Matching(c, w) == {q \in Hashed : task[q].parent = c /\ w \in {AnyChild, q}}

Zombies(c, w) == {q \in Matching(c, w) : task[q].state = "zombie"}

EndWait_NoReset(t) == t

\* current's state and wait queue entry at end_wait4
EndWait(t) == [t EXCEPT !.state = "running", !.wait = AnyChild]

\* release_task, called by the waiting parent c for the zombie z; it is a
\* BUG() for z to be current.
Reap(c, z) ==
    /\ z # c
    /\ task' = [task EXCEPT ![z] = FreeTask, ![c] = EndWait(@)]
    /\ IF task[z].policy_on # 0
       THEN /\ arrays' = ArraysWithout(Log(z))
            /\ logs' = LogsWithout(task[z].logArray)
       ELSE UNCHANGED <<logs, arrays>>
    /\ Return(z)
    /\ UNCHANGED jiffies

WaitReturns(c, v) == /\ task' = [task EXCEPT ![c] = EndWait(@)]
                     /\ Return(v)
                     /\ UNCHANGED <<logs, arrays, jiffies>>

\* current's state and wait queue entry when schedule() is called
Asleep(t, w) == [t EXCEPT !.state = "waiting", !.wait = w]

WaitSleeps(c, w) ==
    /\ task' = [task EXCEPT ![c] = Asleep(@, w)]
    /\ UNCHANGED <<logs, arrays, jiffies, ret, user_mem>>

WaitReap(c, w) == \E z \in Zombies(c, w) : Reap(c, z)

WaitFault(c, w) == Zombies(c, w) # {} /\ WaitReturns(c, -EFAULT)

WaitSignalled(c, w) == /\ Zombies(c, w) = {} /\ Matching(c, w) # {}
                       /\ WaitReturns(c, -ERESTARTSYS)

WaitBlocks(c, w) == /\ Zombies(c, w) = {} /\ Matching(c, w) # {}
                    /\ WaitSleeps(c, w)

WaitNoChild(c, w) == Matching(c, w) = {} /\ WaitReturns(c, -ECHILD)

WaitLoop(c, w) == \/ WaitReap(c, w)
                  \/ WaitFault(c, w)
                  \/ WaitSignalled(c, w)
                  \/ WaitBlocks(c, w)
                  \/ WaitNoChild(c, w)

\* A new call; WNOHANG turns a pass with living children only into a return
\* of 0, and options that do not exist end the call at once.
WaitBegins_NoHook(c, w) == Running(c) /\ WaitLoop(c, w)

WaitBegins(c, w) == Running(c) /\ ~Forbidden(c, 1) /\ WaitLoop(c, w)

WaitNoHang(c, w) == /\ Running(c) /\ ~Forbidden(c, 1)
                    /\ Zombies(c, w) = {} /\ Matching(c, w) # {}
                    /\ WaitReturns(c, 0)

WaitBadOptions(c) == ~Forbidden(c, 1) /\ Fail(c, EINVAL)

\* schedule() returns to a call that slept: after a wake-up, or for a signal.
WaitRepeats(c) == task[c].state = "woken" /\ WaitLoop(c, task[c].wait)

WaitInterrupted(c) == /\ task[c].state = "waiting"
                      /\ WaitSignalled(c, task[c].wait)

Wait4(c) == \/ Denied(c, 1)
            \/ \E w \in Pids \cup {AnyChild} :
                  \/ WaitBegins(c, w)
                  \/ WaitNoHang(c, w)
            \/ WaitBadOptions(c)
            \/ WaitRepeats(c)
            \/ WaitInterrupted(c)

-----------------------------------------------------------------------------
Tick == /\ jiffies < MaxJiffies
        /\ jiffies' = jiffies + 1
        /\ UNCHANGED <<task, logs, arrays, ret, user_mem>>

Next == \/ Tick
        \/ \E c \in Pids : \/ EnablePolicy(c)
                           \/ DisablePolicy(c)
                           \/ SetProcessCapabilities(c)
                           \/ GetProcessLog(c)
                           \/ SchedYield(c)
                           \/ Fork(c)
                           \/ Exit(c)
                           \/ Wait4(c)

Spec == Init /\ [][Next]_vars

\* A woken task is on the run queue and gets the CPU some time.
LiveSpec == Spec /\ \A c \in Pids : WF_vars(WaitRepeats(c))

-----------------------------------------------------------------------------
Owners == {p \in Pids : task[p].policy_on = 1}

(***************************************************************************)
(* Types.  A live header's array pointer is an array block, or was never   *)
(* assigned because the size is 0.                                         *)
(***************************************************************************)
LogRecs == [indexWrite : Nat, indexRead : Nat, size : Nat, full : {0, 1},
            array : ArrIds \cup {UNINIT}]

Tasks == [state : States, parent : Pids \cup {0}, wait : Pids \cup {AnyChild},
          policy_on : {0, 1}, policy_level : Levels,
          logArray : LogIds \cup {NULL}]

TypeOK == /\ task \in [Pids -> Tasks]
          /\ DOMAIN logs \subseteq LogIds
          /\ logs \in [DOMAIN logs -> LogRecs]
          /\ DOMAIN arrays \subseteq ArrIds
          /\ \A a \in DOMAIN arrays : DOMAIN arrays[a] \subseteq Nat
          /\ jiffies \in Nat
          /\ ret \in Int

(***************************************************************************)
(* Ownership of the heap, over every order of enable_policy (with either   *)
(* kmalloc failing), disable_policy, fork, exit and release_task: a header *)
(* is live exactly while one task with its policy on points at it, and an  *)
(* array exactly while one live header of non-zero size does.  So nothing  *)
(* leaks, nothing live is freed, nothing is freed twice and no two tasks   *)
(* share a log, although disabled tasks keep stale pointers.               *)
(***************************************************************************)
HeapOwned ==
    /\ \A p \in Owners : task[p].logArray \in DOMAIN logs
    /\ \A l \in DOMAIN logs : \E p \in Owners : task[p].logArray = l
    /\ \A p, q \in Owners : task[p].logArray = task[q].logArray => p = q
    /\ \A l \in DOMAIN logs : logs[l].size # 0 => logs[l].array \in DOMAIN arrays
    /\ \A a \in DOMAIN arrays :
          \E l \in DOMAIN logs : logs[l].size # 0 /\ logs[l].array = a
    /\ \A l, m \in DOMAIN logs :
          /\ logs[l].size # 0 /\ logs[m].size # 0
          /\ logs[l].array = logs[m].array
          => l = m

(***************************************************************************)
(* Every slot a hook writes or get_process_log copies lies in the array,   *)
(* the array is as long as the header says, and every record that is still *)
(* to be read was written by a hook for a call above the process's level.  *)
(***************************************************************************)
InRange(g) == /\ 0 <= g.indexRead /\ 0 <= g.indexWrite
              /\ g.size # 0 => g.indexRead < g.size /\ g.indexWrite < g.size
              /\ g.size = 0 => g.indexRead = 0 /\ g.indexWrite = 0 /\ g.full = 0

Justified(r) == r \in Records /\ r.proc_level < r.syscall_req_level

RingSafe == \A l \in DOMAIN logs :
    LET g == logs[l] IN
    /\ InRange(g)
    /\ g.size # 0 =>
          /\ DOMAIN arrays[g.array] = 0..(g.size - 1)
          /\ \A j \in 1..Count(g) : Justified(Contents(g, arrays[g.array])[j])

(***************************************************************************)
(* No lost wake-up: a task asleep in sys_wait4 has no zombie child that    *)
(* its call selects, although children are inherited as zombies when their *)
(* parent exits; and it always has a child left to be woken by.            *)
(***************************************************************************)
NoLostWakeup == \A p \in Pids :
    task[p].state = "waiting" => /\ Zombies(p, task[p].wait) = {}
                                 /\ Matching(p, task[p].wait) # {}

(***************************************************************************)
(* A process asleep in sys_wait4 one of whose selected children dies, or   *)
(* is inherited dead, gets out of the call: the wake-up of exit_notify is  *)
(* never missed, whatever happens to its policy meanwhile.                 *)
(***************************************************************************)
InWait(p) == task[p].state \in {"waiting", "woken"}

WaitAnswered == \A p \in Pids :
    (InWait(p) /\ Zombies(p, task[p].wait) # {}) ~> ~InWait(p)

(***************************************************************************)
(* Every process but init has a parent that can still reap it: exit never  *)
(* leaves a child with a parent that is gone or a zombie.                  *)
(***************************************************************************)
ParentAlive == \A p \in Hashed \ {InitPid} :
    task[p].parent \in Hashed /\ task[task[p].parent].state # "zombie"

(***************************************************************************)
(* The ring, the heap and the pointers implement the promise of PolicySpec.*)
(***************************************************************************)
Phase(st) == CASE st = "running" -> "active"
               [] st \in {"waiting", "woken"} -> "waiting"
               [] st = "zombie" -> "dead"
               [] st = "free" -> "free"

AbsProc(p) ==
    LET t == task[p] IN
    IF t.policy_on = 0
    THEN [phase |-> Phase(t.state), on |-> FALSE, level |-> 2, cap |-> 0,
          queue |-> << >>]
    ELSE [phase |-> Phase(t.state), on |-> TRUE, level |-> t.policy_level,
          cap |-> Log(p).size,
          queue |-> Contents(Log(p), arrays[Log(p).array])]

Abs == INSTANCE PolicySpec WITH
           Sizes  <- SizeArgs,
           proc   <- [p \in Pids |-> AbsProc(p)],
           now    <- jiffies,
           handed <- user_mem

Refines == Abs!Spec
==============================================================================
