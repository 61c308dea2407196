--------------------------- MODULE PolicySysProofs ---------------------------
(***************************************************************************)
(* Proofs about PolicySys, for any set of pids, any heap and any arguments.*)
(***************************************************************************)
EXTENDS PolicySys, TLAPS

\* The initial state has the types TypeOK gives.
LEMMA TypeInit == Init => TypeOK
BY PidsAssumption
DEF Init, TypeOK, Tasks, States, Levels, FreeTask, InitTask, InitPid, AnyChild

\* Every change the calls make to a task_struct keeps its type.
LEMMA TaskTypes ==
    ASSUME NEW t \in Tasks
    PROVE  /\ FreeTask \in Tasks /\ Disabled(t) \in Tasks
           /\ EndWait(t) \in Tasks /\ Wake(t) \in Tasks
           /\ \A h \in LogIds : Enabled(t, h) \in Tasks
           /\ \A l \in Levels : [t EXCEPT !.policy_level = l] \in Tasks
           /\ \A h \in LogIds \cup {NULL} : [t EXCEPT !.logArray = h] \in Tasks
           /\ \A w \in Pids \cup {AnyChild} : Asleep(t, w) \in Tasks
<1>1. 2 \in Levels
  BY DEF Levels
<1>2. FreeTask \in Tasks
  BY <1>1 DEF FreeTask, Tasks, States
<1>3. Disabled(t) \in Tasks /\ \A h \in LogIds : Enabled(t, h) \in Tasks
  BY <1>1 DEF Disabled, Enabled, Tasks
<1>4. EndWait(t) \in Tasks
  BY DEF EndWait, Tasks, States
<1>5. \A w \in Pids \cup {AnyChild} : Asleep(t, w) \in Tasks
  BY DEF Asleep, Tasks, States
<1>6. Wake(t) \in Tasks
  BY DEF Wake, Tasks, States
<1>7. /\ \A l \in Levels : [t EXCEPT !.policy_level = l] \in Tasks
      /\ \A h \in LogIds \cup {NULL} : [t EXCEPT !.logArray = h] \in Tasks
  BY DEF Tasks
<1>8. QED
  BY <1>2, <1>3, <1>4, <1>5, <1>6, <1>7

\* What do_fork gives a child is a task_struct.
LEMMA ChildType == ASSUME TypeOK, NEW c \in Pids PROVE Child(c) \in Tasks
<1>1. 2 \in Levels
  BY DEF Levels
<1>2. task[c] \in Tasks
  BY DEF TypeOK
<1>3. QED
  BY <1>1, <1>2 DEF Child, Tasks, States

\* A header the hooks or get_process_log have moved on is a header.
LEMMA LogTypes ==
    ASSUME NEW g \in LogRecs
    PROVE  /\ PutLog(g) \in LogRecs
           /\ \A k \in Int : Enough(g, k) =>
                 FinishRead(g, k) \in LogRecs /\ RestoreRead(g, k) \in LogRecs
<1>1. PutLog(g) \in LogRecs
  <2>1. Advance(g.indexWrite, g.size) \in Nat
    BY DEF LogRecs, Advance
  <2>2. QED
    BY <2>1 DEF LogRecs, PutLog
<1>2. ASSUME NEW k \in Int, Enough(g, k)
      PROVE  FinishRead(g, k) \in LogRecs /\ RestoreRead(g, k) \in LogRecs
  <2>1. Slot(g, k) \in Nat
    BY <1>2 DEF Enough, Slot, LogRecs
  <2>2. AfterLoop(g, k) \in LogRecs
    BY <2>1 DEF AfterLoop, LogRecs
  <2>3. QED
    BY <2>2 DEF FinishRead, RestoreRead, LogRecs
<1>3. QED
  BY <1>1, <1>2

\* Freeing a policy's log keeps the types of the heap.
LEMMA FreeTypes ==
    ASSUME TypeOK, NEW h, NEW g
    PROVE  /\ DOMAIN LogsWithout(h) \subseteq LogIds
           /\ LogsWithout(h) \in [DOMAIN LogsWithout(h) -> LogRecs]
           /\ DOMAIN ArraysWithout(g) \subseteq ArrIds
           /\ \A a \in DOMAIN ArraysWithout(g) :
                 DOMAIN ArraysWithout(g)[a] \subseteq Nat
BY DEF TypeOK, LogsWithout, ArraysWithout, kfree

\* Every step keeps the types.
LEMMA TypeStep == TypeOK /\ [Next]_vars => TypeOK'
<1> SUFFICES ASSUME TypeOK, [Next]_vars PROVE TypeOK'
  OBVIOUS
<1> USE PidsAssumption, ArgsAssumption
<1>1. CASE UNCHANGED vars
  BY <1>1 DEF TypeOK, vars
<1>2. CASE Tick
  BY <1>2 DEF TypeOK, Tick
<1>3. ASSUME NEW c \in Pids, NEW v \in Int, NoEffect(c, v) PROVE TypeOK'
  BY <1>3 DEF TypeOK, NoEffect, Return
<1>e. /\ \A e \in Errnos : -e \in Int
      /\ {-ENOMEM, -EINVAL, -EFAULT, -ECHILD, -ERESTARTSYS} \subseteq Int
  BY DEF Errnos, EPERM, ESRCH, ECHILD, EAGAIN, ENOMEM, EFAULT, EINVAL,
         ERESTARTSYS
<1>4. ASSUME NEW c \in Pids, NEW e \in Errnos, Fail(c, e) PROVE TypeOK'
  BY <1>3, <1>4, <1>e DEF Fail
<1>5. ASSUME NEW c \in Pids, EnablePolicy(c) PROVE TypeOK'
  <2>1. PICK pid \in PidArgs, size \in SizeArgs, password \in Passwords :
           \/ EnableRefused(c, pid, size, password)
           \/ EnableNoHeader(c, pid, size, password)
           \/ \E h \in LogIds :
                 \/ EnableNoArray(c, pid, size, password, h)
                 \/ \E a \in ArrIds : EnableOk(c, pid, size, password, h, a)
    BY <1>5 DEF EnablePolicy
  <2>2. CASE EnableRefused(c, pid, size, password)
    <3>1. enable_errno(pid, size, password) \in Errnos
      BY <2>2 DEF EnableRefused, enable_errno, sys_enable_errno, Errnos
    <3>2. QED
      BY <1>4, <2>2, <3>1 DEF EnableRefused
  <2>3. enable_errno(pid, size, password) = 0 => pid \in Pids /\ size \in Nat
    BY DEF enable_errno, sys_enable_errno, Hashed, ESRCH, EINVAL
  <2>4. CASE EnableNoHeader(c, pid, size, password)
    <3>1. task' \in [Pids -> Tasks]
      BY <2>3, <2>4, TaskTypes DEF EnableNoHeader, TypeOK
    <3>2. QED
      BY <2>4, <3>1, <1>e DEF EnableNoHeader, TypeOK, Return
  <2>5. ASSUME NEW h \in LogIds, EnableNoArray(c, pid, size, password, h)
        PROVE  TypeOK'
    <3>1. logs' = logs
      BY <2>5 DEF EnableNoArray, TypeOK, kfree, kmalloc
    <3>2. task' \in [Pids -> Tasks]
      BY <2>3, <2>5, TaskTypes DEF EnableNoArray, TypeOK
    <3>3. QED
      BY <2>5, <3>1, <3>2, <1>e DEF EnableNoArray, TypeOK, Return
  <2>6. ASSUME NEW h \in LogIds, NEW a \in ArrIds,
               EnableOk(c, pid, size, password, h, a)
        PROVE  TypeOK'
    <3>1. task' \in [Pids -> Tasks]
      BY <2>3, <2>6, TaskTypes DEF EnableOk, TypeOK
    <3>2. NewLog(0, UNINIT) \in LogRecs /\ NewLog(size, a) \in LogRecs
      BY <2>3, <2>6 DEF NewLog, LogRecs, EnableOk
    <3>3. DOMAIN logs' \subseteq LogIds /\ logs' \in [DOMAIN logs' -> LogRecs]
      BY <2>6, <3>2 DEF EnableOk, TypeOK, kmalloc
    <3>4. DOMAIN NewArray(size) \subseteq Nat
      BY <2>3, <2>6 DEF NewArray, EnableOk
    <3>5. /\ DOMAIN arrays' \subseteq ArrIds
          /\ \A b \in DOMAIN arrays' : DOMAIN arrays'[b] \subseteq Nat
      BY <2>6, <3>4 DEF EnableOk, TypeOK, kmalloc
    <3>6. QED
      BY <2>6, <3>1, <3>3, <3>5 DEF EnableOk, TypeOK, Return
  <2>7. QED
    BY <2>1, <2>2, <2>4, <2>5, <2>6
<1>6. ASSUME NEW c \in Pids, DisablePolicy(c) PROVE TypeOK'
  <2>1. PICK pid \in PidArgs, password \in Passwords :
           DisableRefused(c, pid, password) \/ DisableOk(c, pid, password)
    BY <1>6 DEF DisablePolicy
  <2>2. CASE DisableRefused(c, pid, password)
    BY <1>4, <2>2 DEF DisableRefused, disable_errno, Errnos
  <2>3. CASE DisableOk(c, pid, password)
    <3>1. task' \in [Pids -> Tasks]
      BY <2>3, TaskTypes DEF DisableOk, TypeOK
    <3>2. QED
      BY <2>3, <3>1, FreeTypes DEF DisableOk, TypeOK, Return
  <2>4. QED
    BY <2>1, <2>2, <2>3
<1>7. ASSUME NEW c \in Pids, SetProcessCapabilities(c) PROVE TypeOK'
  <2>1. PICK pid \in PidArgs, new_level \in LevelArgs, password \in Passwords :
           \/ SetRefused(c, pid, new_level, password)
           \/ SetOk(c, pid, new_level, password)
    BY <1>7 DEF SetProcessCapabilities
  <2>2. CASE SetRefused(c, pid, new_level, password)
    BY <1>4, <2>2 DEF SetRefused, capabilities_errno, Errnos
  <2>3. CASE SetOk(c, pid, new_level, password)
    <3>1. new_level \in Levels /\ pid \in Pids
      BY <2>3 DEF SetOk, capabilities_errno, Levels, Hashed, ESRCH, EINVAL
    <3>2. task' \in [Pids -> Tasks]
      BY <2>3, <3>1, TaskTypes DEF SetOk, TypeOK
    <3>3. QED
      BY <2>3, <3>2 DEF SetOk, TypeOK, Return
  <2>4. QED
    BY <2>1, <2>2, <2>3
<1>8. ASSUME NEW c \in Pids, GetProcessLog(c) PROVE TypeOK'
  <2>1. PICK pid \in PidArgs, size \in SizeArgs :
           \/ GetNothing(c, pid, size)
           \/ GetRefused(c, pid, size)
           \/ GetNoMem(c, pid, size)
           \/ GetFault(c, pid, size)
           \/ GetOk(c, pid, size)
    BY <1>8 DEF GetProcessLog
  <2>2. CASE GetNothing(c, pid, size)
    BY <1>3, <2>2 DEF GetNothing
  <2>3. CASE GetRefused(c, pid, size)
    BY <1>4, <2>3 DEF GetRefused, get_log_errno, Errnos
  <2>4. CASE GetNoMem(c, pid, size)
    BY <1>4, <2>4 DEF GetNoMem, Errnos
  <2>5. get_log_errno(pid, size) = 0 => pid \in Pids /\ Enough(Log(pid), size)
    BY DEF get_log_errno, Hashed, ESRCH, EINVAL
  <2>6. /\ DOMAIN logs' \subseteq LogIds /\ logs' \in [DOMAIN logs' -> LogRecs]
        /\ UNCHANGED <<task, arrays, jiffies>>
        /\ ret' \in {0, -ENOMEM}
        => TypeOK'
    BY <1>e DEF TypeOK
  <2>7. CASE GetFault(c, pid, size)
    <3>1. DOMAIN logs' \subseteq LogIds /\ logs' \in [DOMAIN logs' -> LogRecs]
      BY <2>5, <2>7, LogTypes DEF GetFault, TypeOK, Log
    <3>2. QED
      BY <2>6, <2>7, <3>1 DEF GetFault, Return
  <2>8. CASE GetOk(c, pid, size)
    <3>1. DOMAIN logs' \subseteq LogIds /\ logs' \in [DOMAIN logs' -> LogRecs]
      BY <2>5, <2>8, LogTypes DEF GetOk, TypeOK, Log
    <3>2. QED
      BY <2>6, <2>8, <3>1 DEF GetOk
  <2>9. QED
    BY <2>1, <2>2, <2>3, <2>4, <2>7, <2>8
<1>9. ASSUME NEW c \in Pids, NEW req \in 1..2, Denied(c, req) PROVE TypeOK'
  <2>1. DOMAIN logs' \subseteq LogIds /\ logs' \in [DOMAIN logs' -> LogRecs]
    BY <1>9, LogTypes DEF Denied, TypeOK
  <2>2. /\ DOMAIN arrays' \subseteq ArrIds
        /\ \A b \in DOMAIN arrays' : DOMAIN arrays'[b] \subseteq Nat
    BY <1>9 DEF Denied, TypeOK, PutArray
  <2>3. QED
    BY <1>9, <2>1, <2>2, <1>e DEF Denied, TypeOK, Return
<1>10. ASSUME NEW c \in Pids, SchedYield(c) PROVE TypeOK'
  BY <1>3, <1>9, <1>10 DEF SchedYield, YieldOk
<1>11. ASSUME NEW c \in Pids, Fork(c) PROVE TypeOK'
  <2>1. ASSUME NEW e \in {EINVAL, EPERM, EAGAIN, ENOMEM}, ForkFails(c, e)
        PROVE  TypeOK'
    BY <1>4, <2>1 DEF ForkFails, Errnos
  <2>2. ASSUME NEW child \in Pids, ForkOk(c, child) PROVE TypeOK'
    BY <2>2, ChildType DEF ForkOk, TypeOK, Return
  <2>3. QED
    BY <1>9, <1>11, <2>1, <2>2 DEF Fork
<1>12. ASSUME NEW c \in Pids, Exit(c) PROVE TypeOK'
  <2>1. ASSUME NEW q \in Pids PROVE AfterExit(c, q) \in Tasks
    BY DEF AfterExit, Wake, TypeOK, Tasks, States, InitPid
  <2>2. QED
    BY <1>12, <2>1 DEF Exit, TypeOK
<1>13. ASSUME NEW c \in Pids, Wait4(c) PROVE TypeOK'
  <2> DEFINE W == Pids \cup {AnyChild}
  <2>1. ASSUME NEW w \in W, WaitReap(c, w) PROVE TypeOK'
    <3>1. PICK z \in Pids : Reap(c, z)
      BY <2>1 DEF WaitReap, Zombies, Matching, Hashed
    <3>2. task' \in [Pids -> Tasks]
      BY <3>1, TaskTypes DEF Reap, TypeOK
    <3>3. QED
      BY <3>1, <3>2, FreeTypes DEF Reap, TypeOK, Return
  <2>2. ASSUME NEW v \in Int, WaitReturns(c, v) PROVE TypeOK'
    BY <2>2, TaskTypes DEF WaitReturns, TypeOK, Return
  <2>3. ASSUME NEW w \in W, WaitSleeps(c, w) PROVE TypeOK'
    BY <2>3, TaskTypes DEF WaitSleeps, TypeOK
  <2>4. ASSUME NEW w \in W, WaitLoop(c, w) PROVE TypeOK'
    BY <2>1, <2>2, <2>3, <2>4, <1>e
    DEF WaitLoop, WaitFault, WaitSignalled, WaitBlocks, WaitNoChild
  <2>5. task[c].wait \in W
    BY DEF TypeOK, Tasks
  <2>6. CASE WaitRepeats(c) \/ WaitInterrupted(c)
    BY <2>2, <2>4, <2>5, <2>6, <1>e
    DEF WaitRepeats, WaitInterrupted, WaitSignalled
  <2>7. ASSUME NEW w \in W, WaitBegins(c, w) \/ WaitNoHang(c, w)
        PROVE  TypeOK'
    BY <2>2, <2>4, <2>7 DEF WaitBegins, WaitNoHang
  <2>8. CASE WaitBadOptions(c)
    BY <1>4, <2>8 DEF WaitBadOptions, Errnos
  <2>9. QED
    BY <1>9, <1>13, <2>6, <2>7, <2>8 DEF Wait4
<1>14. QED
  BY <1>1, <1>2, <1>5, <1>6, <1>7, <1>8, <1>10, <1>11, <1>12, <1>13 DEF Next

(***************************************************************************)
(* Type correctness of the policy fields, the heap and the return values.  *)
(***************************************************************************)
THEOREM TypeCorrect == Spec => []TypeOK
BY TypeInit, TypeStep, PTL DEF Spec

-----------------------------------------------------------------------------
(***************************************************************************)
(* Ownership of the heap.  HeapOwned becomes inductive with the fact that  *)
(* an unused pid has no policy, which is what makes it safe for do_fork to *)
(* overwrite it.  Most steps leave owners and blocks as they are: they are *)
(* Neutral.                                                                *)
(***************************************************************************)
FreeOff == \A p \in Pids : task[p].state = "free" => task[p].policy_on = 0

HeapInv == TypeOK /\ HeapOwned /\ FreeOff

SamePolicy == \A p \in Pids :
    /\ task'[p].policy_on = task[p].policy_on
    /\ task[p].policy_on = 1 => task'[p].logArray = task[p].logArray

SameBlocks ==
    /\ DOMAIN logs' = DOMAIN logs
    /\ DOMAIN arrays' = DOMAIN arrays
    /\ \A l \in DOMAIN logs : /\ logs'[l].size = logs[l].size
                              /\ logs'[l].array = logs[l].array

NoNewFree == \A p \in Pids :
    task'[p].state = "free" => task'[p].policy_on = 0

Neutral == SamePolicy /\ SameBlocks /\ NoNewFree

\* A neutral step keeps the ownership of the heap.
LEMMA NeutralStep == HeapInv /\ Neutral => HeapOwned' /\ FreeOff'
<1> SUFFICES ASSUME HeapInv, Neutral PROVE HeapOwned' /\ FreeOff'
  OBVIOUS
<1>1. Owners' = Owners
  BY DEF Neutral, SamePolicy, Owners
<1>2. \A p \in Owners : task'[p].logArray = task[p].logArray
  BY DEF Neutral, SamePolicy, Owners
<1>3. HeapOwned'
  BY <1>1, <1>2 DEF HeapInv, HeapOwned, Neutral, SameBlocks
<1>4. QED
  BY <1>3 DEF Neutral, NoNewFree, FreeOff

\* So does one that leaves the tasks alone and only moves indexes on.
LEMMA NeutralLogs ==
    ASSUME HeapInv, UNCHANGED task, SameBlocks
    PROVE  HeapOwned' /\ FreeOff'
<1>1. SamePolicy /\ NoNewFree
  BY DEF SamePolicy, NoNewFree, HeapInv, FreeOff
<1>2. QED
  BY <1>1, NeutralStep DEF Neutral

\* And one that leaves the heap alone and no policy switched on or off.
LEMMA NeutralTasks ==
    ASSUME HeapInv, UNCHANGED <<logs, arrays>>, SamePolicy, NoNewFree
    PROVE  HeapOwned' /\ FreeOff'
<1>1. SameBlocks
  BY DEF SameBlocks
<1>2. QED
  BY <1>1, NeutralStep DEF Neutral

\* A successful enable_policy: the new header has exactly the new owner.
LEMMA EnableOwned ==
    ASSUME HeapInv,
           NEW c \in Pids, NEW pid \in PidArgs, NEW size \in SizeArgs,
           NEW password \in Passwords, NEW h \in LogIds, NEW a \in ArrIds,
           EnableOk(c, pid, size, password, h, a)
    PROVE  HeapOwned' /\ FreeOff'
<1>1. pid \in Pids /\ task[pid].policy_on # 1 /\ task[pid].state # "free"
  BY DEF EnableOk, enable_errno, sys_enable_errno, Hashed, ESRCH, EINVAL
<1>2. /\ \A p \in Pids \ {pid} : task'[p] = task[p]
      /\ task'[pid].policy_on = 1 /\ task'[pid].logArray = h
      /\ task'[pid].state = task[pid].state
  <2>1. task[pid] \in Tasks /\ DOMAIN task = Pids
    BY <1>1 DEF HeapInv, TypeOK
  <2>2. task' = [task EXCEPT ![pid] = Enabled(task[pid], h)]
    BY DEF EnableOk
  <2>3. task'[pid] = Enabled(task[pid], h)
    BY <1>1, <2>1, <2>2
  <2>4. \A p \in Pids \ {pid} : task'[p] = task[p]
    BY <2>1, <2>2
  <2>5. ASSUME NEW t \in Tasks
        PROVE  /\ Enabled(t, h).policy_on = 1 /\ Enabled(t, h).logArray = h
               /\ Enabled(t, h).state = t.state
    BY DEF Enabled, Tasks
  <2>6. QED
    BY <2>1, <2>3, <2>4, <2>5
<1>3. Owners' = Owners \cup {pid} /\ pid \notin Owners
  BY <1>1, <1>2 DEF Owners
<1>4. /\ DOMAIN logs' = DOMAIN logs \cup {h} /\ h \notin DOMAIN logs
      /\ \A l \in DOMAIN logs : logs'[l] = logs[l]
      /\ logs'[h].size = size
  BY DEF EnableOk, kmalloc, NewLog
<1>5. FreeOff'
  BY <1>1, <1>2 DEF FreeOff, HeapInv
<1>6. CASE size = 0
  <2>1. arrays' = arrays
    BY <1>6 DEF EnableOk
  <2>2. QED
    BY <1>2, <1>3, <1>4, <1>5, <1>6, <2>1 DEF HeapOwned, HeapInv, Owners
<1>7. CASE size # 0
  <2>1. /\ DOMAIN arrays' = DOMAIN arrays \cup {a} /\ a \notin DOMAIN arrays
        /\ logs'[h].array = a
    BY <1>7 DEF EnableOk, kmalloc, NewLog
  <2>2. QED
    BY <1>2, <1>3, <1>4, <1>5, <1>7, <2>1 DEF HeapOwned, HeapInv, Owners
<1>8. QED
  BY <1>6, <1>7

\* Freeing the log of one owner q, who stops being one, frees its blocks and
\* no others.  This is disable_policy and release_task.
LEMMA FreeOwned ==
    ASSUME HeapInv, NEW q \in Owners,
           Owners' = Owners \ {q},
           \A p \in Owners \ {q} : task'[p].logArray = task[p].logArray,
           arrays' = ArraysWithout(Log(q)),
           logs' = LogsWithout(task[q].logArray)
    PROVE  HeapOwned'
<1> DEFINE h == task[q].logArray
<1>1. h \in DOMAIN logs
  BY DEF HeapInv, HeapOwned
<1>2. /\ DOMAIN logs' = DOMAIN logs \ {h}
      /\ \A l \in DOMAIN logs' : logs'[l] = logs[l]
  BY DEF LogsWithout, kfree
<1>3. DOMAIN arrays' = IF logs[h].size # 0 THEN DOMAIN arrays \ {logs[h].array}
                                           ELSE DOMAIN arrays
  BY DEF ArraysWithout, kfree, Log
<1>4. \A p \in Owners' : p \in Owners /\ p # q /\ task'[p].logArray = task[p].logArray
  OBVIOUS
<1>5. \A p \in Owners' : task'[p].logArray \in DOMAIN logs'
  BY <1>2, <1>4 DEF HeapInv, HeapOwned
<1>6. \A l \in DOMAIN logs' : \E p \in Owners' : task'[p].logArray = l
  BY <1>2, <1>4 DEF HeapInv, HeapOwned
<1>7. \A p, r \in Owners' : task'[p].logArray = task'[r].logArray => p = r
  BY <1>4 DEF HeapInv, HeapOwned
<1>8. \A l \in DOMAIN logs' : logs'[l].size # 0 => logs'[l].array \in DOMAIN arrays'
  BY <1>1, <1>2, <1>3 DEF HeapInv, HeapOwned
<1>9. \A a \in DOMAIN arrays' :
         \E l \in DOMAIN logs' : logs'[l].size # 0 /\ logs'[l].array = a
  BY <1>1, <1>2, <1>3 DEF HeapInv, HeapOwned
<1>10. \A l, m \in DOMAIN logs' :
         /\ logs'[l].size # 0 /\ logs'[m].size # 0
         /\ logs'[l].array = logs'[m].array
         => l = m
  BY <1>2 DEF HeapInv, HeapOwned
<1>11. QED
  BY <1>5, <1>6, <1>7, <1>8, <1>9, <1>10 DEF HeapOwned

\* The changes a call makes to a task_struct that do not touch its policy.
LEMMA TaskFields ==
    ASSUME NEW t \in Tasks
    PROVE  /\ EndWait(t).policy_on = t.policy_on
           /\ EndWait(t).logArray = t.logArray
           /\ EndWait(t).state = "running"
           /\ Wake(t).policy_on = t.policy_on
           /\ Wake(t).logArray = t.logArray
           /\ t.state # "free" => Wake(t).state # "free"
           /\ t.state = "free" => Wake(t) = t
           /\ Disabled(t).policy_on = 0
           /\ Disabled(t).state = t.state
           /\ \A w : /\ Asleep(t, w).policy_on = t.policy_on
                     /\ Asleep(t, w).logArray = t.logArray
                     /\ Asleep(t, w).state = "waiting"
BY DEF EndWait, Wake, Disabled, Asleep, Tasks, States

\* Every step keeps the ownership of the heap.
LEMMA HeapStep == HeapInv /\ [Next]_vars => HeapInv'
<1> SUFFICES ASSUME HeapInv, [Next]_vars PROVE HeapOwned' /\ FreeOff'
  BY TypeStep DEF HeapInv
<1> DEFINE Goal == HeapOwned' /\ FreeOff'
<1>t. TypeOK /\ DOMAIN task = Pids /\ \A p \in Pids : task[p] \in Tasks
  BY DEF HeapInv, TypeOK
<1>1. CASE UNCHANGED <<task, logs, arrays>>
  BY <1>1, NeutralLogs DEF SameBlocks
<1>2. ASSUME NEW c \in Pids, NEW v, NoEffect(c, v) PROVE Goal
  BY <1>1, <1>2 DEF NoEffect
<1>3. ASSUME NEW c \in Pids, EnablePolicy(c) PROVE Goal
  <2>1. PICK pid \in PidArgs, size \in SizeArgs, password \in Passwords :
           \/ EnableRefused(c, pid, size, password)
           \/ EnableNoHeader(c, pid, size, password)
           \/ \E h \in LogIds :
                 \/ EnableNoArray(c, pid, size, password, h)
                 \/ \E a \in ArrIds : EnableOk(c, pid, size, password, h, a)
    BY <1>3 DEF EnablePolicy
  <2>2. CASE EnableRefused(c, pid, size, password)
    BY <1>2, <2>2 DEF EnableRefused, Fail
  <2>3. ASSUME NEW x, enable_errno(pid, size, password) = 0,
               task' = [task EXCEPT ![pid].logArray = x],
               UNCHANGED <<logs, arrays>>
        PROVE  Goal
    <3>1. pid \in Pids /\ task[pid].policy_on # 1
      BY <2>3 DEF enable_errno, sys_enable_errno, Hashed, ESRCH, EINVAL
    <3>2. \A p \in Pids : /\ task'[p].policy_on = task[p].policy_on
                          /\ task'[p].state = task[p].state
                          /\ p # pid => task'[p].logArray = task[p].logArray
      BY <1>t, <2>3, <3>1 DEF Tasks
    <3>3. SamePolicy /\ NoNewFree
      BY <3>1, <3>2 DEF SamePolicy, NoNewFree, HeapInv, FreeOff
    <3>4. QED
      BY <2>3, <3>3, NeutralTasks
  <2>4. CASE EnableNoHeader(c, pid, size, password)
    BY <2>3, <2>4 DEF EnableNoHeader
  <2>5. ASSUME NEW h \in LogIds, EnableNoArray(c, pid, size, password, h)
        PROVE  Goal
    <3>1. logs' = logs
      BY <1>t, <2>5 DEF EnableNoArray, TypeOK, kfree, kmalloc
    <3>2. QED
      BY <2>3, <2>5, <3>1 DEF EnableNoArray
  <2>6. QED
    BY <2>1, <2>2, <2>4, <2>5, EnableOwned
<1>4. ASSUME NEW c \in Pids, DisablePolicy(c) PROVE Goal
  <2>1. PICK pid \in PidArgs, password \in Passwords :
           DisableRefused(c, pid, password) \/ DisableOk(c, pid, password)
    BY <1>4 DEF DisablePolicy
  <2>2. CASE DisableRefused(c, pid, password)
    BY <1>2, <2>2 DEF DisableRefused, Fail
  <2>3. CASE DisableOk(c, pid, password)
    <3>1. pid \in Pids /\ task[pid].policy_on = 1
      BY <1>t, <2>3 DEF DisableOk, disable_errno, Hashed, Tasks, ESRCH, EINVAL
    <3>2. /\ \A p \in Pids \ {pid} : task'[p] = task[p]
          /\ task'[pid] = Disabled(task[pid])
      BY <1>t, <2>3, <3>1 DEF DisableOk
    <3>3. task'[pid].policy_on = 0
      BY <1>t, <3>1, <3>2, TaskFields
    <3>4. pid \in Owners /\ Owners' = Owners \ {pid}
      BY <3>1, <3>2, <3>3 DEF Owners
    <3>5. HeapOwned'
      BY <2>3, <3>2, <3>4, FreeOwned DEF DisableOk, Owners
    <3>6. QED
      BY <3>2, <3>3, <3>5 DEF FreeOff, HeapInv
  <2>4. QED
    BY <2>1, <2>2, <2>3
<1>5. ASSUME NEW c \in Pids, SetProcessCapabilities(c) PROVE Goal
  <2>1. PICK pid \in PidArgs, new_level \in LevelArgs, password \in Passwords :
           \/ SetRefused(c, pid, new_level, password)
           \/ SetOk(c, pid, new_level, password)
    BY <1>5 DEF SetProcessCapabilities
  <2>2. CASE SetRefused(c, pid, new_level, password)
    BY <1>2, <2>2 DEF SetRefused, Fail
  <2>3. CASE SetOk(c, pid, new_level, password)
    <3>1. \A p \in Pids : /\ task'[p].policy_on = task[p].policy_on
                          /\ task'[p].state = task[p].state
                          /\ task'[p].logArray = task[p].logArray
      BY <1>t, <2>3 DEF SetOk, Tasks
    <3>2. SamePolicy /\ NoNewFree
      BY <3>1 DEF SamePolicy, NoNewFree, HeapInv, FreeOff
    <3>3. QED
      BY <2>3, <3>2, NeutralTasks DEF SetOk
  <2>4. QED
    BY <2>1, <2>2, <2>3
<1>6. ASSUME NEW c \in Pids, GetProcessLog(c) PROVE Goal
  <2>1. PICK pid \in PidArgs, size \in SizeArgs :
           \/ GetNothing(c, pid, size)
           \/ GetRefused(c, pid, size)
           \/ GetNoMem(c, pid, size)
           \/ GetFault(c, pid, size)
           \/ GetOk(c, pid, size)
    BY <1>6 DEF GetProcessLog
  <2>2. CASE GetNothing(c, pid, size)
    BY <1>2, <2>2 DEF GetNothing
  <2>3. CASE GetRefused(c, pid, size)
    BY <1>2, <2>3 DEF GetRefused, Fail
  <2>4. CASE GetNoMem(c, pid, size)
    BY <1>2, <2>4 DEF GetNoMem, Fail
  <2>5. \A g \in LogRecs : /\ FinishRead(g, size).size = g.size
                           /\ FinishRead(g, size).array = g.array
                           /\ RestoreRead(g, size).size = g.size
                           /\ RestoreRead(g, size).array = g.array
    BY DEF LogRecs, FinishRead, RestoreRead, AfterLoop
  <2>6. CASE GetFault(c, pid, size)
    <3>1. SameBlocks
      BY <1>t, <2>5, <2>6 DEF GetFault, SameBlocks, TypeOK
    <3>2. QED
      BY <2>6, <3>1, NeutralLogs DEF GetFault
  <2>7. CASE GetOk(c, pid, size)
    <3>1. SameBlocks
      BY <1>t, <2>5, <2>7 DEF GetOk, SameBlocks, TypeOK
    <3>2. QED
      BY <2>7, <3>1, NeutralLogs DEF GetOk
  <2>8. QED
    BY <2>1, <2>2, <2>3, <2>4, <2>6, <2>7
<1>7. ASSUME NEW c \in Pids, NEW req \in 1..2, Denied(c, req) PROVE Goal
  <2>1. \A g \in LogRecs : PutLog(g).size = g.size /\ PutLog(g).array = g.array
    BY DEF LogRecs, PutLog
  <2>2. SameBlocks
    BY <1>t, <1>7, <2>1 DEF Denied, SameBlocks, TypeOK
  <2>3. QED
    BY <1>7, <2>2, NeutralLogs DEF Denied
<1>8. ASSUME NEW c \in Pids, SchedYield(c) PROVE Goal
  BY <1>2, <1>7, <1>8 DEF SchedYield, YieldOk
<1>9. ASSUME NEW c \in Pids, Fork(c) PROVE Goal
  <2>1. ASSUME NEW e, ForkFails(c, e) PROVE Goal
    BY <1>2, <2>1 DEF ForkFails, Fail
  <2>2. ASSUME NEW child \in Pids, ForkOk(c, child) PROVE Goal
    <3>1. task[child].policy_on = 0
      BY <2>2 DEF ForkOk, Hashed, HeapInv, FreeOff
    <3>2. Child(c).policy_on = 0
      BY <1>t DEF Child, Tasks
    <3>3. /\ \A p \in Pids \ {child} : task'[p] = task[p]
          /\ task'[child].policy_on = 0
      BY <1>t, <2>2, <3>2 DEF ForkOk
    <3>4. SamePolicy /\ NoNewFree
      BY <3>1, <3>3 DEF SamePolicy, NoNewFree, HeapInv, FreeOff
    <3>5. QED
      BY <2>2, <3>4, NeutralTasks DEF ForkOk
  <2>3. QED
    BY <1>7, <1>9, <2>1, <2>2 DEF Fork
<1>10. ASSUME NEW c \in Pids, Exit(c) PROVE Goal
  <2>1. ASSUME NEW q \in Pids
        PROVE  /\ task'[q].policy_on = task[q].policy_on
               /\ task'[q].logArray = task[q].logArray
               /\ task'[q].state = "free" => task[q].state = "free"
    <3> DEFINE r == [task[q] EXCEPT !.parent = InitPid]
    <3>1. task'[q] = AfterExit(c, q)
      BY <1>10 DEF Exit
    <3>2. task[q] \in Tasks /\ r \in Tasks
      BY <1>t, PidsAssumption DEF Tasks
    <3>3. /\ r.policy_on = task[q].policy_on
          /\ r.logArray = task[q].logArray
          /\ r.state = task[q].state
      BY <3>2 DEF Tasks
    <3>4. q = c => AfterExit(c, q) = [task[q] EXCEPT !.state = "zombie"]
      BY DEF AfterExit
    <3>5. q # c => AfterExit(c, q) \in {r, task[q], Wake(r), Wake(task[q])}
      BY DEF AfterExit
    <3>6. CASE q = c
      BY <3>1, <3>2, <3>4, <3>6 DEF Tasks
    <3>7. CASE q # c
      <4>1. /\ Wake(r).policy_on = r.policy_on
            /\ Wake(r).logArray = r.logArray
            /\ Wake(r).state = "free" => r.state = "free"
        BY <3>2, TaskFields
      <4>2. /\ Wake(task[q]).policy_on = task[q].policy_on
            /\ Wake(task[q]).logArray = task[q].logArray
            /\ Wake(task[q]).state = "free" => task[q].state = "free"
        BY <3>2, TaskFields
      <4>3. QED
        BY <3>1, <3>3, <3>5, <3>7, <4>1, <4>2
    <3>8. QED
      BY <3>6, <3>7
  <2>2. SamePolicy /\ NoNewFree
    BY <2>1 DEF SamePolicy, NoNewFree, HeapInv, FreeOff
  <2>3. QED
    BY <1>10, <2>2, NeutralTasks DEF Exit
<1>11. ASSUME NEW c \in Pids, Wait4(c) PROVE Goal
  <2>1. ASSUME NEW z \in Pids, Reap(c, z) PROVE Goal
    <3>1. /\ \A p \in Pids \ {z} : /\ task'[p].policy_on = task[p].policy_on
                                   /\ task'[p].logArray = task[p].logArray
          /\ \A p \in Pids \ {c, z} : task'[p] = task[p]
          /\ task'[c].state = "running"
          /\ task'[z].policy_on = 0
      <4>1. /\ \A p \in Pids \ {c, z} : task'[p] = task[p]
            /\ task'[c] = EndWait(task[c]) /\ task'[z] = FreeTask
        BY <1>t, <2>1 DEF Reap
      <4>2. FreeTask.policy_on = 0 /\ FreeTask \in Tasks
        BY <1>t, TaskTypes DEF FreeTask
      <4>3. QED
        BY <1>t, <4>1, <4>2, TaskFields
    <3>2. FreeOff'
      BY <3>1 DEF FreeOff, HeapInv
    <3>3. CASE task[z].policy_on = 0
      <4>1. SamePolicy /\ NoNewFree
        BY <3>1, <3>2, <3>3 DEF SamePolicy, NoNewFree, FreeOff
      <4>2. QED
        BY <2>1, <3>3, <4>1, NeutralTasks DEF Reap
    <3>4. CASE task[z].policy_on # 0
      <4>1. z \in Owners /\ Owners' = Owners \ {z}
        BY <1>t, <3>1, <3>4 DEF Owners, Tasks
      <4>2. HeapOwned'
        BY <2>1, <3>1, <3>4, <4>1, FreeOwned DEF Reap, Owners
      <4>3. QED
        BY <3>2, <4>2
    <3>5. QED
      BY <3>3, <3>4
  <2>2. ASSUME NEW t \in Tasks, t.policy_on = task[c].policy_on,
               t.logArray = task[c].logArray, t.state # "free",
               task' = [task EXCEPT ![c] = t], UNCHANGED <<logs, arrays>>
        PROVE  Goal
    <3>1. SamePolicy /\ NoNewFree
      BY <1>t, <2>2 DEF SamePolicy, NoNewFree, HeapInv, FreeOff
    <3>2. QED
      BY <2>2, <3>1, NeutralTasks
  <2>3. ASSUME NEW v, WaitReturns(c, v) PROVE Goal
    BY <1>t, <2>2, <2>3, TaskFields, TaskTypes DEF WaitReturns
  <2>4. ASSUME NEW w \in Pids \cup {AnyChild}, WaitSleeps(c, w) PROVE Goal
    <3>1. /\ Asleep(task[c], w) \in Tasks
          /\ Asleep(task[c], w).policy_on = task[c].policy_on
          /\ Asleep(task[c], w).logArray = task[c].logArray
          /\ Asleep(task[c], w).state = "waiting"
      <4>1. Asleep(task[c], w) \in Tasks
        BY <1>t, TaskTypes
      <4>2. QED
        BY <1>t, <4>1 DEF Asleep, Tasks
    <3>2. QED
      BY <2>2, <2>4, <3>1 DEF WaitSleeps
  <2>5. ASSUME NEW w \in Pids \cup {AnyChild}, WaitLoop(c, w) PROVE Goal
    BY <2>1, <2>3, <2>4, <2>5
    DEF WaitLoop, WaitReap, WaitFault, WaitSignalled, WaitBlocks, WaitNoChild,
        Zombies, Matching, Hashed
  <2>6. task[c].wait \in Pids \cup {AnyChild}
    BY <1>t DEF Tasks
  <2>7. CASE WaitRepeats(c) \/ WaitInterrupted(c)
    BY <2>3, <2>5, <2>6, <2>7 DEF WaitRepeats, WaitInterrupted, WaitSignalled
  <2>8. ASSUME NEW w \in Pids \cup {AnyChild},
               WaitBegins(c, w) \/ WaitNoHang(c, w)
        PROVE  Goal
    BY <2>3, <2>5, <2>8 DEF WaitBegins, WaitNoHang
  <2>9. CASE WaitBadOptions(c)
    BY <1>2, <2>9 DEF WaitBadOptions, Fail
  <2>10. QED
    BY <1>7, <1>11, <2>7, <2>8, <2>9 DEF Wait4
<1>12. QED
  BY <1>1, <1>3, <1>4, <1>5, <1>6, <1>8, <1>9, <1>10, <1>11
  DEF Next, Tick, vars

\* Nothing is allocated and nobody has a policy at the start.
LEMMA HeapInit == Init => HeapInv
<1> SUFFICES ASSUME Init PROVE HeapOwned /\ FreeOff
  BY TypeInit DEF HeapInv
<1>1. \A p \in Pids : task[p].policy_on = 0
  BY DEF Init, InitTask, FreeTask
<1>2. QED
  BY <1>1 DEF Init, HeapOwned, FreeOff, Owners

(***************************************************************************)
(* No leak, no double free, no sharing, no use of a freed log: HeapOwned   *)
(* holds in every state, for any number of processes and any heap.         *)
(***************************************************************************)
THEOREM HeapIsOwned == Spec => []HeapOwned
<1>1. Spec => []HeapInv
  BY HeapInit, HeapStep, PTL DEF Spec
<1>2. HeapInv => HeapOwned
  BY DEF HeapInv
<1>3. QED
  BY <1>1, <1>2, PTL
==============================================================================
