------------------------- MODULE PolicyRefineProofs -------------------------
(***************************************************************************)
(* The pointers, the heap and the rings of PolicySys implement PolicySpec: *)
(* initial states map to initial states, and each step to a step or to no  *)
(* change, for any pids, sizes of logs and heaps.  The promise holds where *)
(* the hooks' assumption holds, that the log is large enough.              *)
(***************************************************************************)
EXTENDS PolicyRingProofs, SequenceTheorems

\* A ring that has not overflowed is full only where the indexes meet.
Meets(g) == g.full = 1 => g.indexWrite = g.indexRead

-----------------------------------------------------------------------------
(***************************************************************************)
(* What a ring stands for: the three operations on it are those of a       *)
(* queue.                                                                  *)
(***************************************************************************)
LEMMA CountBound ==
    ASSUME NEW g \in LogRecs, InRange(g)
    PROVE  /\ Count(g) \in 0..g.size /\ g.size \in Nat
           /\ g.size # 0 => /\ g.indexWrite \in 0..(g.size - 1)
                            /\ g.indexRead \in 0..(g.size - 1)
BY DEF InRange, Count, LogRecs

LEMMA ContentsLength ==
    ASSUME NEW g \in LogRecs, InRange(g), NEW arr
    PROVE  /\ Len(Contents(g, arr)) = Count(g)
           /\ Contents(g, arr) \in Seq({arr[i] : i \in Int})
           /\ \A j \in 1..Count(g) : Contents(g, arr)[j] = arr[Slot(g, j - 1)]
<1>n. PICK n \in Nat : n = Count(g)
  BY CountBound
<1>c. PICK q : q = Contents(g, arr)
  OBVIOUS
<1>1. q = [j \in 1..n |-> arr[Slot(g, j - 1)]]
  BY <1>c, <1>n DEF Contents, ReadRecords
<1>2. \A j \in 1..n : Slot(g, j - 1) \in Int
  BY DEF Slot, LogRecs
<1>3. q \in [1..n -> {arr[i] : i \in Int}]
  BY <1>1, <1>2
<1>4. Len(q) = n /\ q \in Seq({arr[i] : i \in Int})
  BY <1>3
<1>5. QED
  BY <1>1, <1>4, <1>c, <1>n

\* A log of size 0 holds nothing, wherever its pointer leads.
LEMMA ContentsNone ==
    ASSUME NEW g \in LogRecs, InRange(g), g.size = 0, NEW arr
    PROVE  Contents(g, arr) = << >>
<1>1. Count(g) = 0
  BY CountBound
<1>q. PICK q \in Seq({arr[i] : i \in Int}) : q = Contents(g, arr) /\ Len(q) = 0
  BY <1>1, ContentsLength
<1>2. q = << >>
  BY <1>q, EmptySeq
<1>3. QED
  BY <1>2, <1>q

LEMMA ContentsPut ==
    ASSUME NEW g \in LogRecs, NEW arr, NEW rec, RingOk(g, arr), g.size # 0,
           Count(g) < g.size
    PROVE  /\ Contents(PutLog(g), PutArray(g, arr, rec)) = Append(Contents(g, arr), rec)
           /\ Meets(PutLog(g))
<1> DEFINE w == Advance(g.indexWrite, g.size)
<1>n. PICK n \in Nat : n = Count(g)
  BY CountBound DEF RingOk
<1>h. PICK h : h = PutLog(g)
  OBVIOUS
<1>b. PICK b : b = PutArray(g, arr, rec)
  OBVIOUS
<1>q. PICK q : q = Contents(g, arr)
  OBVIOUS
<1>1. /\ InRange(g) /\ g.indexWrite \in 0..(g.size - 1)
      /\ g.indexRead \in 0..(g.size - 1) /\ g.size \in Nat /\ g.full \in {0, 1}
  BY CountBound DEF RingOk, LogRecs
<1>2. /\ h.indexWrite = w /\ h.indexRead = g.indexRead /\ h.size = g.size
      /\ h.full = (IF w = g.indexRead THEN 1 ELSE g.full)
  BY <1>h DEF PutLog, LogRecs
<1>3. g.full = 0
  BY <1>1 DEF Count
<1>4. Meets(h)
  BY <1>2, <1>3 DEF Meets
<1>5. Count(h) = n + 1
  BY <1>1, <1>2, <1>3, <1>n DEF Count, Advance
<1>6. \A j \in 0..n : Slot(h, j) = Slot(g, j) /\ Slot(g, j) \in 0..(g.size - 1)
  BY <1>1, <1>2, <1>n DEF Slot
<1>7. Slot(g, n) = g.indexWrite /\ \A j \in 0..(n - 1) : Slot(g, j) # g.indexWrite
  BY <1>1, <1>3, <1>n DEF Slot, Count
<1>8. \A i \in 0..(g.size - 1) : b[i] = IF i = g.indexWrite THEN rec ELSE arr[i]
  BY <1>1, <1>b DEF PutArray, RingOk
<1>9. Contents(h, b) = [j \in 1..(n + 1) |-> b[Slot(h, j - 1)]]
  BY <1>5 DEF Contents, ReadRecords
<1>10. q = [j \in 1..n |-> arr[Slot(g, j - 1)]] /\ Len(q) = n
  BY <1>1, <1>n, <1>q, ContentsLength DEF Contents, ReadRecords
<1>11. \A j \in 1..n : b[Slot(h, j - 1)] = q[j]
  BY <1>6, <1>7, <1>8, <1>10
<1>12. b[Slot(h, n)] = rec
  BY <1>6, <1>7, <1>8
<1>13. Append(q, rec) = [j \in 1..(n + 1) |-> IF j = n + 1 THEN rec ELSE q[j]]
  BY <1>10
<1>14. Contents(h, b) = Append(q, rec)
  BY <1>9, <1>11, <1>12, <1>13
<1>15. QED
  BY <1>4, <1>14, <1>h, <1>b, <1>q

LEMMA ContentsGet ==
    ASSUME NEW g \in LogRecs, NEW arr, NEW k \in Int, RingOk(g, arr), Meets(g),
           Enough(g, k), k # 0
    PROVE  LET q == Contents(g, arr)
               h == FinishRead(g, k)
           IN  /\ k \in 1..Len(q) /\ Meets(h)
               /\ ReadRecords(g, arr, k) = SubSeq(q, 1, k)
               /\ Contents(h, arr) = SubSeq(q, k + 1, Len(q))
<1>n. PICK n \in Nat : n = Count(g)
  BY CountBound DEF RingOk
<1>h. PICK h : h = FinishRead(g, k)
  OBVIOUS
<1>q. PICK q : q = Contents(g, arr)
  OBVIOUS
<1>0. g.size # 0 /\ k \in 1..g.size
  BY DEF Enough, LogRecs
<1>1. /\ InRange(g) /\ g.indexWrite \in 0..(g.size - 1)
      /\ g.indexRead \in 0..(g.size - 1) /\ g.size \in Nat /\ g.full \in {0, 1}
      /\ n \in 0..g.size
  BY <1>0, <1>n, CountBound DEF RingOk, LogRecs
<1>2. k \in 1..n
  BY <1>0, <1>1, <1>n DEF Enough, Count
<1>3. /\ h.size = g.size /\ h.full = 0
      /\ h.indexWrite = (IF k = g.size THEN 0 ELSE g.indexWrite)
      /\ h.indexRead = (IF k = g.size THEN 0 ELSE Slot(g, k))
  BY <1>h DEF FinishRead, AfterLoop, LogRecs
<1>4. Count(h) = n - k
  <2>1. CASE k = g.size
    BY <1>1, <1>2, <1>3, <2>1 DEF Count
  <2>2. CASE k # g.size /\ g.full = 1
    BY <1>0, <1>1, <1>2, <1>3, <1>n, <2>2 DEF Count, Slot, Meets
  <2>3. CASE k # g.size /\ g.full = 0
    BY <1>0, <1>1, <1>2, <1>3, <1>n, <2>3 DEF Count, Slot
  <2>4. QED
    BY <1>1, <2>1, <2>2, <2>3
<1>5. \A j \in 0..(n - k - 1) : Slot(h, j) = Slot(g, k + j)
  BY <1>0, <1>1, <1>2, <1>3 DEF Slot
<1>6. q = [j \in 1..n |-> arr[Slot(g, j - 1)]] /\ Len(q) = n
  BY <1>1, <1>n, <1>q, ContentsLength DEF Contents, ReadRecords
<1>7. q \in Seq({arr[i] : i \in Int})
  BY <1>1, <1>q, ContentsLength
<1>8. SubSeq(q, 1, k) = [j \in 1..k |-> q[j]]
  BY <1>2, <1>6, <1>7
<1>9. ReadRecords(g, arr, k) = SubSeq(q, 1, k)
  BY <1>2, <1>6, <1>8 DEF ReadRecords
<1>10. SubSeq(q, k + 1, n) = [j \in 1..(n - k) |-> q[j + k]]
  BY <1>2, <1>6, <1>7
<1>11. Contents(h, arr) = [j \in 1..(n - k) |-> arr[Slot(h, j - 1)]]
  BY <1>4 DEF Contents, ReadRecords
<1>12. \A j \in 1..(n - k) : arr[Slot(h, j - 1)] = q[j + k]
  <2>1. SUFFICES ASSUME NEW j \in 1..(n - k)
                 PROVE  arr[Slot(h, j - 1)] = q[j + k]
    OBVIOUS
  <2>2. Slot(h, j - 1) = Slot(g, k + (j - 1)) /\ k + (j - 1) = (j + k) - 1
        /\ j + k \in 1..n
    BY <1>2, <1>5
  <2>3. QED
    BY <1>6, <2>2
<1>13. Contents(h, arr) = SubSeq(q, k + 1, n)
  BY <1>10, <1>11, <1>12
<1>14. Meets(h)
  BY <1>3 DEF Meets
<1>15. QED
  BY <1>2, <1>6, <1>9, <1>13, <1>14, <1>h, <1>q

-----------------------------------------------------------------------------
(***************************************************************************)
(* The inductive invariant.  MeetInv needs the hooks' assumption.          *)
(***************************************************************************)
MeetInv == \A l \in DOMAIN logs : Meets(logs[l])

RefineInv == HeapInv /\ RingInv /\ MeetInv

\* The log of a process whose policy is on.
LEMMA OwnLog ==
    ASSUME RefineInv, NEW p \in Pids, task[p].policy_on = 1
    PROVE  /\ task[p].logArray \in DOMAIN logs /\ Log(p) = logs[task[p].logArray]
           /\ Log(p) \in LogRecs /\ InRange(Log(p)) /\ Meets(Log(p))
           /\ RingOk(Log(p), arrays[Log(p).array])
           /\ Log(p).size # 0 => Log(p).array \in DOMAIN arrays
<1>1. task[p].logArray \in DOMAIN logs
  BY DEF RefineInv, HeapInv, HeapOwned, Owners
<1>2. Log(p) = logs[task[p].logArray]
  BY DEF Log
<1>3. logs[task[p].logArray] \in LogRecs
  BY <1>1 DEF RefineInv, HeapInv, TypeOK
<1>4. QED
  BY <1>1, <1>2, <1>3 DEF RefineInv, RingInv, MeetInv, RingOk, HeapInv, HeapOwned

LEMMA PolicyOnOff ==
    ASSUME RefineInv, NEW p \in Pids
    PROVE  task[p] \in Tasks /\ task[p].policy_on \in {0, 1} /\ DOMAIN task = Pids
           /\ task[p].state \in States
BY DEF RefineInv, HeapInv, TypeOK, Tasks

\* Two processes with a policy have logs and arrays of their own.
LEMMA OwnBlocks ==
    ASSUME RefineInv, NEW p \in Pids, NEW q \in Pids, p # q,
           task[p].policy_on = 1, task[q].policy_on = 1
    PROVE  /\ task[p].logArray # task[q].logArray
           /\ Log(p).size # 0 /\ Log(q).size # 0 => Log(p).array # Log(q).array
<1>1. p \in Owners /\ q \in Owners
  BY DEF Owners
<1>2. task[p].logArray # task[q].logArray
  BY <1>1 DEF RefineInv, HeapInv, HeapOwned
<1>3. task[p].logArray \in DOMAIN logs /\ task[q].logArray \in DOMAIN logs
  BY OwnLog
<1>4. QED
  BY <1>2, <1>3 DEF RefineInv, HeapInv, HeapOwned, Log

\* A process whose policy, log and records a step leaves alone.
LEMMA AbsKept ==
    ASSUME RefineInv, NEW p \in Pids,
           Phase(task'[p].state) = Phase(task[p].state),
           task'[p].policy_on = task[p].policy_on,
           task[p].policy_on = 1 =>
               /\ task'[p].policy_level = task[p].policy_level
               /\ task'[p].logArray = task[p].logArray
               /\ logs'[task[p].logArray] = logs[task[p].logArray]
               /\ Log(p).size # 0 => arrays'[Log(p).array] = arrays[Log(p).array]
    PROVE  AbsProc(p)' = AbsProc(p)
<1>1. CASE task[p].policy_on = 0
  BY <1>1 DEF AbsProc
<1>2. CASE task[p].policy_on = 1
  <2>g. PICK g : g = Log(p)
    OBVIOUS
  <2>1. Log(p)' = g /\ g \in LogRecs /\ InRange(g)
    BY <1>2, <2>g, OwnLog DEF Log
  <2>2. Contents(g, arrays'[g.array]) = Contents(g, arrays[g.array])
    <3>1. CASE g.size = 0
      BY <2>1, <3>1, ContentsNone
    <3>2. CASE g.size # 0
      BY <1>2, <2>g, <3>2
    <3>3. QED
      BY <3>1, <3>2
  <2>3. AbsProc(p) = [phase |-> Phase(task[p].state), on |-> TRUE,
                      level |-> task[p].policy_level, cap |-> g.size,
                      queue |-> Contents(g, arrays[g.array])]
    BY <1>2, <2>g DEF AbsProc
  <2>4. AbsProc(p)' = [phase |-> Phase(task'[p].state), on |-> TRUE,
                       level |-> task'[p].policy_level, cap |-> g.size,
                       queue |-> Contents(g, arrays'[g.array])]
    BY <1>2, <2>1 DEF AbsProc
  <2>5. QED
    BY <1>2, <2>2, <2>3, <2>4
<1>3. QED
  BY <1>1, <1>2, PolicyOnOff

\* In particular a step that leaves the heap alone.
LEMMA AbsKeptTask ==
    ASSUME RefineInv, NEW p \in Pids, logs' = logs, arrays' = arrays,
           Phase(task'[p].state) = Phase(task[p].state),
           task'[p].policy_on = task[p].policy_on,
           task[p].policy_on = 1 => /\ task'[p].policy_level = task[p].policy_level
                                    /\ task'[p].logArray = task[p].logArray
    PROVE  AbsProc(p)' = AbsProc(p)
BY AbsKept

LEMMA AbsKeptAll ==
    ASSUME RefineInv, UNCHANGED <<task, logs, arrays>>
    PROVE  \A p \in Pids : AbsProc(p)' = AbsProc(p)
BY AbsKeptTask

AbsState == [p \in Pids |-> AbsProc(p)]

LEMMA AbsStateKept ==
    ASSUME \A p \in Pids : AbsProc(p)' = AbsProc(p)
    PROVE  AbsState' = AbsState
BY DEF AbsState

\* A step that changes p alone.
LEMMA AbsStateOne ==
    ASSUME NEW p \in Pids, NEW v, AbsProc(p)' = v,
           \A q \in Pids : q # p => AbsProc(q)' = AbsProc(q)
    PROVE  AbsState' = [AbsState EXCEPT ![p] = v]
BY DEF AbsState

-----------------------------------------------------------------------------
\* Calls that return without any effect but their value.
Simulated == Abs!Next \/ UNCHANGED Abs!vars

LEMMA RefusedCall ==
    ASSUME NEW e \in Errnos, Return(-e), jiffies' = jiffies,
           \A p \in Pids : AbsProc(p)' = AbsProc(p)
    PROVE  Simulated
<1>1. AbsState' = AbsState
  BY AbsStateKept
<1>2. Abs!Refuse
  BY <1>1 DEF Abs!Refuse, Abs!Returns, Return, AbsState
<1>3. QED
  BY <1>2 DEF Simulated, Abs!Next

LEMMA EmptyCall ==
    ASSUME Return(0), jiffies' = jiffies,
           \A p \in Pids : AbsProc(p)' = AbsProc(p)
    PROVE  Simulated
<1>1. AbsState' = AbsState
  BY AbsStateKept
<1>2. Abs!Nothing
  BY <1>1 DEF Abs!Nothing, Abs!Returns, Return, AbsState
<1>3. QED
  BY <1>2 DEF Simulated, Abs!Next

LEMMA NoEffectCall ==
    ASSUME RefineInv, NEW c \in Pids, NEW v, NoEffect(c, v),
           v = 0 \/ \E e \in Errnos : v = -e
    PROVE  Simulated
<1>1. \A p \in Pids : AbsProc(p)' = AbsProc(p)
  BY AbsKeptAll DEF NoEffect
<1>2. Return(v) /\ jiffies' = jiffies
  BY DEF NoEffect
<1>3. QED
  BY <1>1, <1>2, RefusedCall, EmptyCall

-----------------------------------------------------------------------------
\* enable_policy.
LEMMA EnableArgs ==
    ASSUME NEW pid \in PidArgs, NEW size \in SizeArgs, NEW password \in Passwords,
           enable_errno(pid, size, password) = 0
    PROVE  /\ pid \in Pids /\ task[pid].state # "free" /\ task[pid].policy_on # 1
           /\ size \in Nat
BY ArgsAssumption DEF enable_errno, sys_enable_errno, Hashed, ESRCH, EINVAL

LEMMA EnableFails ==
    ASSUME RefineInv, NEW c \in Pids, NEW pid \in PidArgs, NEW size \in SizeArgs,
           NEW password \in Passwords,
           \/ EnableRefused(c, pid, size, password)
           \/ EnableNoHeader(c, pid, size, password)
           \/ \E h \in LogIds : EnableNoArray(c, pid, size, password, h)
    PROVE  Simulated
<1>1. CASE EnableRefused(c, pid, size, password)
  <2>1. enable_errno(pid, size, password) \in Errnos
    BY <1>1 DEF EnableRefused, enable_errno, sys_enable_errno, Errnos
  <2>2. QED
    BY <1>1, <2>1, NoEffectCall DEF EnableRefused, Fail
<1>2. ASSUME NEW x, enable_errno(pid, size, password) = 0,
             task' = [task EXCEPT ![pid].logArray = x], logs' = logs,
             arrays' = arrays, jiffies' = jiffies, Return(-ENOMEM)
      PROVE  Simulated
  <2>1. pid \in Pids /\ task[pid].policy_on = 0
    BY <1>2, EnableArgs, PolicyOnOff
  <2>2. \A p \in Pids : /\ task'[p].state = task[p].state
                        /\ task'[p].policy_on = task[p].policy_on
                        /\ p # pid => task'[p] = task[p]
    BY <1>2, <2>1, PolicyOnOff DEF Tasks
  <2>3. \A p \in Pids : AbsProc(p)' = AbsProc(p)
    BY <1>2, <2>1, <2>2, AbsKeptTask
  <2>4. ENOMEM \in Errnos
    BY DEF Errnos
  <2>5. QED
    BY <1>2, <2>3, <2>4, RefusedCall
<1>3. CASE EnableNoHeader(c, pid, size, password)
  BY <1>2, <1>3 DEF EnableNoHeader
<1>4. ASSUME NEW h \in LogIds, EnableNoArray(c, pid, size, password, h)
      PROVE  Simulated
  <2>1. logs' = logs
    BY <1>4 DEF EnableNoArray, RefineInv, HeapInv, TypeOK, kfree, kmalloc
  <2>2. QED
    BY <1>2, <1>4, <2>1 DEF EnableNoArray
<1>5. QED
  BY <1>1, <1>3, <1>4

LEMMA NewContents ==
    ASSUME NEW n, NEW a, NEW arr
    PROVE  Contents(NewLog(n, a), arr) = << >>
<1>1. Count(NewLog(n, a)) = 0
  BY DEF Count, NewLog
<1>2. QED
  BY <1>1 DEF Contents, ReadRecords

LEMMA EnableSucceeds ==
    ASSUME RefineInv, NEW c \in Pids, NEW pid \in PidArgs, NEW size \in SizeArgs,
           NEW password \in Passwords, NEW h \in LogIds, NEW a \in ArrIds,
           EnableOk(c, pid, size, password, h, a)
    PROVE  Simulated
<1>1. /\ pid \in Pids /\ task[pid].state # "free" /\ task[pid].policy_on = 0
      /\ task[pid] \in Tasks /\ DOMAIN task = Pids
  BY EnableArgs, PolicyOnOff DEF EnableOk
<1>t. PICK t : t = Enabled(task[pid], h)
  OBVIOUS
<1>2. /\ t.policy_on = 1 /\ t.policy_level = 2 /\ t.logArray = h
      /\ t.state = task[pid].state
  BY <1>1, <1>t DEF Enabled, Tasks
<1>3. task'[pid] = t /\ \A p \in Pids : p # pid => task'[p] = task[p]
  BY <1>1, <1>t DEF EnableOk
<1>4. /\ h \notin DOMAIN logs /\ a \notin DOMAIN arrays
      /\ \A l \in DOMAIN logs : logs'[l] = logs[l]
      /\ \A b \in DOMAIN arrays : arrays'[b] = arrays[b]
      /\ \E b : logs'[h] = NewLog(size, b)
  BY DEF EnableOk, kmalloc
<1>5. \A p \in Pids : p # pid => AbsProc(p)' = AbsProc(p)
  BY <1>3, <1>4, OwnLog, AbsKept
<1>v. PICK v : v = [phase |-> Phase(task[pid].state), on |-> TRUE, level |-> 2,
                    cap |-> size, queue |-> << >>]
  OBVIOUS
<1>6. AbsProc(pid)' = v
  <2>b. PICK b : logs'[h] = NewLog(size, b)
    BY <1>4
  <2>1. Log(pid)' = NewLog(size, b)
    BY <1>2, <1>3, <2>b DEF Log
  <2>2. NewLog(size, b).size = size
    BY DEF NewLog
  <2>3. AbsProc(pid)' = [phase |-> Phase(task'[pid].state), on |-> TRUE,
                         level |-> task'[pid].policy_level, cap |-> Log(pid)'.size,
                         queue |-> Contents(Log(pid)', arrays'[Log(pid)'.array])]
    BY <1>2, <1>3 DEF AbsProc
  <2>4. Contents(Log(pid)', arrays'[Log(pid)'.array]) = << >> /\ Log(pid)'.size = size
    BY <2>1, <2>2, NewContents
  <2>5. task'[pid].state = task[pid].state /\ task'[pid].policy_level = 2
    BY <1>2, <1>3
  <2>6. QED
    BY <2>3, <2>4, <2>5, <1>v
<1>7. AbsState' = [AbsState EXCEPT ![pid] = v]
  BY <1>1, <1>5, <1>6, AbsStateOne
<1>8. AbsState[pid] = [phase |-> Phase(task[pid].state), on |-> FALSE, level |-> 2,
                       cap |-> 0, queue |-> << >>]
  BY <1>1 DEF AbsState, AbsProc
<1>9. AbsState[pid].phase # "free" /\ ~AbsState[pid].on
  <2>1. Phase(task[pid].state) # "free"
    BY <1>1 DEF Phase, Tasks, States
  <2>2. QED
    BY <1>8, <2>1
<1>10. Abs!Enable(pid, size)
  <2>1. Abs!Known(pid) /\ ~AbsState[pid].on
    BY <1>9 DEF Abs!Known, AbsState
  <2>2. AbsState' = [AbsState EXCEPT ![pid] =
                        [phase |-> AbsState[pid].phase, on |-> TRUE, level |-> 2,
                         cap |-> size, queue |-> << >>]]
    BY <1>7, <1>8, <1>v
  <2>3. Abs!Returns(0)
    BY DEF Abs!Returns, EnableOk, Return
  <2>4. QED
    BY <2>1, <2>2, <2>3 DEF Abs!Enable, AbsState
<1>11. QED
  BY <1>1, <1>10 DEF Simulated, Abs!Next

-----------------------------------------------------------------------------
\* The log of z is freed: nobody else loses anything.
LEMMA AbsFreed ==
    ASSUME RefineInv, NEW z \in Pids, task[z].policy_on = 1,
           arrays' = ArraysWithout(Log(z)), logs' = LogsWithout(task[z].logArray),
           NEW p \in Pids, p # z,
           Phase(task'[p].state) = Phase(task[p].state),
           task'[p].policy_on = task[p].policy_on,
           task[p].policy_on = 1 => /\ task'[p].policy_level = task[p].policy_level
                                    /\ task'[p].logArray = task[p].logArray
    PROVE  AbsProc(p)' = AbsProc(p)
<1>1. ASSUME task[p].policy_on = 1
      PROVE  /\ logs'[task[p].logArray] = logs[task[p].logArray]
             /\ Log(p).size # 0 => arrays'[Log(p).array] = arrays[Log(p).array]
  <2>1. /\ task[p].logArray # task[z].logArray /\ task[p].logArray \in DOMAIN logs
        /\ Log(p).size # 0 => Log(p).array \in DOMAIN arrays
        /\ Log(p).size # 0 /\ Log(z).size # 0 => Log(p).array # Log(z).array
    BY <1>1, OwnBlocks, OwnLog
  <2>2. QED
    BY <2>1 DEF ArraysWithout, LogsWithout, kfree
<1>2. QED
  BY <1>1, AbsKept

LEMMA AbsOff ==
    ASSUME NEW p \in Pids, task[p].policy_on = 0
    PROVE  AbsProc(p) = Abs!NoProc(Phase(task[p].state))
BY DEF AbsProc, Abs!NoProc

LEMMA AbsOn ==
    ASSUME NEW p \in Pids, task[p].policy_on = 1
    PROVE  AbsProc(p) = [phase |-> Phase(task[p].state), on |-> TRUE,
                         level |-> task[p].policy_level, cap |-> Log(p).size,
                         queue |-> Contents(Log(p), arrays[Log(p).array])]
BY DEF AbsProc

\* The same with the record kept whole.
OnProc(x, l, n, e) == [phase |-> x, on |-> TRUE, level |-> l, cap |-> n, queue |-> e]

WithLevel(u, v) == [u EXCEPT !.level = v]
WithQueue(u, v) == [u EXCEPT !.queue = v]
WithPhase(u, v) == [u EXCEPT !.phase = v]

Rec(x, b, l, n, e) == [phase |-> x, on |-> b, level |-> l, cap |-> n, queue |-> e]

LEMMA RecFields ==
    ASSUME NEW x, NEW b, NEW l, NEW n, NEW e, NEW v
    PROVE  /\ WithLevel(Rec(x, b, l, n, e), v) = Rec(x, b, v, n, e)
           /\ WithQueue(Rec(x, b, l, n, e), v) = Rec(x, b, l, n, v)
           /\ WithPhase(Rec(x, b, l, n, e), v) = Rec(v, b, l, n, e)
BY DEF Rec, WithLevel, WithQueue, WithPhase

LEMMA ProcFields ==
    ASSUME NEW x, NEW l, NEW n, NEW e, NEW v
    PROVE  /\ WithLevel(OnProc(x, l, n, e), v) = OnProc(x, v, n, e)
           /\ WithQueue(OnProc(x, l, n, e), v) = OnProc(x, l, n, v)
           /\ WithPhase(OnProc(x, l, n, e), v) = OnProc(v, l, n, e)
           /\ WithPhase(Abs!NoProc(x), v) = Abs!NoProc(v)
<1>b. PICK b : b = TRUE
  OBVIOUS
<1>d. PICK d : d = FALSE
  OBVIOUS
<1>1. \A y, m, k, f : OnProc(y, m, k, f) = Rec(y, b, m, k, f)
  BY <1>b, Zenon DEF OnProc, Rec
<1>2. \A y : Abs!NoProc(y) = Rec(y, d, 2, 0, << >>)
  BY <1>d, Zenon DEF Abs!NoProc, Rec
<1>3. QED
  BY <1>1, <1>2, RecFields

LEMMA KnownPhase ==
    ASSUME NEW x \in States
    PROVE  /\ Phase(x) = "free" <=> x = "free"
           /\ Phase(x) = "active" <=> x = "running"
           /\ Phase(x) = "dead" <=> x = "zombie"
           /\ Phase(x) = "waiting" <=> x \in {"waiting", "woken"}
BY DEF Phase, States

\* A process with its policy on, as the abstract actions see it.
LEMMA AbsKnown ==
    ASSUME RefineInv, NEW p \in Pids, task[p].policy_on = 1
    PROVE  /\ AbsState[p] = AbsProc(p) /\ Abs!Known(p) /\ AbsState[p].on
           /\ AbsState[p].level = task[p].policy_level
           /\ AbsState[p].phase = Phase(task[p].state)
           /\ AbsState[p].cap = Log(p).size
           /\ AbsState[p].queue = Contents(Log(p), arrays[Log(p).array])
<1>1. task[p].state # "free" /\ task[p].state \in States
  BY PolicyOnOff DEF RefineInv, HeapInv, FreeOff
<1>2. Phase(task[p].state) # "free"
  BY <1>1, KnownPhase
<1>3. AbsState[p] = AbsProc(p)
  BY DEF AbsState
<1>4. /\ AbsProc(p).on /\ AbsProc(p).level = task[p].policy_level
      /\ AbsProc(p).phase = Phase(task[p].state)
      /\ AbsProc(p).cap = Log(p).size
      /\ AbsProc(p).queue = Contents(Log(p), arrays[Log(p).array])
  BY AbsOn
<1>5. Abs!Known(p)
  BY <1>2, <1>3, <1>4 DEF Abs!Known, AbsState
<1>6. QED
  BY <1>3, <1>4, <1>5

\* disable_policy.
LEMMA DisableSteps ==
    ASSUME RefineInv, NEW c \in Pids, DisablePolicy(c)
    PROVE  Simulated
<1>1. PICK pid \in PidArgs, password \in Passwords :
          DisableRefused(c, pid, password) \/ DisableOk(c, pid, password)
  BY DEF DisablePolicy
<1>2. CASE DisableRefused(c, pid, password)
  <2>1. disable_errno(pid, password) \in Errnos
    BY <1>2 DEF DisableRefused, disable_errno, Errnos
  <2>2. QED
    BY <1>2, <2>1, NoEffectCall DEF DisableRefused, Fail
<1>3. CASE DisableOk(c, pid, password)
  <2>1. pid \in Pids /\ task[pid].policy_on # 0
    BY <1>3 DEF DisableOk, disable_errno, Hashed, ESRCH, EINVAL
  <2>2. task[pid].policy_on = 1 /\ task[pid] \in Tasks /\ DOMAIN task = Pids
    BY <2>1, PolicyOnOff
  <2>3. /\ task'[pid].policy_on = 0 /\ task'[pid].state = task[pid].state
        /\ \A p \in Pids : p # pid => task'[p] = task[p]
    <3>1. task'[pid] = Disabled(task[pid]) /\ \A p \in Pids : p # pid => task'[p] = task[p]
      BY <1>3, <2>1, <2>2 DEF DisableOk
    <3>2. QED
      BY <2>2, <3>1, TaskFields
  <2>4. \A p \in Pids : p # pid => AbsProc(p)' = AbsProc(p)
    BY <1>3, <2>1, <2>2, <2>3, AbsFreed DEF DisableOk
  <2>5. AbsProc(pid)' = Abs!NoProc(Phase(task[pid].state))
    BY <2>3 DEF AbsProc, Abs!NoProc
  <2>6. AbsState[pid].phase = Phase(task[pid].state) /\ Abs!Known(pid) /\ AbsState[pid].on
    BY <2>1, <2>2, AbsKnown
  <2>7. AbsState' = [AbsState EXCEPT ![pid] = Abs!NoProc(AbsState[pid].phase)]
    BY <2>1, <2>4, <2>5, <2>6, AbsStateOne
  <2>8. Abs!Returns(0)
    BY <1>3 DEF Abs!Returns, DisableOk, Return
  <2>9. Abs!Disable(pid)
    BY <2>6, <2>7, <2>8 DEF Abs!Disable, AbsState
  <2>10. QED
    BY <2>1, <2>9 DEF Simulated, Abs!Next
<1>4. QED
  BY <1>1, <1>2, <1>3

\* set_process_capabilities.
LEMMA SetSteps ==
    ASSUME RefineInv, NEW c \in Pids, SetProcessCapabilities(c)
    PROVE  Simulated
<1>1. PICK pid \in PidArgs, l \in LevelArgs, password \in Passwords :
          SetRefused(c, pid, l, password) \/ SetOk(c, pid, l, password)
  BY DEF SetProcessCapabilities
<1>2. CASE SetRefused(c, pid, l, password)
  <2>1. capabilities_errno(pid, l, password) \in Errnos
    BY <1>2 DEF SetRefused, capabilities_errno, Errnos
  <2>2. QED
    BY <1>2, <2>1, NoEffectCall DEF SetRefused, Fail
<1>3. CASE SetOk(c, pid, l, password)
  <2>1. pid \in Pids /\ task[pid].policy_on # 0 /\ l \in 0..2
    BY <1>3, ArgsAssumption DEF SetOk, capabilities_errno, Hashed, ESRCH, EINVAL
  <2>2. task[pid].policy_on = 1 /\ task[pid] \in Tasks /\ DOMAIN task = Pids
    BY <2>1, PolicyOnOff
  <2>t. PICK t : t = [task[pid] EXCEPT !.policy_level = l]
    OBVIOUS
  <2>3. /\ t.policy_on = 1 /\ t.policy_level = l /\ t.logArray = task[pid].logArray
        /\ t.state = task[pid].state
    BY <2>2, <2>t DEF Tasks
  <2>4. task'[pid] = t /\ \A p \in Pids : p # pid => task'[p] = task[p]
    BY <1>3, <2>1, <2>2, <2>t DEF SetOk
  <2>5. logs' = logs /\ arrays' = arrays
    BY <1>3 DEF SetOk
  <2>6. \A p \in Pids : p # pid => AbsProc(p)' = AbsProc(p)
    BY <2>4, <2>5, AbsKeptTask
  <2>7. AbsProc(pid)' = WithLevel(AbsProc(pid), l)
    <3>1. Log(pid)' = Log(pid)
      BY <2>3, <2>4, <2>5 DEF Log
    <3>2. AbsProc(pid)' = [phase |-> Phase(task'[pid].state), on |-> TRUE,
                           level |-> task'[pid].policy_level, cap |-> Log(pid)'.size,
                           queue |-> Contents(Log(pid)', arrays'[Log(pid)'.array])]
      BY <2>3, <2>4 DEF AbsProc
    <3>3. AbsProc(pid)' = [phase |-> Phase(task[pid].state), on |-> TRUE,
                           level |-> l, cap |-> Log(pid).size,
                           queue |-> Contents(Log(pid), arrays[Log(pid).array])]
      BY <2>3, <2>4, <2>5, <3>1, <3>2
    <3>4. AbsProc(pid)' = OnProc(Phase(task[pid].state), l, Log(pid).size,
                               Contents(Log(pid), arrays[Log(pid).array]))
      BY <3>3 DEF OnProc
    <3>5. AbsProc(pid) = OnProc(Phase(task[pid].state), task[pid].policy_level,
                              Log(pid).size, Contents(Log(pid), arrays[Log(pid).array]))
      BY <2>1, <2>2, AbsOn DEF OnProc
    <3>6. QED
      BY <3>4, <3>5, ProcFields
  <2>8. AbsState[pid] = AbsProc(pid) /\ Abs!Known(pid) /\ AbsState[pid].on
    BY <2>1, <2>2, AbsKnown
  <2>9. AbsState' = [AbsState EXCEPT ![pid].level = l]
    BY <2>1, <2>6, <2>7, <2>8, AbsStateOne DEF WithLevel
  <2>10. Abs!Returns(0)
    BY <1>3 DEF Abs!Returns, SetOk, Return
  <2>11. Abs!SetLevel(pid, l)
    BY <2>8, <2>9, <2>10 DEF Abs!SetLevel, AbsState
  <2>12. QED
    BY <2>1, <2>11 DEF Simulated, Abs!Next
<1>4. QED
  BY <1>1, <1>2, <1>3

-----------------------------------------------------------------------------
\* A step that only changes the ring of p, to a header g2 and records b.
LEMMA AbsRing ==
    ASSUME RefineInv, NEW p \in Pids, task[p].policy_on = 1, task' = task, NEW g2, NEW b,
           logs'[task[p].logArray] = g2, g2.size = Log(p).size, g2.array = Log(p).array,
           arrays'[Log(p).array] = b
    PROVE  /\ AbsProc(p)' = WithQueue(AbsProc(p), Contents(g2, b))
           /\ AbsState[p] = AbsProc(p)
<1>1. Log(p)' = g2
  BY DEF Log
<1>2. AbsProc(p)' = [phase |-> Phase(task'[p].state), on |-> TRUE,
                     level |-> task'[p].policy_level, cap |-> Log(p)'.size,
                     queue |-> Contents(Log(p)', arrays'[Log(p)'.array])]
  BY DEF AbsProc
<1>3. AbsProc(p)' = [phase |-> Phase(task[p].state), on |-> TRUE,
                     level |-> task[p].policy_level, cap |-> Log(p).size,
                     queue |-> Contents(g2, b)]
  BY <1>1, <1>2
<1>4. AbsProc(p)' = OnProc(Phase(task[p].state), task[p].policy_level, Log(p).size,
                           Contents(g2, b))
  BY <1>3 DEF OnProc
<1>5. AbsProc(p) = OnProc(Phase(task[p].state), task[p].policy_level, Log(p).size,
                          Contents(Log(p), arrays[Log(p).array]))
  BY AbsOn DEF OnProc
<1>6. AbsState[p] = AbsProc(p)
  BY DEF AbsState
<1>7. QED
  BY <1>4, <1>5, <1>6, ProcFields

LEMMA GetArgs ==
    ASSUME RefineInv, NEW pid \in PidArgs, NEW size \in SizeArgs,
           get_log_errno(pid, size) = 0
    PROVE  /\ pid \in Pids /\ task[pid].policy_on = 1 /\ size \in Int
           /\ Enough(Log(pid), size)
<1>1. pid \in Pids /\ task[pid].policy_on # 0 /\ Enough(Log(pid), size)
  BY DEF get_log_errno, Hashed, ESRCH, EINVAL
<1>2. QED
  BY <1>1, PolicyOnOff, ArgsAssumption

LEMMA GetSucceeds ==
    ASSUME RefineInv, NEW c \in Pids, NEW pid \in PidArgs, NEW size \in SizeArgs,
           GetOk(c, pid, size)
    PROVE  Simulated
<1>1. /\ pid \in Pids /\ task[pid].policy_on = 1 /\ size \in Int /\ size # 0
      /\ Enough(Log(pid), size)
  BY GetArgs DEF GetOk, EntersKernel
<1>g. PICK g : g = Log(pid)
  OBVIOUS
<1>2. /\ task[pid].logArray \in DOMAIN logs /\ g = logs[task[pid].logArray]
      /\ g \in LogRecs /\ Meets(g) /\ RingOk(g, arrays[g.array])
  BY <1>1, <1>g, OwnLog
<1>q. PICK q : q = Contents(g, arrays[g.array])
  OBVIOUS
<1>h. PICK h : h = FinishRead(g, size)
  OBVIOUS
<1>3. /\ size \in 1..Len(q) /\ ReadRecords(g, arrays[g.array], size) = SubSeq(q, 1, size)
      /\ Contents(h, arrays[g.array]) = SubSeq(q, size + 1, Len(q))
  BY <1>1, <1>2, <1>g, <1>h, <1>q, ContentsGet
<1>4. h.size = g.size /\ h.array = g.array
  BY <1>2, <1>h DEF FinishRead, AfterLoop, LogRecs
<1>5. /\ task' = task /\ arrays' = arrays /\ jiffies' = jiffies /\ ret' = 0
      /\ logs'[task[pid].logArray] = h
      /\ \A l \in DOMAIN logs : l # task[pid].logArray => logs'[l] = logs[l]
      /\ user_mem' = SubSeq(q, 1, size)
  BY <1>2, <1>3, <1>g, <1>h DEF GetOk
<1>6. \A p \in Pids : p # pid => AbsProc(p)' = AbsProc(p)
  BY <1>1, <1>5, OwnBlocks, OwnLog, AbsKept
<1>7. /\ AbsProc(pid)' = WithQueue(AbsProc(pid), Contents(h, arrays[g.array]))
      /\ AbsState[pid] = AbsProc(pid)
  <2>1. h.size = Log(pid).size /\ h.array = Log(pid).array
        /\ arrays'[Log(pid).array] = arrays[g.array]
    BY <1>4, <1>5, <1>g
  <2>2. QED
    BY <1>1, <1>5, <2>1, AbsRing
<1>8. AbsState[pid].queue = q /\ Abs!Known(pid) /\ AbsState[pid].on
  BY <1>1, <1>g, <1>q, AbsKnown
<1>9. AbsState' = [AbsState EXCEPT ![pid].queue = SubSeq(q, size + 1, Len(q))]
  BY <1>1, <1>3, <1>6, <1>7, AbsStateOne DEF WithQueue
<1>10. AbsState' = [AbsState EXCEPT ![pid].queue =
                       SubSeq(AbsState[pid].queue, size + 1, Len(AbsState[pid].queue))]
  BY <1>8, <1>9
<1>11. user_mem' = SubSeq(AbsState[pid].queue, 1, size)
  BY <1>5, <1>8
<1>12. Abs!Hand(pid, size)
  BY <1>5, <1>8, <1>10, <1>11 DEF Abs!Hand, AbsState
<1>13. size \in 1..Len(AbsState[pid].queue)
  BY <1>3, <1>8
<1>14. QED
  BY <1>1, <1>12, <1>13 DEF Simulated, Abs!Next, AbsState

LEMMA GetSteps ==
    ASSUME RefineInv, NEW c \in Pids, GetProcessLog(c)
    PROVE  Simulated
<1>1. PICK pid \in PidArgs, size \in SizeArgs :
         \/ GetNothing(c, pid, size) \/ GetRefused(c, pid, size)
         \/ GetNoMem(c, pid, size) \/ GetFault(c, pid, size) \/ GetOk(c, pid, size)
  BY DEF GetProcessLog
<1>2. CASE GetNothing(c, pid, size)
  BY <1>2, NoEffectCall DEF GetNothing
<1>3. CASE GetRefused(c, pid, size)
  <2>1. get_log_errno(pid, size) \in Errnos
    BY <1>3 DEF GetRefused, get_log_errno, Errnos
  <2>2. QED
    BY <1>3, <2>1, NoEffectCall DEF GetRefused, Fail
<1>4. ENOMEM \in Errnos
  BY DEF Errnos
<1>5. CASE GetNoMem(c, pid, size)
  BY <1>4, <1>5, NoEffectCall DEF GetNoMem, Fail
<1>6. CASE GetFault(c, pid, size)
  <2>1. pid \in Pids /\ task[pid].policy_on = 1 /\ size \in Int
    BY <1>6, GetArgs DEF GetFault
  <2>h. PICK h : h = task[pid].logArray
    OBVIOUS
  <2>2. h \in DOMAIN logs /\ logs[h] \in LogRecs
    BY <2>1, <2>h, OwnLog
  <2>3. logs' = [logs EXCEPT ![h] = logs[h]]
    BY <1>6, <2>1, <2>2, <2>h, RingRestore DEF GetFault
  <2>4. logs' = logs
    BY <2>2, <2>3 DEF RefineInv, HeapInv, TypeOK
  <2>5. \A p \in Pids : AbsProc(p)' = AbsProc(p)
    BY <1>6, <2>4, AbsKeptAll DEF GetFault
  <2>6. QED
    BY <1>4, <1>6, <2>5, RefusedCall DEF GetFault
<1>7. CASE GetOk(c, pid, size)
  BY <1>7, GetSucceeds
<1>8. QED
  BY <1>1, <1>2, <1>3, <1>5, <1>6, <1>7

-----------------------------------------------------------------------------
\* The hook: the one place where the log has to be large enough.
LEMMA DeniedSteps ==
    ASSUME LogLargeEnough, RefineInv, NEW c \in Pids, NEW req \in 1..2, Denied(c, req)
    PROVE  Simulated
<1>g. PICK g : g = Log(c)
  OBVIOUS
<1>r. PICK r : r = Record(req, task[c].policy_level, jiffies)
  OBVIOUS
<1>1. /\ task[c].policy_on = 1 /\ task[c].policy_level < req /\ task[c].state = "running"
      /\ g.size # 0 /\ Count(g) < g.size /\ req \in Int
  BY <1>g DEF Denied, Forbidden, HasRoom, Running
<1>2. /\ task[c].logArray \in DOMAIN logs /\ g = logs[task[c].logArray]
      /\ g \in LogRecs /\ InRange(g) /\ RingOk(g, arrays[g.array])
      /\ g.array \in DOMAIN arrays
  BY <1>1, <1>g, OwnLog
<1>q. PICK q : q = Contents(g, arrays[g.array])
  OBVIOUS
<1>h. PICK h : h = PutLog(g)
  OBVIOUS
<1>b. PICK b : b = PutArray(g, arrays[g.array], r)
  OBVIOUS
<1>3. Contents(h, b) = Append(q, r)
  BY <1>1, <1>2, <1>h, <1>b, <1>q, ContentsPut
<1>4. Len(q) = Count(g)
  BY <1>2, <1>q, ContentsLength
<1>5. h.size = g.size /\ h.array = g.array
  BY <1>2, <1>h DEF PutLog, LogRecs
<1>6. /\ task' = task /\ jiffies' = jiffies /\ Return(-EINVAL)
      /\ arrays' = [arrays EXCEPT ![g.array] = PutArray(g, arrays[g.array], r)]
      /\ logs' = [logs EXCEPT ![task[c].logArray] = PutLog(g)]
  BY <1>2, <1>g, <1>r DEF Denied
<1>7. /\ logs'[task[c].logArray] = h /\ arrays'[g.array] = b
      /\ \A l \in DOMAIN logs : l # task[c].logArray => logs'[l] = logs[l]
      /\ \A a \in DOMAIN arrays : a # g.array => arrays'[a] = arrays[a]
  BY <1>2, <1>6, <1>h, <1>b
<1>8. \A p \in Pids : p # c => AbsProc(p)' = AbsProc(p)
  <2>1. SUFFICES ASSUME NEW p \in Pids, p # c
                 PROVE  AbsProc(p)' = AbsProc(p)
    OBVIOUS
  <2>2. ASSUME task[p].policy_on = 1
        PROVE  /\ logs'[task[p].logArray] = logs[task[p].logArray]
               /\ Log(p).size # 0 => arrays'[Log(p).array] = arrays[Log(p).array]
    <3>1. /\ task[p].logArray # task[c].logArray
          /\ Log(p).size # 0 => Log(p).array # g.array
      BY <1>1, <1>g, <2>1, <2>2, OwnBlocks
    <3>2. /\ task[p].logArray \in DOMAIN logs
          /\ Log(p).size # 0 => Log(p).array \in DOMAIN arrays
      BY <2>2, OwnLog
    <3>3. QED
      BY <1>7, <3>1, <3>2
  <2>3. QED
    BY <1>6, <2>2, AbsKept
<1>9. /\ AbsProc(c)' = WithQueue(AbsProc(c), Append(q, r)) /\ AbsState[c] = AbsProc(c)
  <2>1. h.size = Log(c).size /\ h.array = Log(c).array /\ arrays'[Log(c).array] = b
    BY <1>5, <1>7, <1>g
  <2>2. task' = task /\ task[c].policy_on = 1 /\ logs'[task[c].logArray] = h
    BY <1>1, <1>6, <1>7
  <2>3. /\ AbsProc(c)' = WithQueue(AbsProc(c), Contents(h, b))
        /\ AbsState[c] = AbsProc(c)
    BY <2>1, <2>2, AbsRing
  <2>4. QED
    BY <1>3, <2>3
<1>10. /\ AbsState[c].queue = q /\ AbsState[c].on /\ AbsState[c].cap = g.size
       /\ AbsState[c].level = task[c].policy_level
       /\ AbsState[c].phase = Phase(task[c].state)
  BY <1>1, <1>g, <1>q, AbsKnown
<1>11. AbsState' = [AbsState EXCEPT ![c].queue = Append(q, r)]
  BY <1>8, <1>9, AbsStateOne DEF WithQueue
<1>12. AbsState' = [AbsState EXCEPT ![c].queue =
                      Append(AbsState[c].queue, [syscall_req_level |-> req,
                                                 proc_level |-> AbsState[c].level,
                                                 time |-> jiffies])]
  BY <1>10, <1>11, <1>r DEF Record
<1>13. /\ AbsState[c].phase = "active" /\ ~(AbsState[c].level >= req)
       /\ Len(AbsState[c].queue) < AbsState[c].cap
  <2>1. Phase(task[c].state) = "active"
    BY <1>1 DEF Phase
  <2>2. task[c].policy_level \in Int
    BY PolicyOnOff DEF Tasks, Levels
  <2>3. QED
    BY <1>1, <1>4, <1>10, <2>1, <2>2
<1>14. ~Abs!Admits(c, req)
  BY <1>10, <1>13 DEF Abs!Admits, AbsState
<1>15. Abs!Returns(-EINVAL)
  BY <1>6 DEF Abs!Returns, Return
<1>16. Abs!Deny(c, req)
  BY <1>12, <1>13, <1>14, <1>15 DEF Abs!Deny, AbsState
<1>17. QED
  BY <1>16 DEF Simulated, Abs!Next

\* sys_sched_yield and do_fork.
LEMMA YieldSteps ==
    ASSUME LogLargeEnough, RefineInv, NEW c \in Pids, SchedYield(c)
    PROVE  Simulated
BY DeniedSteps, NoEffectCall DEF SchedYield, YieldOk

LEMMA AbsAdmits ==
    ASSUME RefineInv, NEW c \in Pids, NEW req \in 1..2, ~Forbidden(c, req)
    PROVE  Abs!Admits(c, req)
<1>1. CASE task[c].policy_on = 0
  <2>1. AbsState[c].on = FALSE
    BY <1>1, AbsOff DEF AbsState, Abs!NoProc
  <2>2. QED
    BY <2>1 DEF Abs!Admits, AbsState
<1>2. CASE task[c].policy_on = 1
  <2>1. AbsState[c].level = task[c].policy_level
    BY <1>2, AbsKnown
  <2>2. task[c].policy_level >= req
    BY <1>2, PolicyOnOff DEF Forbidden, Tasks, Levels
  <2>3. QED
    BY <2>1, <2>2 DEF Abs!Admits, AbsState
<1>3. QED
  BY <1>1, <1>2, PolicyOnOff

LEMMA AbsPhase ==
    ASSUME NEW p \in Pids
    PROVE  AbsState[p].phase = Phase(task[p].state)
BY DEF AbsState, AbsProc

LEMMA ForkSteps ==
    ASSUME LogLargeEnough, RefineInv, NEW c \in Pids, Fork(c)
    PROVE  Simulated
<1>1. CASE Denied(c, 2)
  BY <1>1, DeniedSteps
<1>2. ASSUME NEW e \in {EINVAL, EPERM, EAGAIN, ENOMEM}, ForkFails(c, e)
      PROVE  Simulated
  BY <1>2, NoEffectCall DEF ForkFails, Fail, Errnos
<1>3. ASSUME NEW child \in Pids, ForkOk(c, child)
      PROVE  Simulated
  <2>1. task[c].state = "running" /\ task[child].state = "free" /\ ~Forbidden(c, 2)
    BY <1>3 DEF ForkOk, Running, Hashed
  <2>2. task[c] \in Tasks /\ DOMAIN task = Pids
    BY PolicyOnOff
  <2>3. Child(c).state = "running" /\ Child(c).policy_on = 0
    BY <2>2 DEF Child, Tasks
  <2>4. /\ task'[child].state = "running" /\ task'[child].policy_on = 0
        /\ \A p \in Pids : p # child => task'[p] = task[p]
    BY <1>3, <2>2, <2>3 DEF ForkOk
  <2>5. \A p \in Pids : p # child => AbsProc(p)' = AbsProc(p)
    BY <1>3, <2>4, AbsKeptTask DEF ForkOk
  <2>6. AbsProc(child)' = Abs!NoProc("active")
    BY <2>4 DEF AbsProc, Abs!NoProc, Phase
  <2>7. AbsState' = [AbsState EXCEPT ![child] = Abs!NoProc("active")]
    BY <2>5, <2>6, AbsStateOne
  <2>8. AbsState[c].phase = "active" /\ AbsState[child].phase = "free"
    BY <2>1, AbsPhase DEF Phase
  <2>9. Abs!Admits(c, 2)
    BY <2>1, AbsAdmits
  <2>10. Abs!Returns(child)
    BY <1>3 DEF Abs!Returns, ForkOk, Return
  <2>11. Abs!Spawn(c, child)
    BY <2>7, <2>8, <2>9, <2>10 DEF Abs!Spawn, AbsState
  <2>12. QED
    BY <2>11 DEF Simulated, Abs!Next
<1>4. QED
  BY <1>1, <1>2, <1>3 DEF Fork

-----------------------------------------------------------------------------
\* A process that goes from one phase to another with its policy.
LEMMA AbsMoved ==
    ASSUME RefineInv, NEW p \in Pids, NEW x, x = Phase(task'[p].state),
           task'[p].policy_on = task[p].policy_on,
           task[p].policy_on = 1 =>
               /\ task'[p].policy_level = task[p].policy_level
               /\ task'[p].logArray = task[p].logArray
               /\ logs'[task[p].logArray] = logs[task[p].logArray]
               /\ Log(p).size # 0 => arrays'[Log(p).array] = arrays[Log(p).array]
    PROVE  AbsProc(p)' = WithPhase(AbsProc(p), x)
<1>1. CASE task[p].policy_on = 0
  <2>1. AbsProc(p)' = Abs!NoProc(x)
    BY <1>1 DEF AbsProc, Abs!NoProc
  <2>2. AbsProc(p) = Abs!NoProc(Phase(task[p].state))
    BY <1>1, AbsOff
  <2>3. QED
    BY <2>1, <2>2, ProcFields
<1>2. CASE task[p].policy_on = 1
  <2>g. PICK g : g = Log(p)
    OBVIOUS
  <2>1. Log(p)' = g /\ g \in LogRecs /\ InRange(g)
    BY <1>2, <2>g, OwnLog DEF Log
  <2>2. Contents(g, arrays'[g.array]) = Contents(g, arrays[g.array])
    <3>1. CASE g.size = 0
      BY <2>1, <3>1, ContentsNone
    <3>2. CASE g.size # 0
      BY <1>2, <2>g, <3>2
    <3>3. QED
      BY <3>1, <3>2
  <2>3. AbsProc(p) = OnProc(Phase(task[p].state), task[p].policy_level, g.size,
                            Contents(g, arrays[g.array]))
    BY <1>2, <2>g, AbsOn DEF OnProc
  <2>4. AbsProc(p)' = [phase |-> Phase(task'[p].state), on |-> TRUE,
                       level |-> task'[p].policy_level, cap |-> g.size,
                       queue |-> Contents(g, arrays'[g.array])]
    BY <1>2, <2>1 DEF AbsProc
  <2>5. AbsProc(p)' = OnProc(x, task[p].policy_level, g.size, Contents(g, arrays[g.array]))
    BY <1>2, <2>2, <2>4 DEF OnProc
  <2>6. QED
    BY <2>3, <2>5, ProcFields
<1>3. QED
  BY <1>1, <1>2, PolicyOnOff

LEMMA AbsStateMoved ==
    ASSUME NEW p \in Pids, NEW x, AbsProc(p)' = WithPhase(AbsProc(p), x),
           \A q \in Pids : q # p => AbsProc(q)' = AbsProc(q)
    PROVE  AbsState' = [AbsState EXCEPT ![p].phase = x]
<1>1. AbsState[p] = AbsProc(p)
  BY DEF AbsState
<1>2. QED
  BY <1>1, AbsStateOne DEF WithPhase

\* do_exit: children change hands and waiters wake, which nobody sees.
LEMMA ExitSteps ==
    ASSUME RefineInv, NEW c \in Pids, Exit(c)
    PROVE  Simulated
<1>1. /\ task[c].state = "running" /\ logs' = logs /\ arrays' = arrays
      /\ jiffies' = jiffies /\ ret' = ret /\ user_mem' = user_mem
  BY DEF Exit, Running
<1>2. \A q \in Pids : task'[q] = AfterExit(c, q)
  BY DEF Exit
<1>3. ASSUME NEW q \in Pids
      PROVE  /\ task'[q].policy_on = task[q].policy_on
             /\ task'[q].policy_level = task[q].policy_level
             /\ task'[q].logArray = task[q].logArray
             /\ q = c => task'[q].state = "zombie"
             /\ q # c => Phase(task'[q].state) = Phase(task[q].state)
  <2>1. task[q] \in Tasks
    BY PolicyOnOff
  <2>2. PICK r \in Tasks : /\ r = IF q \in Orphans(c) THEN [task[q] EXCEPT !.parent = InitPid]
                                                      ELSE task[q]
                           /\ r.policy_on = task[q].policy_on
                           /\ r.policy_level = task[q].policy_level
                           /\ r.logArray = task[q].logArray
                           /\ r.state = task[q].state
    <3>1. InitPid \in Pids \cup {0}
      BY PidsAssumption
    <3>2. /\ [task[q] EXCEPT !.parent = InitPid] \in Tasks
          /\ [task[q] EXCEPT !.parent = InitPid].policy_on = task[q].policy_on
          /\ [task[q] EXCEPT !.parent = InitPid].policy_level = task[q].policy_level
          /\ [task[q] EXCEPT !.parent = InitPid].logArray = task[q].logArray
          /\ [task[q] EXCEPT !.parent = InitPid].state = task[q].state
      BY <2>1, <3>1 DEF Tasks
    <3>3. QED
      BY <2>1, <3>2
  <2>3. /\ Wake(r).policy_on = r.policy_on /\ Wake(r).policy_level = r.policy_level
        /\ Wake(r).logArray = r.logArray
        /\ Phase(Wake(r).state) = Phase(r.state)
    BY DEF Wake, Tasks, States, Phase
  <2>4. CASE q = c
    <3>1. task'[q] = [task[q] EXCEPT !.state = "zombie"]
      BY <1>2, <2>4 DEF AfterExit
    <3>2. QED
      BY <2>1, <2>4, <3>1 DEF Tasks
  <2>5. CASE q # c
    <3>1. task'[q] = Wake(r) \/ task'[q] = r
      BY <1>2, <2>2, <2>5 DEF AfterExit
    <3>2. QED
      BY <2>2, <2>3, <2>5, <3>1
  <2>6. QED
    BY <2>4, <2>5
<1>4. \A q \in Pids : q # c => AbsProc(q)' = AbsProc(q)
  BY <1>1, <1>3, AbsKeptTask
<1>5. AbsProc(c)' = WithPhase(AbsProc(c), "dead")
  <2>1. Phase(task'[c].state) = "dead"
    BY <1>3 DEF Phase
  <2>2. QED
    BY <1>1, <1>3, <2>1, AbsMoved
<1>6. AbsState' = [AbsState EXCEPT ![c].phase = "dead"]
  BY <1>4, <1>5, AbsStateMoved
<1>7. AbsState[c].phase = "active"
  BY <1>1, AbsPhase DEF Phase
<1>8. Abs!Die(c)
  BY <1>1, <1>6, <1>7 DEF Abs!Die, AbsState
<1>9. QED
  BY <1>8 DEF Simulated, Abs!Next

-----------------------------------------------------------------------------
\* sys_wait4.
LEMMA WaitFields ==
    ASSUME NEW u \in Tasks
    PROVE  /\ EndWait(u).policy_on = u.policy_on
           /\ EndWait(u).policy_level = u.policy_level
           /\ EndWait(u).logArray = u.logArray /\ EndWait(u).state = "running"
           /\ \A w : /\ Asleep(u, w).policy_on = u.policy_on
                     /\ Asleep(u, w).policy_level = u.policy_level
                     /\ Asleep(u, w).logArray = u.logArray
                     /\ Asleep(u, w).state = "waiting"
BY DEF EndWait, Asleep, Tasks

InCall(c) == \/ task[c].state = "running" /\ ~Forbidden(c, 1)
             \/ task[c].state \in {"waiting", "woken"}

LEMMA WaitReturnsSteps ==
    ASSUME RefineInv, NEW c \in Pids, InCall(c), NEW v, WaitReturns(c, v),
           \/ \E e \in Errnos : v = -e
           \/ v = 0 /\ task[c].state = "running"
    PROVE  Simulated
<1>1. task[c] \in Tasks /\ DOMAIN task = Pids
  BY PolicyOnOff
<1>2. /\ task'[c] = EndWait(task[c]) /\ \A p \in Pids : p # c => task'[p] = task[p]
      /\ logs' = logs /\ arrays' = arrays /\ jiffies' = jiffies /\ Return(v)
  BY <1>1 DEF WaitReturns
<1>3. /\ task'[c].policy_on = task[c].policy_on
      /\ task'[c].policy_level = task[c].policy_level
      /\ task'[c].logArray = task[c].logArray /\ task'[c].state = "running"
  BY <1>1, <1>2, WaitFields
<1>4. \A p \in Pids : p # c => AbsProc(p)' = AbsProc(p)
  BY <1>2, AbsKeptTask
<1>5. CASE task[c].state = "running"
  <2>1. AbsProc(c)' = AbsProc(c)
    BY <1>2, <1>3, <1>5, AbsKeptTask
  <2>2. QED
    BY <1>2, <1>4, <2>1, RefusedCall, EmptyCall
<1>6. CASE task[c].state \in {"waiting", "woken"}
  <2>1. PICK e \in Errnos : v = -e
    BY <1>6
  <2>2. AbsProc(c)' = WithPhase(AbsProc(c), "active")
    <3>1. Phase(task'[c].state) = "active"
      BY <1>3 DEF Phase
    <3>2. QED
      BY <1>2, <1>3, <3>1, AbsMoved
  <2>3. AbsState' = [AbsState EXCEPT ![c].phase = "active"]
    BY <1>4, <2>2, AbsStateMoved
  <2>4. AbsState[c].phase = "waiting"
    BY <1>6, AbsPhase DEF Phase
  <2>5. Abs!Returns(-e)
    BY <1>2, <2>1 DEF Abs!Returns, Return
  <2>6. Abs!LeaveWait(c)
    BY <2>3, <2>4, <2>5 DEF Abs!LeaveWait, AbsState
  <2>7. QED
    BY <2>6 DEF Simulated, Abs!Next
<1>7. QED
  BY <1>5, <1>6 DEF InCall

LEMMA WaitSleepsSteps ==
    ASSUME RefineInv, NEW c \in Pids, InCall(c), NEW w, WaitSleeps(c, w)
    PROVE  Simulated
<1>1. task[c] \in Tasks /\ DOMAIN task = Pids
  BY PolicyOnOff
<1>2. /\ task'[c] = Asleep(task[c], w) /\ \A p \in Pids : p # c => task'[p] = task[p]
      /\ logs' = logs /\ arrays' = arrays /\ jiffies' = jiffies
      /\ ret' = ret /\ user_mem' = user_mem
  BY <1>1 DEF WaitSleeps
<1>3. /\ task'[c].policy_on = task[c].policy_on
      /\ task'[c].policy_level = task[c].policy_level
      /\ task'[c].logArray = task[c].logArray /\ task'[c].state = "waiting"
  BY <1>1, <1>2, WaitFields
<1>4. \A p \in Pids : p # c => AbsProc(p)' = AbsProc(p)
  BY <1>2, AbsKeptTask
<1>5. CASE task[c].state = "running" /\ ~Forbidden(c, 1)
  <2>1. AbsProc(c)' = WithPhase(AbsProc(c), "waiting")
    <3>1. Phase(task'[c].state) = "waiting"
      BY <1>3 DEF Phase
    <3>2. QED
      BY <1>2, <1>3, <3>1, AbsMoved
  <2>2. AbsState' = [AbsState EXCEPT ![c].phase = "waiting"]
    BY <1>4, <2>1, AbsStateMoved
  <2>3. AbsState[c].phase = "active" /\ Abs!Admits(c, 1)
    BY <1>5, AbsPhase, AbsAdmits DEF Phase
  <2>4. Abs!BeginWait(c)
    BY <1>2, <2>2, <2>3 DEF Abs!BeginWait, AbsState
  <2>5. QED
    BY <2>4 DEF Simulated, Abs!Next
<1>6. CASE task[c].state \in {"waiting", "woken"}
  <2>1. Phase(task'[c].state) = Phase(task[c].state)
    BY <1>3, <1>6 DEF Phase
  <2>2. AbsProc(c)' = AbsProc(c)
    BY <1>2, <1>3, <2>1, AbsKeptTask
  <2>3. AbsState' = AbsState
    BY <1>4, <2>2, AbsStateKept
  <2>4. UNCHANGED Abs!vars
    BY <1>2, <2>3 DEF Abs!vars, AbsState
  <2>5. QED
    BY <2>4 DEF Simulated
<1>7. QED
  BY <1>5, <1>6 DEF InCall

LEMMA ReapSteps ==
    ASSUME RefineInv, NEW c \in Pids, InCall(c), NEW z \in Pids,
           task[z].state = "zombie", Reap(c, z)
    PROVE  Simulated
<1>1. task[c] \in Tasks /\ DOMAIN task = Pids /\ z # c
  BY PolicyOnOff DEF Reap
<1>2. /\ task'[c] = EndWait(task[c]) /\ task'[z] = FreeTask
      /\ \A p \in Pids : p # c /\ p # z => task'[p] = task[p]
      /\ jiffies' = jiffies /\ Return(z)
  BY <1>1 DEF Reap
<1>3. /\ task'[c].policy_on = task[c].policy_on
      /\ task'[c].policy_level = task[c].policy_level
      /\ task'[c].logArray = task[c].logArray /\ task'[c].state = "running"
  BY <1>1, <1>2, WaitFields
<1>4. ASSUME NEW p \in Pids, p # z, task[p].policy_on = 1
      PROVE  /\ logs'[task[p].logArray] = logs[task[p].logArray]
             /\ Log(p).size # 0 => arrays'[Log(p).array] = arrays[Log(p).array]
  <2>1. CASE task[z].policy_on = 0
    BY <2>1 DEF Reap
  <2>2. CASE task[z].policy_on = 1
    <3>1. arrays' = ArraysWithout(Log(z)) /\ logs' = LogsWithout(task[z].logArray)
      BY <2>2 DEF Reap
    <3>2. /\ task[p].logArray # task[z].logArray /\ task[p].logArray \in DOMAIN logs
          /\ Log(p).size # 0 => Log(p).array \in DOMAIN arrays
          /\ Log(p).size # 0 /\ Log(z).size # 0 => Log(p).array # Log(z).array
      BY <1>4, <2>2, OwnBlocks, OwnLog
    <3>3. QED
      BY <3>1, <3>2 DEF ArraysWithout, LogsWithout, kfree
  <2>3. QED
    BY <2>1, <2>2, PolicyOnOff
<1>5. \A p \in Pids : p # c /\ p # z => AbsProc(p)' = AbsProc(p)
  BY <1>2, <1>4, AbsKept
<1>6. AbsProc(c)' = WithPhase(AbsProc(c), "active")
  <2>1. Phase(task'[c].state) = "active"
    BY <1>3 DEF Phase
  <2>2. QED
    BY <1>1, <1>3, <1>4, <2>1, AbsMoved
<1>7. AbsProc(z)' = Abs!NoProc("free")
  BY <1>2 DEF AbsProc, FreeTask, Abs!NoProc, Phase
<1>8. AbsState' = [AbsState EXCEPT ![z] = Abs!NoProc("free"), ![c].phase = "active"]
  <2>1. AbsState[c] = AbsProc(c) /\ AbsState \in [Pids -> {AbsState[p] : p \in Pids}]
    BY DEF AbsState
  <2>u. PICK u : u = WithPhase(AbsState[c], "active")
    OBVIOUS
  <2>2. AbsProc(c)' = u
    BY <1>6, <2>1, <2>u
  <2>3. AbsState' = [[AbsState EXCEPT ![z] = Abs!NoProc("free")] EXCEPT ![c] = u]
    BY <1>1, <1>5, <1>7, <2>2 DEF AbsState
  <2>4. [AbsState EXCEPT ![z] = Abs!NoProc("free")][c] = AbsState[c]
    BY <1>1, <2>1
  <2>5. QED
    BY <2>3, <2>4, <2>u DEF WithPhase
<1>9. \/ AbsState[c].phase = "waiting"
      \/ AbsState[c].phase = "active" /\ Abs!Admits(c, 1)
  BY AbsPhase, AbsAdmits DEF InCall, Phase
<1>10. AbsState[z].phase = "dead"
  BY AbsPhase DEF Phase
<1>11. Abs!Returns(z)
  BY <1>2 DEF Abs!Returns, Return
<1>12. Abs!Reap(c, z)
  BY <1>8, <1>9, <1>10, <1>11 DEF Abs!Reap, AbsState
<1>13. QED
  BY <1>12 DEF Simulated, Abs!Next

\* One pass of sys_wait4's loop.
LEMMA WaitLoopSteps ==
    ASSUME RefineInv, NEW c \in Pids, InCall(c), NEW w, WaitLoop(c, w)
    PROVE  Simulated
<1>1. EFAULT \in Errnos /\ ERESTARTSYS \in Errnos /\ ECHILD \in Errnos
  BY DEF Errnos
<1>2. ASSUME NEW z \in Zombies(c, w), Reap(c, z)
      PROVE  Simulated
  <2>1. z \in Pids /\ task[z].state = "zombie"
    BY DEF Zombies, Matching, Hashed
  <2>2. QED
    BY <1>2, <2>1, ReapSteps
<1>3. ASSUME NEW e \in Errnos, WaitReturns(c, -e)
      PROVE  Simulated
  BY <1>3, WaitReturnsSteps
<1>4. QED
  BY <1>1, <1>2, <1>3, WaitSleepsSteps
  DEF WaitLoop, WaitReap, WaitFault, WaitSignalled, WaitBlocks, WaitNoChild

LEMMA Wait4Steps ==
    ASSUME LogLargeEnough, RefineInv, NEW c \in Pids, Wait4(c)
    PROVE  Simulated
<1>1. CASE Denied(c, 1)
  BY <1>1, DeniedSteps
<1>2. ASSUME NEW w, WaitBegins(c, w)
      PROVE  Simulated
  BY <1>2, WaitLoopSteps DEF WaitBegins, Running, InCall
<1>3. ASSUME NEW w, WaitNoHang(c, w)
      PROVE  Simulated
  <2>1. InCall(c) /\ task[c].state = "running" /\ WaitReturns(c, 0)
    BY <1>3 DEF WaitNoHang, Running, InCall
  <2>2. QED
    BY <2>1, WaitReturnsSteps
<1>4. CASE WaitBadOptions(c)
  <2>1. EINVAL \in Errnos
    BY DEF Errnos
  <2>2. QED
    BY <1>4, <2>1, NoEffectCall DEF WaitBadOptions, Fail
<1>5. CASE WaitRepeats(c)
  BY <1>5, WaitLoopSteps DEF WaitRepeats, InCall
<1>6. CASE WaitInterrupted(c)
  <2>1. InCall(c) /\ WaitLoop(c, task[c].wait)
    BY <1>6 DEF WaitInterrupted, InCall, WaitLoop
  <2>2. QED
    BY <2>1, WaitLoopSteps
<1>7. QED
  BY <1>1, <1>2, <1>3, <1>4, <1>5, <1>6 DEF Wait4

-----------------------------------------------------------------------------
\* Every step of PolicySys is a step of PolicySpec or leaves its state alone.
LEMMA EnableSteps ==
    ASSUME RefineInv, NEW c \in Pids, EnablePolicy(c)
    PROVE  Simulated
BY EnableFails, EnableSucceeds DEF EnablePolicy

LEMMA TickSteps ==
    ASSUME RefineInv, Tick
    PROVE  Simulated
<1>1. jiffies \in Nat /\ jiffies' = jiffies + 1
  BY DEF RefineInv, HeapInv, TypeOK, Tick
<1>2. AbsState' = AbsState
  BY AbsKeptAll, AbsStateKept DEF Tick
<1>3. ret' = ret /\ user_mem' = user_mem
  BY DEF Tick
<1>4. Abs!Tick
  BY <1>1, <1>2, <1>3 DEF Abs!Tick, AbsState
<1>5. QED
  BY <1>4 DEF Simulated, Abs!Next

LEMMA EveryStepSimulated ==
    ASSUME LogLargeEnough, RefineInv, [Next]_vars
    PROVE  Simulated
<1>1. CASE UNCHANGED vars
  <2>1. AbsState' = AbsState
    BY <1>1, AbsKeptAll, AbsStateKept DEF vars
  <2>2. UNCHANGED Abs!vars
    BY <1>1, <2>1 DEF vars, Abs!vars, AbsState
  <2>3. QED
    BY <2>2 DEF Simulated
<1>2. CASE Next
  BY <1>2, TickSteps, EnableSteps, DisableSteps, SetSteps, GetSteps,
     YieldSteps, ForkSteps, ExitSteps, Wait4Steps DEF Next
<1>3. QED
  BY <1>1, <1>2

-----------------------------------------------------------------------------
\* Where a hook never meets a full log, full stays a sign that the indexes meet.
LEMMA MeetStep == LogLargeEnough /\ RefineInv /\ [Next]_vars => MeetInv'
<1> SUFFICES ASSUME LogLargeEnough, RefineInv, [Next]_vars, NEW l \in DOMAIN logs'
             PROVE  Meets(logs'[l])
  BY DEF MeetInv
<1>t. /\ HeapInv /\ RingInv /\ MeetInv
      /\ \A m \in DOMAIN logs : logs[m] \in LogRecs /\ Meets(logs[m])
  BY DEF RefineInv, HeapInv, TypeOK, MeetInv
<1>1. CASE UNCHANGED <<logs, arrays>>
  BY <1>1, <1>t
<1>2. ASSUME NEW c \in Pids, NEW pid \in PidArgs, NEW size \in SizeArgs,
             NEW password \in Passwords, NEW h \in LogIds, NEW a \in ArrIds,
             EnableOk(c, pid, size, password, h, a)
      PROVE  Meets(logs'[l])
  <2>1. CASE l = h
    <3>1. logs'[l].full = 0
      BY <1>2, <2>1 DEF EnableOk, kmalloc, NewLog
    <3>2. QED
      BY <3>1 DEF Meets
  <2>2. CASE l # h
    BY <1>2, <1>t, <2>2 DEF EnableOk, kmalloc
  <2>3. QED
    BY <2>1, <2>2
<1>3. ASSUME NEW c \in Pids, NEW pid \in PidArgs, NEW size \in SizeArgs,
             GetFault(c, pid, size) \/ GetOk(c, pid, size)
      PROVE  Meets(logs'[l])
  <2> DEFINE h == task[pid].logArray
  <2>1. pid \in Pids /\ task[pid].policy_on = 1 /\ size \in Int /\ Enough(logs[h], size)
    BY <1>3, GetArgs DEF GetFault, GetOk, Log
  <2>2. /\ h \in DOMAIN logs /\ logs[h] \in LogRecs /\ Meets(logs[h])
        /\ RingOk(logs[h], arrays[logs[h].array])
    BY <2>1, OwnLog DEF Log
  <2>3. l \in DOMAIN logs /\ (l # h => logs'[l] = logs[l])
    BY <1>3 DEF GetFault, GetOk
  <2>4. CASE l # h
    BY <1>t, <2>3, <2>4
  <2>5. CASE l = h /\ GetFault(c, pid, size)
    <3>1. logs'[l] = RestoreRead(logs[h], size)
      BY <2>2, <2>5 DEF GetFault
    <3>2. QED
      BY <2>1, <2>2, <3>1, RingRestore
  <2>6. CASE l = h /\ GetOk(c, pid, size)
    <3>1. logs'[l] = FinishRead(logs[h], size) /\ size # 0
      BY <2>2, <2>6 DEF GetOk, EntersKernel
    <3>2. QED
      BY <2>1, <2>2, <3>1, ContentsGet
  <2>7. QED
    BY <1>3, <2>4, <2>5, <2>6
<1>4. ASSUME NEW c \in Pids, NEW req \in 1..2, Denied(c, req)
      PROVE  Meets(logs'[l])
  <2> DEFINE h == task[c].logArray
  <2>1. /\ h \in DOMAIN logs /\ logs[h] \in LogRecs
        /\ RingOk(logs[h], arrays[logs[h].array])
    BY <1>4, OwnLog DEF Denied, Forbidden, Log
  <2>2. logs[h].size # 0 /\ Count(logs[h]) < logs[h].size
    BY <1>4 DEF Denied, HasRoom, Log
  <2>3. l \in DOMAIN logs /\ logs'[l] = IF l = h THEN PutLog(logs[h]) ELSE logs[l]
    BY <1>4, <2>1 DEF Denied
  <2>4. Meets(PutLog(logs[h]))
    BY <2>1, <2>2, ContentsPut
  <2>5. QED
    BY <1>t, <2>3, <2>4
<1>5. ASSUME NEW q \in Pids, logs' = LogsWithout(task[q].logArray)
      PROVE  Meets(logs'[l])
  BY <1>5, <1>t DEF LogsWithout, kfree
<1>6. QED
  BY <1>t, <1>1, <1>2, <1>3, <1>4, <1>5, HeapChanges

LEMMA RefineInit == Init => RefineInv /\ Abs!Init
<1> SUFFICES ASSUME Init PROVE RefineInv /\ Abs!Init
  OBVIOUS
<1>1. RefineInv
  BY HeapInit DEF Init, RefineInv, RingInv, MeetInv
<1>2. ASSUME NEW p \in Pids
      PROVE  AbsProc(p) = Abs!NoProc(IF p = InitPid THEN "active" ELSE "free")
  <2>1. /\ task[p].policy_on = 0
        /\ task[p].state = IF p = InitPid THEN "running" ELSE "free"
    BY DEF Init, InitTask, FreeTask
  <2>2. Phase(task[p].state) = IF p = InitPid THEN "active" ELSE "free"
    BY <2>1 DEF Phase
  <2>3. QED
    BY <2>1, <2>2, AbsOff
<1>3. AbsState = [p \in Pids |-> Abs!NoProc(IF p = InitPid THEN "active" ELSE "free")]
  BY <1>2 DEF AbsState
<1>4. Abs!Init
  BY <1>3 DEF Abs!Init, AbsState, Init
<1>5. QED
  BY <1>1, <1>4

(***************************************************************************)
(* The policy's pointers, heap and rings keep the promise of PolicySpec:   *)
(* whatever calls, failures and exits happen, what callers see is a queue  *)
(* of the refused calls per policy, in order, each handed out once, and a  *)
(* call that fails changes nothing.  This needs what the comment at each   *)
(* hook assumes, that a refused call finds room in the log.                *)
(***************************************************************************)
THEOREM PolicyImplementsSpec == LogLargeEnough => (Spec => Refines)
<1> SUFFICES ASSUME LogLargeEnough PROVE Spec => Refines
  OBVIOUS
<1>1. Init => RefineInv /\ Abs!Init
  BY RefineInit
<1>2. RefineInv /\ [Next]_vars => RefineInv'
  BY HeapStep, RingStep, MeetStep DEF RefineInv
<1>3. RefineInv /\ [Next]_vars => [Abs!Next]_(Abs!vars)
  BY EveryStepSimulated DEF Simulated
<1>4. QED
  BY <1>1, <1>2, <1>3, PTL DEF Spec, Refines, Abs!Spec
=============================================================================
