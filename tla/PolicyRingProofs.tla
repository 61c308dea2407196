--------------------------- MODULE PolicyRingProofs ---------------------------
(***************************************************************************)
(* Safety of the ring: no access outside the array, no record that no hook *)
(* has written, also when the log overflows.                               *)
(***************************************************************************)
EXTENDS PolicySysProofs

(***************************************************************************)
(* RingSafe speaks of the records between the indexes.  The inductive form *)
(* speaks of slots: InWindow(g, i) says slot i is still to be read, and    *)
(* after an overflow every slot is.                                        *)
(***************************************************************************)
InWindow(g, i) ==
    \/ g.full = 1
    \/ g.indexRead <= i /\ i < g.indexWrite
    \/ g.indexWrite < g.indexRead /\ (g.indexRead <= i \/ i < g.indexWrite)

RingOk(g, arr) ==
    /\ InRange(g)
    /\ g.size # 0 =>
          /\ DOMAIN arr = 0..(g.size - 1)
          /\ \A i \in 0..(g.size - 1) : InWindow(g, i) => Justified(arr[i])

RingInv == \A l \in DOMAIN logs : RingOk(logs[l], arrays[logs[l].array])

\* What a hook does to a ring keeps it safe.
LEMMA RingPut ==
    ASSUME NEW g \in LogRecs, NEW arr, NEW rec,
           RingOk(g, arr), g.size # 0, Justified(rec)
    PROVE  RingOk(PutLog(g), PutArray(g, arr, rec))
<1> DEFINE w == Advance(g.indexWrite, g.size)
           h == PutLog(g)
           b == PutArray(g, arr, rec)
<1>1. g.indexWrite \in 0..(g.size - 1) /\ g.indexRead \in 0..(g.size - 1)
  BY DEF RingOk, InRange, LogRecs
<1>2. w \in 0..(g.size - 1)
  BY <1>1 DEF Advance, LogRecs
<1>3. /\ h.indexWrite = w /\ h.indexRead = g.indexRead /\ h.size = g.size
      /\ h.full = IF w = g.indexRead THEN 1 ELSE g.full
  BY DEF PutLog, LogRecs
<1>4. InRange(h)
  BY <1>1, <1>2, <1>3 DEF InRange, LogRecs
<1>5. /\ DOMAIN b = 0..(g.size - 1)
      /\ \A i \in 0..(g.size - 1) : b[i] = IF i = g.indexWrite THEN rec ELSE arr[i]
  BY <1>1 DEF PutArray, RingOk
<1>6. ASSUME NEW i \in 0..(g.size - 1), InWindow(h, i), i # g.indexWrite
      PROVE  InWindow(g, i)
  BY <1>1, <1>2, <1>3, <1>6 DEF InWindow, Advance, LogRecs
<1>7. QED
  BY <1>3, <1>4, <1>5, <1>6 DEF RingOk

\* A successful get_process_log keeps the ring safe.
LEMMA RingFinish ==
    ASSUME NEW g \in LogRecs, NEW arr, NEW k \in Int,
           RingOk(g, arr), Enough(g, k)
    PROVE  RingOk(FinishRead(g, k), arr)
<1> DEFINE r == Slot(g, k)
           h == FinishRead(g, k)
<1>1. /\ h.size = g.size /\ h.full = 0
      /\ h.indexWrite = IF k = g.size THEN 0 ELSE g.indexWrite
      /\ h.indexRead = IF k = g.size THEN 0 ELSE r
  BY DEF FinishRead, AfterLoop, LogRecs
<1>2. CASE k = g.size
  BY <1>1, <1>2 DEF RingOk, InRange, InWindow, LogRecs
<1>3. CASE k # g.size
  <2>1. g.size # 0 /\ k \in 0..(g.size - 1)
    BY <1>3 DEF Enough, LogRecs
  <2>2. g.indexWrite \in 0..(g.size - 1) /\ g.indexRead \in 0..(g.size - 1)
    BY <2>1 DEF RingOk, InRange, LogRecs
  <2>3. r \in 0..(g.size - 1)
    BY <2>1, <2>2 DEF Slot, LogRecs
  <2>4. InRange(h)
    BY <1>1, <1>3, <2>1, <2>2, <2>3 DEF InRange, LogRecs
  <2>5. ASSUME NEW i \in 0..(g.size - 1), InWindow(h, i)
        PROVE  InWindow(g, i)
    BY <1>1, <1>3, <2>1, <2>2, <2>3, <2>5 DEF InWindow, Slot, Enough, LogRecs
  <2>6. QED
    BY <1>1, <2>4, <2>5 DEF RingOk
<1>4. QED
  BY <1>2, <1>3

\* Taking the read index back keeps the ring safe.
LEMMA RingRestore ==
    ASSUME NEW g \in LogRecs, NEW k \in Int
    PROVE  RestoreRead(g, k) = g
BY DEF RestoreRead, AfterLoop, LogRecs

\* In a safe ring every record still to be read is a hook's.
LEMMA RingContents ==
    ASSUME NEW g \in LogRecs, NEW arr, RingOk(g, arr), g.size # 0
    PROVE  \A j \in 1..Count(g) : Justified(Contents(g, arr)[j])
<1>1. g.indexWrite \in 0..(g.size - 1) /\ g.indexRead \in 0..(g.size - 1)
  BY DEF RingOk, InRange, LogRecs
<1>2. Count(g) \in 0..g.size
  BY <1>1 DEF Count, LogRecs
<1>3. ASSUME NEW j \in 1..Count(g)
      PROVE  Slot(g, j - 1) \in 0..(g.size - 1) /\ InWindow(g, Slot(g, j - 1))
  BY <1>1, <1>2, <1>3 DEF Count, Slot, InWindow, LogRecs
<1>4. QED
  BY <1>2, <1>3 DEF Contents, ReadRecords, RingOk

-----------------------------------------------------------------------------
\* Every ring whose header and array a step leaves alone stays safe.
LEMMA RingKept ==
    ASSUME RingInv, NEW l \in DOMAIN logs,
           logs'[l] = logs[l],
           logs[l].size # 0 => arrays'[logs[l].array] = arrays[logs[l].array]
    PROVE  RingOk(logs'[l], arrays'[logs'[l].array])
BY DEF RingInv, RingOk

\* The heap changes only in these ways.
LEMMA HeapChanges ==
    ASSUME HeapInv, [Next]_vars
    PROVE  \/ UNCHANGED <<logs, arrays>>
           \/ \E c \in Pids, pid \in PidArgs, size \in SizeArgs,
                 password \in Passwords, h \in LogIds, a \in ArrIds :
                 EnableOk(c, pid, size, password, h, a)
           \/ \E c \in Pids, pid \in PidArgs, size \in SizeArgs :
                 GetFault(c, pid, size) \/ GetOk(c, pid, size)
           \/ \E c \in Pids, req \in 1..2 : Denied(c, req)
           \/ \E q \in Pids : /\ arrays' = ArraysWithout(Log(q))
                              /\ logs' = LogsWithout(task[q].logArray)
<1> DEFINE Goal == \/ UNCHANGED <<logs, arrays>>
                   \/ \E c \in Pids, pid \in PidArgs, size \in SizeArgs,
                         password \in Passwords, h \in LogIds, a \in ArrIds :
                         EnableOk(c, pid, size, password, h, a)
                   \/ \E c \in Pids, pid \in PidArgs, size \in SizeArgs :
                         GetFault(c, pid, size) \/ GetOk(c, pid, size)
                   \/ \E c \in Pids, req \in 1..2 : Denied(c, req)
                   \/ \E q \in Pids : /\ arrays' = ArraysWithout(Log(q))
                                      /\ logs' = LogsWithout(task[q].logArray)
<1>1. CASE UNCHANGED vars \/ Tick
  BY <1>1 DEF vars, Tick
<1>2. ASSUME NEW c \in Pids, EnablePolicy(c) PROVE Goal
  <2>1. ASSUME NEW pid \in PidArgs, NEW size \in SizeArgs,
               NEW password \in Passwords, NEW h \in LogIds,
               EnableNoArray(c, pid, size, password, h)
        PROVE  UNCHANGED <<logs, arrays>>
    BY <2>1 DEF EnableNoArray, HeapInv, TypeOK, kfree, kmalloc
  <2>2. QED
    BY <1>2, <2>1
    DEF EnablePolicy, EnableRefused, EnableNoHeader, Fail, NoEffect
<1>3. ASSUME NEW c \in Pids, DisablePolicy(c) PROVE Goal
  BY <1>3 DEF DisablePolicy, DisableRefused, DisableOk, disable_errno, Hashed,
              Fail, NoEffect, ESRCH, EINVAL
<1>4. ASSUME NEW c \in Pids, SetProcessCapabilities(c) PROVE Goal
  BY <1>4 DEF SetProcessCapabilities, SetRefused, SetOk, Fail, NoEffect
<1>5. ASSUME NEW c \in Pids, GetProcessLog(c) PROVE Goal
  BY <1>5 DEF GetProcessLog, GetNothing, GetRefused, GetNoMem, Fail, NoEffect
<1>6. ASSUME NEW c \in Pids, SchedYield(c) PROVE Goal
  BY <1>6 DEF SchedYield, YieldOk, NoEffect
<1>7. ASSUME NEW c \in Pids, Fork(c) PROVE Goal
  BY <1>7 DEF Fork, ForkFails, ForkOk, Fail, NoEffect
<1>8. ASSUME NEW c \in Pids, Exit(c) PROVE Goal
  BY <1>8 DEF Exit
<1>9. ASSUME NEW c \in Pids, Wait4(c) PROVE Goal
  <2>1. ASSUME NEW w, WaitLoop(c, w) PROVE Goal
    <3>1. ASSUME NEW z \in Pids, Reap(c, z) PROVE Goal
      BY <3>1 DEF Reap
    <3>2. QED
      BY <2>1, <3>1
      DEF WaitLoop, WaitReap, WaitFault, WaitSignalled, WaitBlocks,
          WaitNoChild, WaitReturns, WaitSleeps, Zombies, Matching, Hashed
  <2>2. QED
    BY <1>9, <2>1 DEF Wait4, WaitBegins, WaitNoHang, WaitRepeats,
                      WaitBadOptions, Fail, NoEffect,
                      WaitInterrupted, WaitSignalled, WaitReturns
<1>10. QED
  BY <1>1, <1>2, <1>3, <1>4, <1>5, <1>6, <1>7, <1>8, <1>9 DEF Next

\* Every step keeps every ring safe.
LEMMA RingStep == HeapInv /\ RingInv /\ [Next]_vars => RingInv'
<1> SUFFICES ASSUME HeapInv, RingInv, [Next]_vars,
                    NEW l \in DOMAIN logs'
             PROVE  RingOk(logs'[l], arrays'[logs'[l].array])
  BY DEF RingInv
<1>h. HeapInv'
  BY HeapStep
<1>t. /\ TypeOK /\ HeapOwned
      /\ \A m \in DOMAIN logs : logs[m] \in LogRecs
      /\ \A p \in Pids : task[p].policy_on = 1 => task[p].logArray \in DOMAIN logs
  BY DEF HeapInv, TypeOK, HeapOwned, Owners
<1>1. CASE UNCHANGED <<logs, arrays>>
  BY <1>1 DEF RingInv
<1>2. ASSUME NEW c \in Pids, NEW pid \in PidArgs, NEW size \in SizeArgs,
             NEW password \in Passwords, NEW h \in LogIds, NEW a \in ArrIds,
             EnableOk(c, pid, size, password, h, a)
      PROVE  RingOk(logs'[l], arrays'[logs'[l].array])
  <2>1. size \in Nat
    BY <1>2, ArgsAssumption DEF EnableOk, enable_errno, ESRCH, EINVAL
  <2>2. CASE l = h
    <3>1. /\ logs'[l] = NewLog(size, logs'[l].array)
          /\ size # 0 => arrays'[logs'[l].array] = NewArray(size)
      BY <1>2, <2>2 DEF EnableOk, kmalloc, NewLog
    <3>2. InRange(logs'[l]) /\ logs'[l].size = size
      BY <2>1, <3>1 DEF NewLog, InRange
    <3>3. \A i \in Int : ~InWindow(logs'[l], i)
      BY <3>1 DEF NewLog, InWindow
    <3>4. QED
      BY <2>1, <3>1, <3>2, <3>3 DEF RingOk, NewArray
  <2>3. CASE l # h
    <3>1. l \in DOMAIN logs /\ logs'[l] = logs[l]
      BY <1>2, <2>3 DEF EnableOk, kmalloc
    <3>2. logs[l].size # 0 => arrays'[logs[l].array] = arrays[logs[l].array]
      BY <1>2, <1>t, <3>1 DEF EnableOk, kmalloc, HeapOwned
    <3>3. QED
      BY <3>1, <3>2, RingKept
  <2>4. QED
    BY <2>2, <2>3
<1>3. ASSUME NEW c \in Pids, NEW pid \in PidArgs, NEW size \in SizeArgs,
             GetFault(c, pid, size) \/ GetOk(c, pid, size)
      PROVE  RingOk(logs'[l], arrays'[logs'[l].array])
  <2> DEFINE h == task[pid].logArray
  <2>1. pid \in Pids /\ task[pid].policy_on # 0 /\ Enough(logs[h], size)
    BY <1>3 DEF GetFault, GetOk, get_log_errno, Hashed, Log, ESRCH, EINVAL
  <2>2. h \in DOMAIN logs /\ logs[h] \in LogRecs /\ size \in Int
    BY <1>t, <2>1, ArgsAssumption DEF TypeOK, Tasks
  <2>3. l \in DOMAIN logs /\ arrays' = arrays /\ (l # h => logs'[l] = logs[l])
    BY <1>3 DEF GetFault, GetOk
  <2>4. CASE l # h
    BY <2>3, <2>4, RingKept
  <2>5. CASE l = h /\ GetFault(c, pid, size)
    BY <2>2, <2>3, <2>5, RingRestore, RingKept DEF GetFault
  <2>6. CASE l = h /\ GetOk(c, pid, size)
    <3>1. logs'[l] = FinishRead(logs[h], size)
      BY <2>2, <2>6 DEF GetOk
    <3>2. FinishRead(logs[h], size).array = logs[h].array
      BY <2>2 DEF FinishRead, AfterLoop, LogRecs
    <3>3. RingOk(logs[h], arrays[logs[h].array])
      BY <2>2 DEF RingInv
    <3>4. QED
      BY <2>1, <2>2, <2>3, <2>6, <3>1, <3>2, <3>3, RingFinish
  <2>7. QED
    BY <1>3, <2>4, <2>5, <2>6
<1>4. ASSUME NEW c \in Pids, NEW req \in 1..2, Denied(c, req)
      PROVE  RingOk(logs'[l], arrays'[logs'[l].array])
  <2> DEFINE h == task[c].logArray
             g == logs[h]
             rec == Record(req, task[c].policy_level, jiffies)
  <2>1. h \in DOMAIN logs /\ g \in LogRecs /\ g.size # 0
    BY <1>4, <1>t DEF Denied, Forbidden, HasRoom, Log
  <2>2. g.array \in DOMAIN arrays
    BY <1>t, <2>1 DEF HeapOwned
  <2>3. /\ DOMAIN logs' = DOMAIN logs /\ logs'[h] = PutLog(g)
        /\ arrays'[g.array] = PutArray(g, arrays[g.array], rec)
        /\ \A m \in DOMAIN logs \ {h} : logs'[m] = logs[m]
        /\ \A a \in DOMAIN arrays \ {g.array} : arrays'[a] = arrays[a]
    BY <1>4, <2>1, <2>2 DEF Denied, Log
  <2>4. CASE l # h
    <3>1. logs[l].size # 0 => /\ logs[l].array \in DOMAIN arrays
                              /\ logs[l].array # g.array
      BY <1>t, <2>1, <2>3, <2>4 DEF HeapOwned
    <3>2. QED
      BY <2>3, <2>4, <3>1, RingKept
  <2>5. CASE l = h
    <3>1. Justified(rec)
      <4>1. task[c].policy_level \in Levels /\ task[c].policy_level < req
        BY <1>4, <1>t DEF Denied, Forbidden, TypeOK, Tasks
      <4>2. task[c].policy_level \in 0..1
        BY <4>1 DEF Levels
      <4>3. jiffies \in Nat
        BY <1>t DEF TypeOK
      <4>4. QED
        BY <4>1, <4>2, <4>3 DEF Justified, Record, Records
    <3>2. PutLog(g).array = g.array
      BY <2>1 DEF PutLog, LogRecs
    <3>3. RingOk(g, arrays[g.array])
      BY <2>1 DEF RingInv
    <3>4. RingOk(PutLog(g), PutArray(g, arrays[g.array], rec))
      BY <2>1, <3>1, <3>3, RingPut
    <3>5. QED
      BY <2>3, <2>5, <3>2, <3>4
  <2>6. QED
    BY <2>4, <2>5
<1>5. ASSUME NEW q \in Pids, arrays' = ArraysWithout(Log(q)),
             logs' = LogsWithout(task[q].logArray)
      PROVE  RingOk(logs'[l], arrays'[logs'[l].array])
  <2>1. l \in DOMAIN logs /\ logs'[l] = logs[l]
    BY <1>5 DEF LogsWithout, kfree
  <2>2. \A a \in DOMAIN arrays' : arrays'[a] = arrays[a]
    BY <1>5 DEF ArraysWithout, kfree
  <2>3. logs'[l].size # 0 => logs'[l].array \in DOMAIN arrays'
    BY <1>h DEF HeapInv, HeapOwned
  <2>4. QED
    BY <2>1, <2>2, <2>3, RingKept
<1>6. QED
  BY <1>1, <1>2, <1>3, <1>4, <1>5, HeapChanges

(***************************************************************************)
(* No hook writes and no get_process_log reads outside a log's array, and  *)
(* every record still to be read was put there by a hook for a call above  *)
(* the process's level: RingSafe, for logs of any size, whether or not the *)
(* hooks' assumption that the log is large enough holds.                   *)
(***************************************************************************)
THEOREM RingIsSafe == Spec => []RingSafe
<1>1. Init => HeapInv /\ RingInv
  BY HeapInit DEF Init, RingInv
<1>2. HeapInv /\ RingInv /\ [Next]_vars => (HeapInv /\ RingInv)'
  BY HeapStep, RingStep
<1>3. HeapInv /\ RingInv => RingSafe
  <2> SUFFICES ASSUME HeapInv, RingInv, NEW l \in DOMAIN logs
               PROVE  /\ InRange(logs[l])
                      /\ logs[l].size # 0 =>
                            /\ DOMAIN arrays[logs[l].array] = 0..(logs[l].size - 1)
                            /\ \A j \in 1..Count(logs[l]) :
                                  Justified(Contents(logs[l],
                                                     arrays[logs[l].array])[j])
    BY DEF RingSafe
  <2>1. logs[l] \in LogRecs /\ RingOk(logs[l], arrays[logs[l].array])
    BY DEF HeapInv, TypeOK, RingInv
  <2>2. QED
    BY <2>1, RingContents DEF RingOk
<1>4. QED
  BY <1>1, <1>2, <1>3, PTL DEF Spec
===============================================================================
