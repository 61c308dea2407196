-------------------------- MODULE PolicySleepProofs --------------------------
(***************************************************************************)
(* What holds of the policy calls however they interleave where they sleep *)
(* (types, the write index inside the array), and what holds as long as    *)
(* their callers keep to the family discipline: no use of freed memory, no *)
(* leak, and a log that is exactly the queue unless it has been crowded.   *)
(***************************************************************************)
EXTENDS PolicySleep, TLAPS

Tasks == [alive : BOOLEAN, policy_on : {0, 1}, policy_level : {0, 2},
          logArray : LogIds \cup {NULL}]

LogRecs == [indexWrite : Nat, indexRead : Nat, size : Nat, full : {0, 1},
            array : ArrIds \cup {UNINIT}]

WriteInside(g) == g.indexWrite \in 0..(IF g.size = 0 THEN 0 ELSE g.size - 1)

Places == {"idle", "header", "array", "temp", "copy"}

IsFun(f) == f = [x \in DOMAIN f |-> f[x]]

CallFields == {"at", "pid", "size", "prev", "temp"}

\* The fields of the call that c sleeps in.
CallOk(r) ==
    /\ IsFun(r) /\ DOMAIN r = CallFields
    /\ r.at \in Places
    /\ r.pid \in Pids \cup {NULL}
    /\ r.at = "idle" <=> r.pid = NULL
    /\ r.size \in Nat /\ r.prev \in Nat

LogOk(g) == g = Garbage \/ (g \in LogRecs /\ WriteInside(g))

\* TypeOK with the types of what it leaves open.
LogTypes == /\ IsFun(logs)
            /\ DOMAIN logs \subseteq LogIds
            /\ \A l \in DOMAIN logs : LogOk(logs[l])

ArrayTypes == /\ IsFun(arrays)
              /\ DOMAIN arrays \subseteq ArrIds

CallTypes == IsFun(call) /\ DOMAIN call = Pids /\ \A c \in Pids : CallOk(call[c])

BoundTypes == keeps \in Disciplines /\ denied \in 0..MaxDenied[keeps]

TypeInv == task \in [Pids -> Tasks] /\ LogTypes /\ ArrayTypes /\ CallTypes /\ BoundTypes

-----------------------------------------------------------------------------
LEMMA GarbageIsNoLog == Garbage \notin LogRecs
BY WordsAssumption DEF Garbage, NewLog, LogRecs

LEMMA NewLogOk ==
    ASSUME NEW n \in Nat, NEW a \in ArrIds \cup {UNINIT}
    PROVE  NewLog(n, a) \in LogRecs /\ WriteInside(NewLog(n, a))
BY DEF NewLog, LogRecs, WriteInside

LEMMA CallingFields ==
    ASSUME NEW at, NEW p, NEW n
    PROVE  LET r == Calling(at, p, n)
           IN  /\ IsFun(r) /\ DOMAIN r = CallFields
               /\ r.at = at /\ r.pid = p /\ r.size = n /\ r.prev = 0
BY DEF Calling, IsFun, CallFields

LEMMA IdleOk == CallOk(Idle)
<1>1. /\ IsFun(Idle) /\ DOMAIN Idle = CallFields
      /\ Idle.at = "idle" /\ Idle.pid = NULL /\ Idle.size = 0 /\ Idle.prev = 0
  BY CallingFields DEF Idle
<1>2. QED
  BY <1>1 DEF CallOk, Places

LEMMA CallingOk ==
    ASSUME NEW at \in Places \ {"idle"}, NEW p \in Pids, NEW n \in Nat
    PROVE  /\ CallOk(Calling(at, p, n))
           /\ Calling(at, p, n).at = at
           /\ Calling(at, p, n).pid = p
           /\ Calling(at, p, n).size = n
<1> DEFINE r == Calling(at, p, n)
<1>1. /\ IsFun(r) /\ DOMAIN r = CallFields
      /\ r.at = at /\ r.pid = p /\ r.size = n /\ r.prev = 0
  BY CallingFields
<1> HIDE DEF r
<1>2. CallOk(r)
  BY <1>1, WordsAssumption DEF CallOk
<1>3. QED
  BY <1>1, <1>2 DEF r

\* A call moves on, or notes the read index it has found.
LEMMA CallMoves ==
    ASSUME NEW r, CallOk(r), r.pid \in Pids,
           NEW at \in Places \ {"idle"}, NEW t, NEW i \in Nat
    PROVE  /\ LET u == [r EXCEPT !.at = at]
              IN  /\ CallOk(u) /\ u.at = at /\ u.pid = r.pid /\ u.size = r.size
                  /\ u.prev = r.prev
           /\ LET u == [r EXCEPT !.at = at, !.temp = t]
              IN  /\ CallOk(u) /\ u.at = at /\ u.pid = r.pid /\ u.size = r.size
                  /\ u.prev = r.prev /\ u.temp = t
           /\ LET u == [r EXCEPT !.prev = i]
              IN  /\ CallOk(u) /\ u.at = r.at /\ u.pid = r.pid
                  /\ u.size = r.size /\ u.prev = i
<1>1. IsFun(r) /\ DOMAIN r = CallFields
  BY DEF CallOk
<1>2. at # "idle" /\ r.pid # NULL /\ r.at # "idle"
  BY WordsAssumption DEF CallOk
<1>3. ASSUME NEW u, IsFun(u), DOMAIN u = CallFields, u.at \in Places \ {"idle"},
             u.pid = r.pid, u.size = r.size, u.prev \in Nat
      PROVE  CallOk(u)
  BY <1>2, <1>3 DEF CallOk
<1>4. LET u == [r EXCEPT !.at = at]
      IN  /\ IsFun(u) /\ DOMAIN u = CallFields /\ u.at = at /\ u.pid = r.pid
          /\ u.size = r.size /\ u.prev = r.prev
  BY <1>1 DEF IsFun, CallFields
<1>5. LET u == [r EXCEPT !.at = at, !.temp = t]
      IN  /\ IsFun(u) /\ DOMAIN u = CallFields /\ u.at = at /\ u.pid = r.pid
          /\ u.size = r.size /\ u.prev = r.prev /\ u.temp = t
  BY <1>1 DEF IsFun, CallFields
<1>6. LET u == [r EXCEPT !.prev = i]
      IN  /\ IsFun(u) /\ DOMAIN u = CallFields /\ u.at = r.at /\ u.pid = r.pid
          /\ u.size = r.size /\ u.prev = i
  BY <1>1 DEF IsFun, CallFields
<1>7. r.prev \in Nat /\ r.at \in Places
  BY DEF CallOk
<1>8. QED
  BY <1>2, <1>3, <1>4, <1>5, <1>6, <1>7

LEMMA WithHeap ==
    ASSUME NEW heap, NEW b, NEW v
    PROVE  /\ DOMAIN With(heap, b, v) = DOMAIN heap \cup {b}
           /\ IsFun(With(heap, b, v))
           /\ With(heap, b, v)[b] = v
           /\ \A x \in DOMAIN heap \ {b} : With(heap, b, v)[x] = heap[x]
BY DEF With, IsFun

LEMMA WithoutHeap ==
    ASSUME NEW heap, NEW b
    PROVE  /\ DOMAIN Without(heap, b) = DOMAIN heap \ {b}
           /\ IsFun(Without(heap, b))
           /\ \A x \in DOMAIN heap \ {b} : Without(heap, b)[x] = heap[x]
BY DEF Without, IsFun

LEMMA PutLogOk ==
    ASSUME NEW g \in LogRecs, WriteInside(g), g.size # 0
    PROVE  /\ PutLog(g) \in LogRecs /\ WriteInside(PutLog(g))
           /\ PutLog(g).size = g.size /\ PutLog(g).array = g.array
           /\ PutLog(g).indexRead = g.indexRead
<1> DEFINE h == PutLog(g)
           w == Advance(g.indexWrite, g.size)
<1>1. w \in Nat /\ w \in 0..(g.size - 1)
  BY DEF Advance, LogRecs, WriteInside
<1>2. h = [g EXCEPT !.indexWrite = w, !.full = IF w = g.indexRead THEN 1 ELSE g.full]
  BY DEF PutLog
<1> HIDE DEF w, h
<1>3. /\ h \in LogRecs /\ h.size = g.size /\ h.array = g.array
      /\ h.indexRead = g.indexRead /\ h.indexWrite = w
  BY <1>1, <1>2 DEF LogRecs
<1>4. QED
  BY <1>1, <1>3 DEF WriteInside, h

LEMMA FinishOk ==
    ASSUME NEW g \in LogRecs, WriteInside(g), NEW k \in Nat
    PROVE  /\ Finish(g, k) \in LogRecs /\ WriteInside(Finish(g, k))
           /\ Finish(g, k).size = g.size /\ Finish(g, k).array = g.array
<1>1. CASE k = g.size
  <2>1. Finish(g, k) = [g EXCEPT !.full = 0, !.indexWrite = 0, !.indexRead = 0]
    BY <1>1 DEF Finish
  <2> DEFINE h == [g EXCEPT !.full = 0, !.indexWrite = 0, !.indexRead = 0]
  <2>2. h \in LogRecs /\ h.indexWrite = 0 /\ h.size = g.size /\ h.array = g.array
    BY DEF LogRecs
  <2> HIDE DEF h
  <2>3. WriteInside(h)
    BY <2>2 DEF LogRecs, WriteInside
  <2>4. QED
    BY <2>1, <2>2, <2>3 DEF h
<1>2. CASE k # g.size
  <2>1. Finish(g, k) = [g EXCEPT !.full = 0]
    BY <1>2 DEF Finish
  <2>2. QED
    BY <2>1 DEF LogRecs, WriteInside
<1>3. QED
  BY <1>1, <1>2

LEMMA SetReadOk ==
    ASSUME NEW g \in LogRecs, WriteInside(g), NEW r \in Nat
    PROVE  LET h == [g EXCEPT !.indexRead = r]
           IN  /\ h \in LogRecs /\ WriteInside(h) /\ h.indexRead = r
               /\ h.size = g.size /\ h.array = g.array
               /\ h.indexWrite = g.indexWrite /\ h.full = g.full
BY DEF LogRecs, WriteInside

LEMMA LoopSlotOk ==
    ASSUME NEW g \in LogRecs, g.indexRead < g.size, NEW j \in Nat
    PROVE  LoopSlot(g, j) \in 0..(g.size - 1)
BY DEF LoopSlot, LogRecs

\* Within one turn of the ring the loop stops where Slot says.
LEMMA LoopSlotIsSlot ==
    ASSUME NEW g \in LogRecs, g.indexRead < g.size, NEW j \in 0..g.size
    PROVE  LoopSlot(g, j) = Slot(g, j)
BY DEF LoopSlot, Slot, LogRecs

-----------------------------------------------------------------------------
\* The header of a log that is set up.
LEMMA ReadyLog ==
    ASSUME LogTypes, NEW l \in DOMAIN logs, logs[l] # Garbage
    PROVE  logs[l] \in LogRecs /\ WriteInside(logs[l])
BY DEF LogTypes, LogOk

\* Types of the heaps after a block is added, freed or written to.
LEMMA LogAdded ==
    ASSUME LogTypes, NEW h \in LogIds, NEW g, LogOk(g), logs' = With(logs, h, g)
    PROVE  LogTypes'
<1>1. /\ DOMAIN logs' = DOMAIN logs \cup {h} /\ logs'[h] = g
      /\ \A x \in DOMAIN logs \ {h} : logs'[x] = logs[x]
  BY DEF With
<1>2. IsFun(logs')
  BY WithHeap
<1>3. QED
  BY <1>1, <1>2 DEF LogTypes

LEMMA LogFreed ==
    ASSUME LogTypes, NEW l, logs' = Without(logs, l)
    PROVE  LogTypes'
<1>1. /\ DOMAIN logs' = DOMAIN logs \ {l}
      /\ \A x \in DOMAIN logs \ {l} : logs'[x] = logs[x]
  BY WithoutHeap
<1>2. IsFun(logs')
  BY WithoutHeap
<1>3. QED
  BY <1>1, <1>2 DEF LogTypes

LEMMA LogWritten ==
    ASSUME LogTypes, NEW l \in DOMAIN logs, NEW g, LogOk(g),
           logs' = [logs EXCEPT ![l] = g]
    PROVE  LogTypes'
BY DEF LogTypes, IsFun

LEMMA ArrayAdded ==
    ASSUME ArrayTypes, NEW a \in ArrIds, NEW v, arrays' = With(arrays, a, v)
    PROVE  ArrayTypes'
<1>1. DOMAIN arrays' = DOMAIN arrays \cup {a}
  BY WithHeap
<1>2. IsFun(arrays')
  BY WithHeap
<1>3. QED
  BY <1>1, <1>2 DEF ArrayTypes

LEMMA ArrayFreed ==
    ASSUME ArrayTypes, NEW a, arrays' = Without(arrays, a)
    PROVE  ArrayTypes'
<1>1. DOMAIN arrays' = DOMAIN arrays \ {a}
  BY WithoutHeap
<1>2. IsFun(arrays')
  BY WithoutHeap
<1>3. QED
  BY <1>1, <1>2 DEF ArrayTypes

LEMMA ArrayWritten ==
    ASSUME ArrayTypes, NEW a, NEW v, arrays' = [arrays EXCEPT ![a] = v]
    PROVE  ArrayTypes'
BY DEF ArrayTypes, IsFun

LEMMA CallEnds ==
    ASSUME CallTypes, NEW c \in Pids, Done(c)
    PROVE  CallTypes' /\ call'[c] = Idle
                      /\ \A d \in Pids \ {c} : call'[d] = call[d]
BY IdleOk DEF CallTypes, IsFun, Done

LEMMA CallSet ==
    ASSUME CallTypes, NEW c \in Pids, NEW r, CallOk(r),
           call' = [call EXCEPT ![c] = r]
    PROVE  CallTypes' /\ call'[c] = r
                      /\ \A d \in Pids \ {c} : call'[d] = call[d]
BY DEF CallTypes, IsFun

-----------------------------------------------------------------------------
\* Where a call is that has not come back yet.
LEMMA Resuming ==
    ASSUME CallTypes, NEW c \in Pids, NEW at \in Places \ {"idle"}, Resumes(c, at)
    PROVE  call[c].pid \in Pids /\ call[c].size \in Nat /\ call[c].prev \in Nat
BY DEF CallTypes, CallOk, Resumes

\* One lemma for each group of steps: they keep the types.
LEMMA EnableTypes ==
    ASSUME TypeInv, NEW c \in Pids, NEW h \in LogIds, EnableHeader(c, h)
    PROVE  TypeInv'
<1> DEFINE p == call[c].pid
<1>1. p \in Pids /\ call[c].size \in Nat
  BY Resuming DEF EnableHeader, TypeInv, Places
<1>2. BoundTypes' /\ ArrayTypes'
  BY DEF EnableHeader, TypeInv, BoundTypes, ArrayTypes
<1>3. CASE call[c].size = 0
  <2>1. Enable(p, 0, h, UNINIT) /\ Done(c)
    BY <1>3 DEF EnableHeader
  <2>2. task' \in [Pids -> Tasks]
    BY <1>1, <2>1 DEF Enable, TypeInv, Tasks
  <2>3. LogTypes'
    BY <2>1, LogAdded, NewLogOk DEF Enable, TypeInv, LogOk
  <2>4. CallTypes'
    BY <2>1, CallEnds DEF TypeInv
  <2>5. QED
    BY <1>2, <2>2, <2>3, <2>4 DEF TypeInv
<1>4. CASE call[c].size # 0
  <2>1. /\ logs' = With(logs, h, Garbage)
        /\ task' = [task EXCEPT ![p].logArray = h]
        /\ call' = [call EXCEPT ![c].at = "array"]
    BY <1>4 DEF EnableHeader
  <2>2. task' \in [Pids -> Tasks]
    BY <1>1, <2>1 DEF TypeInv, Tasks
  <2>3. LogTypes'
    BY <2>1, LogAdded DEF TypeInv, LogOk
  <2>4. CallTypes'
    <3>1. CallOk([call[c] EXCEPT !.at = "array"])
      BY <1>1, CallMoves DEF TypeInv, CallTypes, Places
    <3>2. call' = [call EXCEPT ![c] = [call[c] EXCEPT !.at = "array"]]
      BY <2>1
    <3>3. QED
      BY <3>1, <3>2, CallSet DEF TypeInv
  <2>5. QED
    BY <1>2, <2>2, <2>3, <2>4 DEF TypeInv
<1>5. QED
  BY <1>3, <1>4

LEMMA ArrayStepTypes ==
    ASSUME TypeInv, NEW c \in Pids, NEW a \in ArrIds, EnableArray(c, a)
    PROVE  TypeInv'
<1> DEFINE p == call[c].pid
<1>1. p \in Pids /\ call[c].size \in Nat
  BY Resuming DEF EnableArray, TypeInv, Places
<1>2. task[p].logArray \in LogIds
  BY DEF EnableArray, LogThere, TypeInv, LogTypes
<1>3. BoundTypes'
  BY SMTT(30) DEF EnableArray, TypeInv, BoundTypes
<1>4. task' \in [Pids -> Tasks]
  BY <1>1, <1>2 DEF EnableArray, Enable, TypeInv, Tasks
<1>5. LogTypes'
  BY <1>1, <1>2, LogAdded, NewLogOk DEF EnableArray, Enable, TypeInv, LogOk
<1>6. ArrayTypes'
  BY ArrayAdded DEF EnableArray, TypeInv
<1>7. CallTypes'
  BY CallEnds DEF EnableArray, TypeInv
<1>8. QED
  BY <1>3, <1>4, <1>5, <1>6, <1>7 DEF TypeInv

\* The steps of a call that only end it, and the ones that go wrong.
LEMMA EndTypes ==
    ASSUME TypeInv, NEW c \in Pids,
           \/ EnableNoHeader(c) \/ EnableNoArray(c) \/ EnableWild(c)
           \/ GetNoMem(c) \/ GetWild(c)
    PROVE  TypeInv'
<1>1. Done(c) /\ UNCHANGED <<denied, keeps>>
  BY DEF EnableNoHeader, EnableNoArray, EnableWild, GetNoMem, GetWild, Wild
<1>2. CallTypes' /\ BoundTypes'
  BY <1>1, CallEnds DEF TypeInv, BoundTypes
<1>3. ArrayTypes' /\ LogTypes'
  <2>1. CASE EnableNoArray(c)
    BY <2>1, LogFreed DEF EnableNoArray, TypeInv, ArrayTypes
  <2>2. CASE ~EnableNoArray(c)
    BY <2>2 DEF EnableNoHeader, EnableWild, GetNoMem, GetWild, Wild, TypeInv,
                ArrayTypes, LogTypes
  <2>3. QED
    BY <2>1, <2>2
<1>4. task' \in [Pids -> Tasks]
  <2>1. CASE EnableNoHeader(c)
    <3>1. call[c].pid \in Pids
      BY <2>1, Resuming DEF EnableNoHeader, TypeInv, Places
    <3>2. QED
      BY <2>1, <3>1 DEF EnableNoHeader, TypeInv, Tasks
  <2>2. CASE ~EnableNoHeader(c)
    BY <2>2 DEF EnableNoArray, EnableWild, GetNoMem, GetWild, Wild, TypeInv
  <2>3. QED
    BY <2>1, <2>2
<1>5. QED
  BY <1>2, <1>3, <1>4 DEF TypeInv
LEMMA BeginTypes ==
    ASSUME TypeInv, NEW c \in Pids, NEW p \in Pids, NEW n \in Sizes,
           EnableBegins(c, p, n) \/ GetBegins(c, p, n)
    PROVE  TypeInv'
<1>1. n \in Nat
  BY SleepAssumption
<1>2. UNCHANGED <<task, logs, arrays, denied, keeps>>
  BY DEF EnableBegins, GetBegins
<1>3. task' \in [Pids -> Tasks] /\ LogTypes' /\ ArrayTypes' /\ BoundTypes'
  BY <1>2 DEF TypeInv, LogTypes, ArrayTypes, BoundTypes
<1>4. CallTypes'
  <2>1. CASE EnableBegins(c, p, n)
    <3>1. CallOk(Calling("header", p, n))
      BY <1>1, CallingOk DEF Places
    <3>2. QED
      BY <2>1, <3>1, CallSet DEF EnableBegins, TypeInv
  <2>2. CASE GetBegins(c, p, n)
    <3>1. Log(p) \in LogRecs
      BY <2>2, ReadyLog DEF GetBegins, HasLog, TypeInv, Log
    <3> DEFINE r == [Calling("temp", p, n) EXCEPT !.prev = Log(p).indexRead]
    <3>2. CallOk(r)
      <4>1. CallOk(Calling("temp", p, n)) /\ Calling("temp", p, n).pid \in Pids
        BY <1>1, CallingOk DEF Places
      <4>2. Log(p).indexRead \in Nat /\ "temp" \in Places \ {"idle"}
        BY <3>1 DEF LogRecs, Places
      <4>3. QED
        BY <4>1, <4>2, CallMoves
    <3>3. call' = [call EXCEPT ![c] = r]
      BY <2>2 DEF GetBegins
    <3> HIDE DEF r
    <3>4. QED
      BY <3>2, <3>3, CallSet DEF TypeInv
  <2>3. QED
    BY <2>1, <2>2
<1>5. QED
  BY <1>3, <1>4 DEF TypeInv

LEMMA FreeTypes ==
    ASSUME TypeInv, NEW p \in Pids, FreeLog(p)
    PROVE  LogTypes' /\ ArrayTypes'
<1>1. LogTypes'
  BY LogFreed DEF FreeLog, TypeInv
<1>2. arrays' = arrays \/ arrays' = Without(arrays, Log(p).array)
  BY DEF FreeLog
<1>3. ArrayTypes'
  BY <1>2, ArrayFreed DEF TypeInv, ArrayTypes
<1>4. QED
  BY <1>1, <1>3

LEMMA CallKept == ASSUME CallTypes, call' = call PROVE CallTypes'
BY DEF CallTypes

LEMMA TaskTypes ==
    ASSUME TypeInv, NEW c \in Pids, NEW p \in Pids, NEW l \in {0, 2},
           Disable(c, p) \/ SetLevel(c, p, l) \/ Release(p)
    PROVE  TypeInv'
<1>1. CallTypes' /\ BoundTypes'
  BY CallKept DEF Disable, SetLevel, Release, TypeInv, BoundTypes
<1>2. LogTypes' /\ ArrayTypes'
  BY FreeTypes DEF Disable, SetLevel, Release, TypeInv, LogTypes, ArrayTypes
<1>3. task' \in [Pids -> Tasks]
  <2>1. CASE Disable(c, p)
    BY <2>1 DEF Disable, Disabled, TypeInv, Tasks
  <2>2. CASE SetLevel(c, p, l)
    BY <2>2 DEF SetLevel, TypeInv, Tasks
  <2>3. CASE Release(p)
    <3>1. task' = [task EXCEPT ![p].alive = FALSE, ![p].policy_on = 0]
      BY <2>3 DEF Release
    <3>2. QED
      BY <3>1 DEF TypeInv, Tasks
  <2>4. QED
    BY <2>1, <2>2, <2>3
<1>4. QED
  BY <1>1, <1>2, <1>3 DEF TypeInv

LEMMA GetLoopTypes ==
    ASSUME TypeInv, NEW c \in Pids, GetLoop(c)
    PROVE  TypeInv'
<1> DEFINE p == call[c].pid
           k == call[c].size
           g == Log(p)
           h == [g EXCEPT !.indexRead = LoopSlot(g, k)]
           t == [j \in 1..k |-> arrays[g.array][LoopSlot(g, j - 1)]]
           r == [call[c] EXCEPT !.at = "copy", !.temp = t]
<1>1. p \in Pids /\ k \in Nat
  BY Resuming, SMTT(30) DEF GetLoop, TypeInv, Places
<1>2. g \in LogRecs /\ WriteInside(g) /\ task[p].logArray \in DOMAIN logs
  BY ReadyLog DEF GetLoop, LogReady, LogThere, TypeInv, Log
<1>3. LogOk(h)
  <2>1. LoopSlot(g, k) \in Nat
    BY <1>1, <1>2, LoopSlotOk DEF GetLoop, LogRecs
  <2>2. QED
    BY <1>2, <2>1, SetReadOk DEF LogOk
<1>4. CallOk(r)
  <2> HIDE DEF t
  <2>1. CallOk(call[c])
    BY SMTT(30) DEF TypeInv, CallTypes
  <2>2. QED
    BY <1>1, <2>1, CallMoves, ZenonT(60) DEF Places
<1>5. /\ logs' = [logs EXCEPT ![task[p].logArray] = h]
      /\ call' = [call EXCEPT ![c] = r]
      /\ UNCHANGED <<task, arrays, denied, keeps>>
  BY DEF GetLoop, Log
<1> HIDE DEF h, r
<1>6. LogTypes' /\ CallTypes'
  BY <1>2, <1>3, <1>4, <1>5, LogWritten, CallSet DEF TypeInv
<1>7. QED
  BY <1>5, <1>6 DEF TypeInv, ArrayTypes, BoundTypes

LEMMA GetEndTypes ==
    ASSUME TypeInv, NEW c \in Pids, GetOk(c) \/ GetFault(c)
    PROVE  TypeInv'
<1> DEFINE p == call[c].pid
           l == task[p].logArray
<1>1. /\ p \in Pids /\ call[c].size \in Nat /\ call[c].prev \in Nat
  BY Resuming DEF GetOk, GetFault, TypeInv, Places
<1>2. l \in DOMAIN logs /\ logs[l] \in LogRecs /\ WriteInside(logs[l])
  BY ReadyLog DEF GetOk, GetFault, LogReady, LogThere, TypeInv, Log
<1>3. PICK g : LogOk(g) /\ logs' = [logs EXCEPT ![l] = g]
  <2>1. CASE GetOk(c)
    BY <2>1, <1>1, <1>2, FinishOk DEF GetOk, LogOk
  <2>2. CASE GetFault(c)
    <3>1. logs' = [logs EXCEPT ![l] = [logs[l] EXCEPT !.indexRead = call[c].prev]]
      BY <2>2 DEF GetFault
    <3>2. QED
      BY <3>1, <1>1, <1>2, SetReadOk DEF LogOk
  <2>3. QED
    BY <2>1, <2>2
<1>4. LogTypes'
  BY <1>2, <1>3, LogWritten DEF TypeInv
<1>5. CallTypes' /\ UNCHANGED <<task, arrays, denied, keeps>>
  BY CallEnds DEF GetOk, GetFault, TypeInv
<1>6. QED
  BY <1>4, <1>5 DEF TypeInv, ArrayTypes, BoundTypes

LEMMA DeniedTypes ==
    ASSUME TypeInv, NEW c \in Pids, Denied(c)
    PROVE  TypeInv'
<1> DEFINE l == task[c].logArray
<1>1. l \in DOMAIN logs /\ logs[l] \in LogRecs /\ WriteInside(logs[l])
  BY ReadyLog DEF Denied, HasLog, TypeInv, Log
<1>2. logs' = [logs EXCEPT ![l] = PutLog(logs[l])]
  BY DEF Denied
<1>3. LogOk(PutLog(logs[l]))
  BY <1>1, PutLogOk DEF Denied, Log, LogOk
<1>4. LogTypes'
  BY <1>1, <1>2, <1>3, LogWritten DEF TypeInv
<1>5. ArrayTypes'
  BY ArrayWritten DEF Denied, TypeInv
<1>6. BoundTypes'
  <2>1. MaxDenied[keeps] \in Nat
    BY SleepAssumption DEF TypeInv, BoundTypes
  <2>2. QED
    BY <2>1 DEF Denied, TypeInv, BoundTypes
<1>7. CallTypes' /\ task' = task
  BY CallKept DEF Denied, TypeInv
<1>8. QED
  BY <1>4, <1>5, <1>6, <1>7 DEF TypeInv

LEMMA TypeStep == TypeInv /\ [Next]_vars => TypeInv'
<1> SUFFICES ASSUME TypeInv, [Next]_vars PROVE TypeInv'
  OBVIOUS
<1>1. CASE UNCHANGED vars
  BY <1>1 DEF vars, TypeInv, LogTypes, ArrayTypes, CallTypes, BoundTypes
<1>2. CASE Next
  <2>1. PICK c \in Pids :
           \/ \E p \in Pids, n \in Sizes : EnableBegins(c, p, n) \/ GetBegins(c, p, n)
           \/ \E h \in LogIds : EnableHeader(c, h)
           \/ \E a \in ArrIds : EnableArray(c, a)
           \/ EnableNoHeader(c) \/ EnableNoArray(c) \/ EnableWild(c)
           \/ GetNoMem(c) \/ GetWild(c)
           \/ \E p \in Pids, l \in {0, 2} : Disable(c, p) \/ SetLevel(c, p, l)
                                                          \/ Release(p)
           \/ GetLoop(c)
           \/ GetOk(c) \/ GetFault(c)
           \/ Denied(c)
           \/ DanglingUse(c)
    BY <1>2 DEF Next, Yield, KernelYield
  <2>2. CASE DanglingUse(c)
    BY <2>2, CallKept DEF DanglingUse, TypeInv, LogTypes, ArrayTypes, BoundTypes
  <2>3. QED
    BY <2>1, <2>2, BeginTypes, EnableTypes, ArrayStepTypes, EndTypes, TaskTypes,
       GetLoopTypes, GetEndTypes, DeniedTypes
<1>3. QED
  BY <1>1, <1>2

LEMMA TypeInit == Init => TypeInv
<1> SUFFICES ASSUME Init PROVE TypeInv
  OBVIOUS
<1>1. LogTypes /\ ArrayTypes
  BY DEF Init, LogTypes, ArrayTypes, IsFun
<1>2. CallTypes
  BY IdleOk DEF Init, CallTypes, IsFun
<1>3. BoundTypes
  BY SleepAssumption DEF Init, BoundTypes
<1>4. QED
  BY <1>1, <1>2, <1>3 DEF Init, TypeInv, Tasks

LEMMA TypeInvIsTypeOK == TypeInv => TypeOK
<1> SUFFICES ASSUME TypeInv PROVE TypeOK
  OBVIOUS
<1>1. ASSUME NEW l \in DOMAIN logs, logs[l] # Garbage
      PROVE  /\ logs[l].size \in Nat /\ logs[l].indexRead \in Nat
             /\ WriteInside(logs[l])
  BY <1>1, ReadyLog DEF TypeInv, LogRecs
<1>2. QED
  BY <1>1 DEF TypeInv, TypeOK, Tasks, LogTypes, ArrayTypes, CallTypes, CallOk,
              Places, BoundTypes, WriteInside

LEMMA TypeInvariant == Spec => []TypeInv
BY TypeInit, TypeStep, PTL DEF Spec

(***************************************************************************)
(* However the calls of kernel/hw1_syscalls.c and the yields inside the    *)
(* allocator interleave, the values stay in their types and the write      *)
(* index of every log that is set up stays inside its array.               *)
(***************************************************************************)
THEOREM SleepTypes == Spec => []TypeOK
BY TypeInvariant, TypeInvIsTypeOK, PTL

-----------------------------------------------------------------------------
(***************************************************************************)
(* What holds while callers keep to the discipline.  A call is about a task*)
(* that is there, the caller's own or a child's, and no other call is about*)
(* the same one; it finds the policy as it left it; a policy that is on has a log that is set up, and *)
(* an array if it has a size, which no other task points to.               *)
(***************************************************************************)
On(p) == task[p].policy_on = 1

\* An enable_policy about p sleeps in the kmalloc of the array.
Halfway(p) == \E c \in Pids : call[c].at = "array" /\ call[c].pid = p

Owns(p) == On(p) \/ Halfway(p)

ReadInside(g) == IF g.size = 0 THEN g.indexRead = 0 ELSE g.indexRead < g.size

CallsApart ==
    /\ \A c \in Pids : call[c].at # "idle" =>
          /\ task[call[c].pid].alive
          /\ c \in {call[c].pid, Parent[call[c].pid]}
    /\ \A c, d \in Pids : call[c].at # "idle" /\ call[c].pid = call[d].pid => c = d

\* What a sleeping call r comes back to.
Expects(r) ==
    /\ r.at \in {"header", "array"} => ~On(r.pid)
    /\ r.at = "array" => /\ task[r.pid].logArray \in DOMAIN logs
                         /\ Log(r.pid) = Garbage
                         /\ r.size # 0
    /\ r.at \in {"temp", "copy"} => On(r.pid) /\ r.prev < Log(r.pid).size

ExpectedAt(p) == \A c \in Pids : call[c].pid = p => Expects(call[c])

ReadyAt(p) == On(p) =>
    /\ task[p].alive
    /\ task[p].logArray \in DOMAIN logs /\ Log(p) # Garbage
    /\ ReadInside(Log(p))
    /\ Log(p).size # 0 => Log(p).array \in DOMAIN arrays

HasArray(p) == On(p) /\ Log(p).size # 0

LogsApart == \A p, q \in Pids : p # q =>
    /\ Owns(p) /\ Owns(q) => task[p].logArray # task[q].logArray
    /\ HasArray(p) /\ HasArray(q) => Log(p).array # Log(q).array

Kept == /\ ~wild
        /\ CallsApart
        /\ \A p \in Pids : ExpectedAt(p) /\ ReadyAt(p)
        /\ LogsApart
        /\ NoLeak

KeptInv == keeps # "any" => Kept


\* A step that is about p leaves the calls, the task_structs, the headers and
\* the arrays of the others alone, and p has what it had or what is new.
CallFrame(c, p) ==
    /\ \A d \in Pids \ {c} : call'[d] = call[d]
    /\ \/ call'[c] = call[c]
       \/ call[c].pid \in {p, NULL} /\ call'[c].pid \in {p, NULL}

HeapFrame(p) == \A q \in Pids \ {p} :
    /\ task'[q] = task[q]
    /\ Owns(q) => /\ task[q].logArray \in DOMAIN logs'
                  /\ logs'[task[q].logArray] = Log(q)
    /\ HasArray(q) => /\ Log(q).array \in DOMAIN arrays'
                      /\ arrays'[Log(q).array] = arrays[Log(q).array]

LogFrame(p) ==
    /\ Owns(p)' => \/ Owns(p) /\ task'[p].logArray = task[p].logArray
                   \/ task'[p].logArray \notin DOMAIN logs
    /\ \A l \in DOMAIN logs' :
          \/ l \in DOMAIN logs /\ (Owns(p) => task[p].logArray # l)
          \/ Owns(p)' /\ task'[p].logArray = l

ArrayFrame(p) ==
    /\ HasArray(p)' => \/ HasArray(p) /\ Log(p)'.array = Log(p).array
                       \/ Log(p)'.array \notin DOMAIN arrays
    /\ \A a \in DOMAIN arrays' :
          \/ a \in DOMAIN arrays /\ (HasArray(p) => Log(p).array # a)
          \/ HasArray(p)' /\ Log(p)'.array = a

\* An owner's header is there, and set up when the policy is on.
LEMMA OwnerHasLog ==
    ASSUME TypeInv, Kept, NEW p \in Pids, Owns(p)
    PROVE  /\ task[p].logArray \in DOMAIN logs
           /\ Log(p) # Garbage <=> On(p)
           /\ On(p) => Log(p) \in LogRecs /\ WriteInside(Log(p))
<1>1. CASE On(p)
  BY <1>1, ReadyLog DEF Kept, ReadyAt, TypeInv, Log
<1>2. CASE ~On(p)
  BY <1>2 DEF Owns, Halfway, Kept, ExpectedAt, Expects
<1>3. QED
  BY <1>1, <1>2

\* Whether q, which the step is not about, owns a log.
LEMMA OthersOwn ==
    ASSUME TypeInv, NEW c \in Pids, NEW p \in Pids, CallFrame(c, p), HeapFrame(p),
           NEW q \in Pids, q # p
    PROVE  /\ On(q)' <=> On(q)
           /\ Halfway(q)' <=> Halfway(q)
           /\ Owns(q)' <=> Owns(q)
           /\ Owns(q) => Log(q)' = Log(q)
           /\ HasArray(q)' <=> HasArray(q)
<1>1. On(q)' <=> On(q)
  BY DEF HeapFrame, On
<1>2. Halfway(q)' <=> Halfway(q)
  BY WordsAssumption DEF CallFrame, Halfway
<1>3. Owns(q) => Log(q)' = Log(q)
  BY DEF HeapFrame, Log
<1>4. QED
  BY <1>1, <1>2, <1>3 DEF Owns, HasArray

LEMMA OthersFramed ==
    ASSUME TypeInv, Kept, NEW c \in Pids, NEW p \in Pids,
           CallFrame(c, p), HeapFrame(p), NEW q \in Pids, q # p
    PROVE  ExpectedAt(q)' /\ ReadyAt(q)'
<1>1. /\ On(q)' <=> On(q)
      /\ Owns(q) => Log(q)' = Log(q)
      /\ task'[q] = task[q]
  BY OthersOwn DEF HeapFrame
<1>2. ReadyAt(q)'
  BY <1>1, OwnerHasLog DEF ReadyAt, Kept, HeapFrame, Owns, HasArray
<1>3. ASSUME NEW d \in Pids, call'[d].pid = q
      PROVE  Expects(call[d])'
  <2>1. call'[d] = call[d] /\ call[d].pid = q
    BY <1>3, WordsAssumption DEF CallFrame
  <2>2. Expects(call[d])
    BY <2>1 DEF Kept, ExpectedAt
  <2>3. call[d].at = "array" => Owns(q)
    BY <2>1 DEF Owns, Halfway
  <2>4. call[d].at \in {"temp", "copy"} => Owns(q)
    BY <2>1, <2>2 DEF Owns, Expects
  <2>5. Owns(q) => task[q].logArray \in DOMAIN logs'
    BY DEF HeapFrame
  <2>6. QED
    BY <1>1, <2>1, <2>2, <2>3, <2>4, <2>5 DEF Expects
<1>4. QED
  BY <1>2, <1>3 DEF ExpectedAt

LEMMA ApartFramed ==
    ASSUME TypeInv, Kept, NEW c \in Pids, NEW p \in Pids,
           CallFrame(c, p), HeapFrame(p), LogFrame(p), ArrayFrame(p)
    PROVE  LogsApart'
<1>1. ASSUME NEW q \in Pids, q # p
      PROVE  /\ Owns(p)' /\ Owns(q)' => task'[p].logArray # task'[q].logArray
             /\ HasArray(p)' /\ HasArray(q)' => Log(p)'.array # Log(q)'.array
  <2>1. /\ Owns(q)' <=> Owns(q)
        /\ HasArray(q)' <=> HasArray(q)
        /\ Owns(q) => Log(q)' = Log(q)
        /\ task'[q] = task[q]
    BY <1>1, OthersOwn DEF HeapFrame
  <2>2. /\ Owns(q) => task[q].logArray \in DOMAIN logs
        /\ HasArray(q) => Owns(q) /\ Log(q).array \in DOMAIN arrays
    BY OwnerHasLog DEF Owns, HasArray, Kept, ReadyAt
  <2>3. /\ Owns(p) /\ Owns(q) => task[p].logArray # task[q].logArray
        /\ HasArray(p) /\ HasArray(q) => Log(p).array # Log(q).array
    BY <1>1 DEF Kept, LogsApart
  <2>4. QED
    BY <2>1, <2>2, <2>3 DEF LogFrame, ArrayFrame
<1>2. ASSUME NEW q \in Pids, NEW r \in Pids, q # p, r # p, q # r
      PROVE  /\ Owns(q)' /\ Owns(r)' => task'[q].logArray # task'[r].logArray
             /\ HasArray(q)' /\ HasArray(r)' => Log(q)'.array # Log(r)'.array
  <2>1. /\ Owns(q)' <=> Owns(q)
        /\ HasArray(q)' <=> HasArray(q)
        /\ Owns(q) => Log(q)' = Log(q)
        /\ task'[q] = task[q]
    BY <1>2, OthersOwn DEF HeapFrame
  <2>2. /\ Owns(r)' <=> Owns(r)
        /\ HasArray(r)' <=> HasArray(r)
        /\ Owns(r) => Log(r)' = Log(r)
        /\ task'[r] = task[r]
    BY <1>2, OthersOwn DEF HeapFrame
  <2>3. /\ Owns(q) /\ Owns(r) => task[q].logArray # task[r].logArray
        /\ HasArray(q) /\ HasArray(r) => Log(q).array # Log(r).array
    BY <1>2 DEF Kept, LogsApart
  <2>4. (HasArray(q) => Owns(q)) /\ (HasArray(r) => Owns(r))
    BY DEF HasArray, Owns
  <2>5. QED
    BY <2>1, <2>2, <2>3, <2>4
<1>3. QED
  BY <1>1, <1>2 DEF LogsApart

LEMMA LeakFramed ==
    ASSUME TypeInv, Kept, NEW c \in Pids, NEW p \in Pids,
           CallFrame(c, p), HeapFrame(p), LogFrame(p), ArrayFrame(p),
           ReadyAt(p)'
    PROVE  NoLeak'
<1>1. ASSUME NEW l \in DOMAIN logs'
      PROVE  \E q \in Pids : task'[q].logArray = l /\ Owns(q)'
  <2>1. CASE Owns(p)' /\ task'[p].logArray = l
    BY <2>1
  <2>2. CASE l \in DOMAIN logs /\ (Owns(p) => task[p].logArray # l)
    <3>1. PICK q \in Pids : task[q].logArray = l /\ Owns(q)
      BY <2>2 DEF Kept, NoLeak, Owns, On, Halfway
    <3>2. q # p
      BY <2>2, <3>1
    <3>3. Owns(q)' /\ task'[q] = task[q]
      BY <3>1, <3>2, OthersOwn DEF HeapFrame
    <3>4. QED
      BY <3>1, <3>3
  <2>3. QED
    BY <2>1, <2>2 DEF LogFrame
<1>2. ASSUME NEW a \in DOMAIN arrays'
      PROVE  \E q \in Pids : HasArray(q)' /\ ReadyAt(q)' /\ Log(q)'.array = a
  <2>1. CASE HasArray(p)' /\ Log(p)'.array = a
    BY <2>1
  <2>2. CASE a \in DOMAIN arrays /\ (HasArray(p) => Log(p).array # a)
    <3>1. PICK l \in DOMAIN logs :
             logs[l] # Garbage /\ logs[l].size # 0 /\ logs[l].array = a
      BY <2>2 DEF Kept, NoLeak
    <3>2. PICK q \in Pids : task[q].logArray = l /\ Owns(q)
      BY DEF Kept, NoLeak, Owns, On, Halfway
    <3>3. HasArray(q) /\ Log(q).array = a
      BY <3>1, <3>2, OwnerHasLog DEF HasArray, Log
    <3>4. q # p
      BY <2>2, <3>3
    <3>5. HasArray(q)' /\ ReadyAt(q)' /\ Log(q)' = Log(q)
      BY <3>2, <3>3, <3>4, OthersOwn, OthersFramed
    <3>6. QED
      BY <3>3, <3>5
  <2>3. QED
    BY <2>1, <2>2 DEF ArrayFrame
<1>3. ASSUME NEW a \in DOMAIN arrays'
      PROVE  \E l \in DOMAIN logs' : /\ logs'[l] # Garbage /\ logs'[l].size # 0
                                     /\ logs'[l].array = a
  BY <1>2 DEF HasArray, ReadyAt, Log, Garbage, NewLog
<1>4. QED
  BY <1>1, <1>3 DEF NoLeak, Owns, On, Halfway

\* No other call is about p when a call of c about p goes on.
Alone(c, p) == call'[c].pid = p => /\ c \in {p, Parent[p]}
                                   /\ \A d \in Pids \ {c} : call[d].pid # p

LEMMA CallsFramed ==
    ASSUME TypeInv, TypeInv', Kept, UNCHANGED keeps,
           NEW c \in Pids, NEW p \in Pids,
           CallFrame(c, p), HeapFrame(p), Alone(c, p),
           \A d \in Pids : call'[d].pid = p => task'[p].alive
    PROVE  CallsApart'
<1>1. \A d \in Pids : /\ call[d].at = "idle" <=> call[d].pid = NULL
                      /\ call'[d].at = "idle" <=> call'[d].pid = NULL
                      /\ call'[d].pid \in Pids \cup {NULL}
  BY DEF TypeInv, CallTypes, CallOk
<1>2. ASSUME NEW d \in Pids, call'[d].pid # p, call'[d].pid # NULL
      PROVE  call'[d] = call[d]
  BY <1>2 DEF CallFrame
<1>3. ASSUME NEW d \in Pids, call'[d].at # "idle"
      PROVE  task'[call'[d].pid].alive /\ d \in {call'[d].pid, Parent[call'[d].pid]}
  <2>1. CASE call'[d].pid = p
    <3>1. CASE d = c
      BY <2>1, <3>1 DEF Alone
    <3>2. CASE d # c
      <4>1. call'[d] = call[d]
        BY <3>2 DEF CallFrame
      <4>2. d \in {call[d].pid, Parent[call[d].pid]}
        BY <1>3, <4>1 DEF Kept, CallsApart
      <4>3. QED
        BY <2>1, <4>1, <4>2
    <3>3. QED
      BY <3>1, <3>2
  <2>2. CASE call'[d].pid # p
    <3>1. call'[d] = call[d] /\ call[d].pid \in Pids
      BY <1>1, <1>2, <1>3, <2>2
    <3>2. task[call[d].pid].alive /\ d \in {call[d].pid, Parent[call[d].pid]}
      BY <1>3, <3>1 DEF Kept, CallsApart
    <3>3. QED
      BY <2>2, <3>1, <3>2 DEF HeapFrame
  <2>3. QED
    BY <2>1, <2>2
<1>4. ASSUME NEW d \in Pids, NEW e \in Pids,
             call'[d].at # "idle", call'[d].pid = call'[e].pid
      PROVE  d = e
  <2>1. call'[d].pid # NULL /\ call'[e].pid # NULL
    BY <1>1, <1>4
  <2>2. CASE (d = c \/ e = c) /\ call'[d].pid = p
    BY <1>4, <2>1, <2>2, ZenonT(60) DEF CallFrame, Alone
  <2>3. CASE ~((d = c \/ e = c) /\ call'[d].pid = p)
    <3>1. call'[d] = call[d] /\ call'[e] = call[e]
      BY <1>2, <1>4, <2>1, <2>3 DEF CallFrame
    <3>2. QED
      BY <1>4, <3>1 DEF Kept, CallsApart
  <2>4. QED
    BY <2>2, <2>3
<1>5. QED
  BY <1>3, <1>4 DEF CallsApart

\* What is left to show of a step that is about p.
LEMMA Framed ==
    ASSUME TypeInv, TypeInv', Kept, UNCHANGED <<keeps, wild>>,
           NEW c \in Pids, NEW p \in Pids,
           CallFrame(c, p), HeapFrame(p), LogFrame(p), ArrayFrame(p), Alone(c, p),
           \A d \in Pids : call'[d].pid = p => task'[p].alive,
           ExpectedAt(p)', ReadyAt(p)'
    PROVE  Kept'
<1>1. CallsApart'
  BY CallsFramed
<1>2. LogsApart' /\ NoLeak'
  BY ApartFramed, LeakFramed
<1>3. \A q \in Pids : ExpectedAt(q)' /\ ReadyAt(q)'
  BY OthersFramed
<1>4. QED
  BY <1>1, <1>2, <1>3 DEF Kept

-----------------------------------------------------------------------------
\* A call that may be made under the discipline finds nobody in a call about p.
LEMMA MayIsQuiet ==
    ASSUME TypeInv, Kept, keeps = "family", NEW c \in Pids,
           NEW p \in Pids, May(c, p)
    PROVE  Quiet(p) /\ c \in {p, Parent[p]} /\ task[p].alive
                    /\ call[c].pid = NULL /\ call[c].at = "idle"
<1>1. call[c].pid = NULL /\ call[c].at = "idle"
  BY DEF May, Idle, Calling
<1>2. \A d \in Pids : call[d].at = "idle" <=> call[d].pid = NULL
  BY DEF TypeInv, CallTypes, CallOk
<1>3. Quiet(p)
  BY <1>1, <1>2, WordsAssumption DEF May, Quiet, Kept, CallsApart
<1>4. QED
  BY <1>1, <1>3 DEF May

\* With nobody in a call about p, p owns a log only by its policy.
LEMMA QuietOwns ==
    ASSUME NEW p \in Pids, Quiet(p)
    PROVE  Owns(p) <=> On(p)
BY DEF Quiet, Owns, Halfway

\* A call that c sleeps in is the only one about its target.
LEMMA CallIsAlone ==
    ASSUME TypeInv, Kept, NEW c \in Pids, call[c].at # "idle"
    PROVE  /\ call[c].pid \in Pids /\ task[call[c].pid].alive
           /\ c \in {call[c].pid, Parent[call[c].pid]}
           /\ \A d \in Pids \ {c} : call[d].pid # call[c].pid
BY DEF TypeInv, CallTypes, CallOk, Kept, CallsApart

LEMMA DoneFrames ==
    ASSUME TypeInv, Kept, NEW c \in Pids, call[c].at # "idle", Done(c)
    PROVE  /\ call[c].pid \in Pids
           /\ CallFrame(c, call[c].pid) /\ Alone(c, call[c].pid)
           /\ \A d \in Pids : call'[d].pid # call[c].pid
<1>1. call'[c].pid = NULL /\ \A d \in Pids \ {c} : call'[d] = call[d]
  BY CallEnds DEF TypeInv, Idle, Calling
<1>2. QED
  BY <1>1, CallIsAlone, WordsAssumption DEF CallFrame, Alone

\* With no call about p left, p owns a log only by its policy.
LEMMA NoCallAbout ==
    ASSUME NEW p \in Pids, \A d \in Pids : call'[d].pid # p
    PROVE  ExpectedAt(p)' /\ (Owns(p)' <=> On(p)')
BY DEF ExpectedAt, Owns, Halfway

\* Nothing is allocated, freed or written, and p keeps its log if it has one.
LEMMA FramesStay ==
    ASSUME TypeInv, Kept, NEW p \in Pids, UNCHANGED <<logs, arrays>>,
           \A q \in Pids \ {p} : task'[q] = task[q],
           Owns(p)' <=> Owns(p), On(p)' <=> On(p),
           Owns(p) => task'[p].logArray = task[p].logArray
    PROVE  HeapFrame(p) /\ LogFrame(p) /\ ArrayFrame(p)
<1>1. \A q \in Pids : Owns(q) => task[q].logArray \in DOMAIN logs
  BY OwnerHasLog
<1>2. \A q \in Pids : HasArray(q) => Log(q).array \in DOMAIN arrays
  BY DEF HasArray, Kept, ReadyAt
<1>3. HeapFrame(p)
  BY <1>1, <1>2 DEF HeapFrame, Log
<1>4. LogFrame(p)
  BY <1>1 DEF LogFrame
<1>5. ArrayFrame(p)
  BY DEF ArrayFrame, HasArray, Owns, Log
<1>6. QED
  BY <1>3, <1>4, <1>5

LEMMA KeptBegins ==
    ASSUME TypeInv, TypeInv', Kept, keeps = "family",
           NEW c \in Pids, NEW p \in Pids, NEW n \in Sizes,
           EnableBegins(c, p, n) \/ GetBegins(c, p, n)
    PROVE  Kept' /\ HeapFrame(p)
<1>1. /\ Quiet(p) /\ c \in {p, Parent[p]} /\ task[p].alive
      /\ call[c].pid = NULL /\ call[c].at = "idle"
  BY MayIsQuiet DEF EnableBegins, GetBegins
<1>2. UNCHANGED <<task, logs, arrays, keeps, wild>>
  BY DEF EnableBegins, GetBegins
<1>3. /\ call'[c].pid = p
      /\ call'[c].at \in {"header", "temp"}
      /\ \A d \in Pids \ {c} : call'[d] = call[d]
      /\ call'[c].at = "header" => ~On(p)
      /\ call'[c].at = "temp" => On(p) /\ call'[c].prev = Log(p).indexRead
                                       /\ Log(p).size # 0
  <2>1. CASE EnableBegins(c, p, n)
    BY <2>1 DEF EnableBegins, Calling, TypeInv, CallTypes, IsFun, On
  <2>2. CASE GetBegins(c, p, n)
    <3>1. On(p) /\ Log(p) \in LogRecs /\ n \in Nat
      BY <2>2, OwnerHasLog, SleepAssumption DEF GetBegins, HasLog, On, Owns
    <3>2. Log(p).size # 0
      BY <2>2, <3>1 DEF GetBegins, Enough, LogRecs
    <3> DEFINE r == [Calling("temp", p, n) EXCEPT !.prev = Log(p).indexRead]
    <3>3. r.pid = p /\ r.at = "temp" /\ r.prev = Log(p).indexRead
      BY DEF Calling
    <3>4. call' = [call EXCEPT ![c] = r]
      BY <2>2 DEF GetBegins
    <3> HIDE DEF r
    <3>5. call'[c] = r /\ \A d \in Pids \ {c} : call'[d] = call[d]
      BY <3>4 DEF TypeInv, CallTypes, IsFun
    <3>6. QED
      BY <3>1, <3>2, <3>3, <3>5
  <2>3. QED
    BY <2>1, <2>2
<1>4. CallFrame(c, p) /\ Alone(c, p)
  BY <1>1, <1>3 DEF CallFrame, Alone, Quiet
<1>5. Owns(p)' <=> Owns(p)
  BY <1>1, <1>2, <1>3 DEF Owns, On, Halfway, Quiet
<1>6. HeapFrame(p) /\ LogFrame(p) /\ ArrayFrame(p)
  BY <1>2, <1>5, FramesStay DEF On
<1>7. ReadyAt(p)'
  BY <1>2 DEF Kept, ReadyAt, On, Log
<1>8. ExpectedAt(p)'
  <2>1. ASSUME NEW d \in Pids, call'[d].pid = p
        PROVE  d = c
    BY <1>1, <1>3, <2>1 DEF Quiet
  <2>2. On(p) => Log(p).indexRead < Log(p).size \/ Log(p).size = 0
    BY DEF Kept, ReadyAt, ReadInside
  <2>3. QED
    BY <1>2, <1>3, <2>1, <2>2 DEF ExpectedAt, Expects, On, Log
<1>9. QED
  BY <1>1, <1>2, <1>4, <1>6, <1>7, <1>8, Framed

LEMMA KeptSetLevel ==
    ASSUME TypeInv, TypeInv', Kept, keeps = "family",
           NEW c \in Pids, NEW p \in Pids, NEW l \in {0, 2}, SetLevel(c, p, l)
    PROVE  Kept' /\ HeapFrame(p)
<1>1. Quiet(p) /\ task[p].alive /\ call[c].pid = NULL
  BY MayIsQuiet DEF SetLevel
<1>2. UNCHANGED <<logs, arrays, call, keeps, wild>>
  BY DEF SetLevel
<1>3. /\ \A q \in Pids \ {p} : task'[q] = task[q]
      /\ task'[p].policy_on = task[p].policy_on
      /\ task'[p].alive = task[p].alive
      /\ task'[p].logArray = task[p].logArray
  BY DEF SetLevel, TypeInv, Tasks
<1>4. CallFrame(c, p) /\ Alone(c, p) /\ \A d \in Pids : call'[d].pid # p
  BY <1>1, <1>2, WordsAssumption DEF CallFrame, Alone, Quiet
<1>5. ExpectedAt(p)' /\ (Owns(p)' <=> On(p)') /\ (Owns(p) <=> On(p))
  BY <1>1, <1>4, NoCallAbout, QuietOwns
<1>6. HeapFrame(p) /\ LogFrame(p) /\ ArrayFrame(p)
  BY <1>2, <1>3, <1>5, FramesStay DEF On
<1>7. ReadyAt(p)'
  BY <1>2, <1>3 DEF Kept, ReadyAt, On, Log
<1>8. QED
  BY <1>2, <1>4, <1>5, <1>6, <1>7, Framed

LEMMA KeptNoMem ==
    ASSUME TypeInv, TypeInv', Kept, NEW c \in Pids,
           EnableNoHeader(c) \/ GetNoMem(c)
    PROVE  Kept' /\ HeapFrame(call[c].pid)
<1>1. /\ call[c].at \in {"header", "temp"}
      /\ Done(c) /\ UNCHANGED <<logs, arrays, keeps, wild>>
  BY DEF EnableNoHeader, GetNoMem, Resumes
<1>p. PICK p \in Pids : p = call[c].pid
  BY <1>1, CallIsAlone
<1>2. /\ p = call[c].pid /\ CallFrame(c, p) /\ Alone(c, p)
      /\ \A d \in Pids : call'[d].pid # p
  BY <1>p, <1>1, DoneFrames
<1>3. ExpectedAt(p)' /\ (Owns(p)' <=> On(p)')
  BY <1>2, NoCallAbout
<1>4. Owns(p) <=> On(p)
  BY <1>1, <1>p, CallIsAlone DEF Owns, Halfway
<1>5. /\ \A q \in Pids \ {p} : task'[q] = task[q]
      /\ task'[p].policy_on = task[p].policy_on
      /\ task'[p].alive = task[p].alive
      /\ On(p) => task'[p].logArray = task[p].logArray
  <2>1. CASE EnableNoHeader(c)
    <3>1. ~On(p)
      BY <1>2, <2>1 DEF EnableNoHeader, Resumes, Kept, ExpectedAt, Expects
    <3>2. QED
      BY <1>2, <2>1, <3>1 DEF EnableNoHeader, TypeInv, Tasks
  <2>2. CASE GetNoMem(c)
    BY <2>2 DEF GetNoMem
  <2>3. QED
    BY <2>1, <2>2
<1>6. HeapFrame(p) /\ LogFrame(p) /\ ArrayFrame(p)
  BY <1>1, <1>2, <1>3, <1>4, <1>5, FramesStay DEF On
<1>7. ReadyAt(p)'
  BY <1>1, <1>2, <1>5 DEF Kept, ReadyAt, On, Log
<1>8. QED
  BY <1>p, <1>1, <1>2, <1>3, <1>6, <1>7, Framed

\* The log of p, whose policy is on, is freed with its array.
LEMMA FramesFree ==
    ASSUME TypeInv, Kept, NEW p \in Pids, On(p), FreeLog(p), ~Owns(p)',
           \A q \in Pids \ {p} : task'[q] = task[q]
    PROVE  HeapFrame(p) /\ LogFrame(p) /\ ArrayFrame(p)
<1> DEFINE l == task[p].logArray
           g == Log(p)
<1>1. l \in DOMAIN logs /\ g \in LogRecs
  BY OwnerHasLog DEF Owns
<1>2. /\ DOMAIN logs' = DOMAIN logs \ {l}
      /\ \A x \in DOMAIN logs \ {l} : logs'[x] = logs[x]
  BY WithoutHeap, ZenonT(60) DEF FreeLog
<1>3. /\ g.size # 0 => /\ DOMAIN arrays' = DOMAIN arrays \ {g.array}
                       /\ \A x \in DOMAIN arrays \ {g.array} : arrays'[x] = arrays[x]
      /\ g.size = 0 => arrays' = arrays
  BY WithoutHeap, ZenonT(60) DEF FreeLog
<1>4. HeapFrame(p)
  <2>1. ASSUME NEW q \in Pids \ {p}
        PROVE  /\ Owns(q) => /\ task[q].logArray \in DOMAIN logs \ {l}
               /\ HasArray(q) => /\ Log(q).array \in DOMAIN arrays
                                 /\ g.size # 0 => Log(q).array # g.array
    <3>1. Owns(q) => task[q].logArray \in DOMAIN logs
      BY OwnerHasLog
    <3>2. QED
      BY <3>1 DEF Kept, LogsApart, HasArray, ReadyAt, Owns
  <2>2. QED
    BY <1>2, <1>3, <2>1 DEF HeapFrame, Log
<1>5. LogFrame(p)
  BY <1>2 DEF LogFrame, Owns
<1>6. ArrayFrame(p)
  BY <1>3 DEF ArrayFrame, HasArray, Owns
<1>7. QED
  BY <1>4, <1>5, <1>6

\* Neither p nor its parent is in a call when p is released.
LEMMA ReleaseIsQuiet ==
    ASSUME TypeInv, Kept, NEW p \in Pids, Release(p)
    PROVE  Quiet(p)
<1>1. \A d \in {p, Parent[p]} \cap Pids : call[d].at = "idle"
  BY DEF Release, Idle, Calling
<1>2. \A d \in Pids : call[d].at = "idle" <=> call[d].pid = NULL
  BY DEF TypeInv, CallTypes, CallOk
<1>3. QED
  BY <1>1, <1>2, WordsAssumption DEF Quiet, Kept, CallsApart

LEMMA KeptLeaves ==
    ASSUME TypeInv, TypeInv', Kept, keeps = "family",
           NEW c \in Pids, NEW p \in Pids, Disable(c, p) \/ Release(p)
    PROVE  Kept' /\ HeapFrame(p)
<1>1. Quiet(p)
  <2>1. CASE Disable(c, p)
    BY <2>1, MayIsQuiet DEF Disable
  <2>2. CASE Release(p)
    BY <2>2, ReleaseIsQuiet
  <2>3. QED
    BY <2>1, <2>2
<1>2. PICK d \in Pids : call[d].pid \in {p, NULL}
  <2>1. CASE Disable(c, p)
    BY <2>1, MayIsQuiet DEF Disable
  <2>2. CASE Release(p)
    BY <2>2 DEF Release, Idle, Calling
  <2>3. QED
    BY <2>1, <2>2
<1>3. UNCHANGED <<call, keeps, wild>>
  BY DEF Disable, Release
<1>4. /\ \A q \in Pids \ {p} : task'[q] = task[q]
      /\ task'[p].policy_on = 0
  <2>1. CASE Disable(c, p)
    BY <2>1 DEF Disable, Disabled, TypeInv, Tasks
  <2>2. CASE Release(p)
    <3>1. task' = [task EXCEPT ![p].alive = FALSE, ![p].policy_on = 0]
      BY <2>2 DEF Release
    <3>2. QED
      BY <3>1 DEF TypeInv, Tasks
  <2>3. QED
    BY <2>1, <2>2
<1>5. CallFrame(d, p) /\ Alone(d, p) /\ \A e \in Pids : call'[e].pid # p
  BY <1>1, <1>2, <1>3 DEF CallFrame, Alone, Quiet
<1>6. ExpectedAt(p)' /\ ~Owns(p)' /\ ~On(p)' /\ (Owns(p) <=> On(p))
  BY <1>1, <1>4, <1>5, NoCallAbout, QuietOwns DEF On
<1>7. HeapFrame(p) /\ LogFrame(p) /\ ArrayFrame(p)
  <2>1. CASE On(p)
    <3>1. FreeLog(p)
      BY <2>1 DEF Disable, Release, On
    <3>2. QED
      BY <1>4, <1>6, <2>1, <3>1, FramesFree
  <2>2. CASE ~On(p)
    <3>1. UNCHANGED <<logs, arrays>>
      BY <2>2 DEF Disable, Release, HasLog, On
    <3>2. QED
      BY <1>4, <1>6, <2>2, <3>1, FramesStay
  <2>3. QED
    BY <2>1, <2>2
<1>8. ReadyAt(p)'
  BY <1>6 DEF ReadyAt
<1>9. QED
  BY <1>3, <1>5, <1>6, <1>7, <1>8, Framed

\* p, which owned no log, has a new header, set up if it needs no array.
LEMMA KeptHeader ==
    ASSUME TypeInv, TypeInv', Kept, NEW c \in Pids, NEW h \in LogIds,
           EnableHeader(c, h)
    PROVE  Kept' /\ HeapFrame(call[c].pid)
<1>1. call[c].at = "header"
  BY DEF EnableHeader, Resumes
<1>p. PICK p \in Pids : p = call[c].pid
  BY <1>1, CallIsAlone
<1>2. /\ task[p].alive /\ c \in {p, Parent[p]}
      /\ \A d \in Pids \ {c} : call[d].pid # p
  BY <1>1, <1>p, CallIsAlone
<1>3. ~On(p) /\ ~Owns(p)
  BY <1>1, <1>p, <1>2 DEF Kept, ExpectedAt, Expects, Owns, Halfway
<1>4. /\ h \notin DOMAIN logs
      /\ UNCHANGED <<arrays, keeps, wild>>
  BY DEF EnableHeader
<1>5. /\ DOMAIN logs' = DOMAIN logs \cup {h}
      /\ \A x \in DOMAIN logs : logs'[x] = logs[x]
      /\ \/ logs'[h] = NewLog(0, UNINIT) /\ Done(c) /\ task'[p].policy_on = 1
         \/ /\ logs'[h] = Garbage /\ task'[p].policy_on = task[p].policy_on
            /\ call' = [call EXCEPT ![c].at = "array"] /\ call[c].size # 0
      /\ \A q \in Pids \ {p} : task'[q] = task[q]
      /\ task'[p].logArray = h /\ task'[p].alive
  <2>1. CASE call[c].size = 0
    <3>1. Enable(p, 0, h, UNINIT) /\ Done(c)
      BY <1>p, <2>1 DEF EnableHeader
    <3>2. /\ DOMAIN logs' = DOMAIN logs \cup {h} /\ logs'[h] = NewLog(0, UNINIT)
          /\ \A x \in DOMAIN logs : logs'[x] = logs[x]
      BY <1>4, <3>1 DEF Enable, With
    <3>3. /\ \A q \in Pids \ {p} : task'[q] = task[q]
          /\ task'[p].logArray = h /\ task'[p].alive /\ task'[p].policy_on = 1
      BY <1>2, <3>1 DEF Enable, TypeInv, Tasks
    <3>4. QED
      BY <3>1, <3>2, <3>3
  <2>2. CASE call[c].size # 0
    <3>1. /\ logs' = With(logs, h, Garbage)
          /\ task' = [task EXCEPT ![p].logArray = h]
          /\ call' = [call EXCEPT ![c].at = "array"]
      BY <1>p, <2>2 DEF EnableHeader
    <3>2. /\ DOMAIN logs' = DOMAIN logs \cup {h} /\ logs'[h] = Garbage
          /\ \A x \in DOMAIN logs : logs'[x] = logs[x]
      BY <1>4, <3>1 DEF With
    <3>3. /\ \A q \in Pids \ {p} : task'[q] = task[q]
          /\ task'[p].logArray = h /\ task'[p].alive
          /\ task'[p].policy_on = task[p].policy_on
      BY <1>2, <3>1 DEF TypeInv, Tasks
    <3>4. QED
      BY <2>2, <3>1, <3>2, <3>3
  <2>3. QED
    BY <2>1, <2>2
<1>6. /\ \A d \in Pids \ {c} : call'[d] = call[d]
      /\ \/ logs'[h] = NewLog(0, UNINIT) /\ call'[c].pid = NULL /\ On(p)'
         \/ /\ logs'[h] = Garbage /\ ~On(p)'
            /\ call'[c].pid = p /\ call'[c].at = "array" /\ call'[c].size # 0
  <2>1. CASE Done(c) /\ logs'[h] = NewLog(0, UNINIT) /\ task'[p].policy_on = 1
    BY <2>1, CallEnds DEF TypeInv, Idle, Calling, On
  <2>2. CASE /\ logs'[h] = Garbage /\ task'[p].policy_on = task[p].policy_on
             /\ call' = [call EXCEPT ![c].at = "array"] /\ call[c].size # 0
    <3>1. IsFun(call) /\ DOMAIN call = Pids /\ CallOk(call[c])
      BY DEF TypeInv, CallTypes
    <3>2. /\ \A d \in Pids \ {c} : call'[d] = call[d]
          /\ call'[c] = [call[c] EXCEPT !.at = "array"]
      BY <2>2, <3>1 DEF IsFun
    <3>3. call'[c].pid = p /\ call'[c].at = "array" /\ call'[c].size # 0
      BY <1>p, <2>2, <3>1, <3>2 DEF CallOk, IsFun, CallFields
    <3>4. QED
      BY <1>3, <2>2, <3>2, <3>3 DEF On
  <2>3. QED
    BY <1>5, <2>1, <2>2
<1>7. CallFrame(c, p) /\ Alone(c, p)
  BY <1>p, <1>2, <1>6, WordsAssumption DEF CallFrame, Alone
<1>8. HeapFrame(p)
  <2>1. \A q \in Pids : Owns(q) => task[q].logArray \in DOMAIN logs
    BY OwnerHasLog
  <2>2. \A q \in Pids : HasArray(q) => Log(q).array \in DOMAIN arrays
    BY DEF HasArray, Kept, ReadyAt
  <2>3. QED
    BY <1>4, <1>5, <2>1, <2>2 DEF HeapFrame, Log
<1>9. Owns(p)'
  BY <1>6 DEF Owns, Halfway
<1>10. LogFrame(p)
  BY <1>3, <1>4, <1>5, <1>9 DEF LogFrame
<1>11. ~HasArray(p)' /\ ~HasArray(p)
  BY <1>3, <1>5, <1>6 DEF HasArray, Log, NewLog
<1>12. ArrayFrame(p)
  BY <1>4, <1>11 DEF ArrayFrame
<1>13. ReadyAt(p)'
  <2>1. CASE logs'[h] = NewLog(0, UNINIT)
    <3>1. NewLog(0, UNINIT) # Garbage
      BY NewLogOk, GarbageIsNoLog
    <3>2. QED
      BY <1>5, <2>1, <3>1 DEF ReadyAt, Log, ReadInside, NewLog
  <2>2. CASE ~On(p)'
    BY <2>2 DEF ReadyAt
  <2>3. QED
    BY <1>6, <2>1, <2>2
<1>14. ExpectedAt(p)'
  <2>1. ASSUME NEW d \in Pids, call'[d].pid = p
        PROVE  /\ d = c /\ call'[c].at = "array" /\ call'[c].size # 0
               /\ ~On(p)' /\ logs'[h] = Garbage
    BY <1>2, <1>6, <2>1, WordsAssumption
  <2>2. QED
    BY <1>5, <2>1 DEF ExpectedAt, Expects, Log
<1>15. QED
  BY <1>p, <1>4, <1>5, <1>7, <1>8, <1>10, <1>12, <1>13, <1>14, Framed

\* The header that p owns already is set up, with a new array.
LEMMA KeptArray ==
    ASSUME TypeInv, TypeInv', Kept, NEW c \in Pids, NEW a \in ArrIds,
           EnableArray(c, a)
    PROVE  Kept' /\ HeapFrame(call[c].pid)
<1>1. call[c].at = "array"
  BY DEF EnableArray, Resumes
<1>p. PICK p \in Pids : p = call[c].pid
  BY <1>1, CallIsAlone
<1>n. PICK n \in Nat : n = call[c].size
  BY DEF TypeInv, CallTypes, CallOk
<1>l. PICK l \in DOMAIN logs : l = task[p].logArray
  BY <1>p DEF EnableArray, LogThere
<1>2. task[p].alive /\ ~On(p) /\ Owns(p)
  BY <1>1, <1>p, CallIsAlone DEF Kept, ExpectedAt, Expects, Owns, Halfway
<1>3. /\ a \notin DOMAIN arrays /\ Done(c)
      /\ UNCHANGED <<keeps, wild>>
      /\ Enable(p, n, l, a)
      /\ arrays' = With(arrays, a, NewArray(n))
  BY <1>p, <1>n, <1>l DEF EnableArray
<1>4. /\ DOMAIN logs' = DOMAIN logs /\ logs'[l] = NewLog(n, a)
      /\ \A x \in DOMAIN logs \ {l} : logs'[x] = logs[x]
  BY <1>3 DEF Enable, With
<1>5. /\ DOMAIN arrays' = DOMAIN arrays \cup {a}
      /\ \A x \in DOMAIN arrays : arrays'[x] = arrays[x]
  BY <1>3 DEF With
<1>6. /\ \A q \in Pids \ {p} : task'[q] = task[q]
      /\ task'[p].logArray = l /\ task'[p].alive /\ On(p)'
  BY <1>2, <1>3, <1>l DEF Enable, TypeInv, Tasks, On
<1>7. /\ CallFrame(c, p) /\ Alone(c, p)
      /\ \A d \in Pids : call'[d].pid # p
  BY <1>1, <1>p, <1>3, DoneFrames
<1>8. ExpectedAt(p)' /\ Owns(p)'
  BY <1>6, <1>7, NoCallAbout
<1>9. HeapFrame(p)
  <2>1. \A q \in Pids \ {p} : Owns(q) => task[q].logArray \in DOMAIN logs \ {l}
    BY <1>2, <1>l, OwnerHasLog DEF Kept, LogsApart
  <2>2. \A q \in Pids : HasArray(q) => Log(q).array \in DOMAIN arrays
    BY DEF HasArray, Kept, ReadyAt
  <2>3. QED
    BY <1>4, <1>5, <1>6, <2>1, <2>2 DEF HeapFrame, Log
<1>10. LogFrame(p)
  BY <1>2, <1>4, <1>6, <1>8, <1>l DEF LogFrame
<1>11. Log(p)' = NewLog(n, a) /\ Log(p)'.size = n /\ Log(p)'.array = a
  BY <1>4, <1>6 DEF Log, NewLog
<1>12. n # 0
  BY <1>1, <1>p, <1>n DEF Kept, ExpectedAt, Expects
<1>13. ArrayFrame(p)
  BY <1>2, <1>3, <1>5, <1>6, <1>11, <1>12 DEF ArrayFrame, HasArray
<1>14. ReadyAt(p)'
  <2>1. NewLog(n, a) # Garbage
    BY NewLogOk, GarbageIsNoLog
  <2>2. ReadInside(NewLog(n, a))
    BY DEF ReadInside, NewLog
  <2>3. QED
    BY <1>4, <1>5, <1>6, <1>11, <2>1, <2>2 DEF ReadyAt
<1>15. QED
  BY <1>p, <1>3, <1>7, <1>8, <1>9, <1>10, <1>13, <1>14, Framed

\* kmalloc fails: the header that p owned is freed.
LEMMA KeptNoArray ==
    ASSUME TypeInv, TypeInv', Kept, NEW c \in Pids, EnableNoArray(c)
    PROVE  Kept' /\ HeapFrame(call[c].pid)
<1>1. call[c].at = "array"
  BY DEF EnableNoArray, Resumes
<1>p. PICK p \in Pids : p = call[c].pid
  BY <1>1, CallIsAlone
<1>l. PICK l \in DOMAIN logs : l = task[p].logArray
  BY <1>p DEF EnableNoArray, LogThere
<1>2. ~On(p) /\ Owns(p)
  BY <1>1, <1>p, CallIsAlone DEF Kept, ExpectedAt, Expects, Owns, Halfway
<1>3. /\ Done(c) /\ UNCHANGED <<task, arrays, keeps, wild>>
      /\ logs' = Without(logs, l)
  BY <1>p, <1>l DEF EnableNoArray
<1>4. /\ DOMAIN logs' = DOMAIN logs \ {l}
      /\ \A x \in DOMAIN logs \ {l} : logs'[x] = logs[x]
  BY <1>3 DEF Without
<1>5. /\ CallFrame(c, p) /\ Alone(c, p)
      /\ \A d \in Pids : call'[d].pid # p
  BY <1>1, <1>p, <1>3, DoneFrames
<1>6. ExpectedAt(p)' /\ ~On(p)' /\ ~Owns(p)' /\ ReadyAt(p)'
  BY <1>2, <1>3, <1>5, NoCallAbout DEF On, ReadyAt
<1>7. HeapFrame(p)
  <2>1. \A q \in Pids \ {p} : Owns(q) => task[q].logArray \in DOMAIN logs \ {l}
    BY <1>2, <1>l, OwnerHasLog DEF Kept, LogsApart
  <2>2. \A q \in Pids : HasArray(q) => Log(q).array \in DOMAIN arrays
    BY DEF HasArray, Kept, ReadyAt
  <2>3. QED
    BY <1>3, <1>4, <2>1, <2>2 DEF HeapFrame, Log
<1>8. LogFrame(p)
  BY <1>4, <1>6, <1>l DEF LogFrame
<1>9. ArrayFrame(p)
  BY <1>2, <1>3, <1>6 DEF ArrayFrame, HasArray
<1>10. QED
  BY <1>p, <1>3, <1>5, <1>6, <1>7, <1>8, <1>9, Framed

\* The log of p, whose policy is on, gets a header g of the same size and
\* array, and its array may be written to.
LEMMA FramesWrite ==
    ASSUME TypeInv, Kept, NEW p \in Pids, On(p), NEW g, g \in LogRecs,
           g.size = Log(p).size, g.array = Log(p).array,
           task' = task, Halfway(p)' <=> Halfway(p),
           logs' = [logs EXCEPT ![task[p].logArray] = g],
           \/ arrays' = arrays
           \/ HasArray(p) /\ \E v : arrays' = [arrays EXCEPT ![Log(p).array] = v]
    PROVE  /\ HeapFrame(p) /\ LogFrame(p) /\ ArrayFrame(p)
           /\ On(p)' /\ Log(p)' = g
           /\ ReadInside(g) => ReadyAt(p)'
<1>l. PICK l \in DOMAIN logs : l = task[p].logArray
  BY OwnerHasLog DEF Owns
<1>1. /\ DOMAIN logs' = DOMAIN logs /\ logs'[l] = g
      /\ \A x \in DOMAIN logs \ {l} : logs'[x] = logs[x]
  BY <1>l DEF TypeInv, LogTypes, IsFun
<1>2. /\ DOMAIN arrays' = DOMAIN arrays
      /\ HasArray(p) => \A x \in DOMAIN arrays \ {Log(p).array} : arrays'[x] = arrays[x]
      /\ ~HasArray(p) => arrays' = arrays
  <2>1. CASE arrays' = arrays
    BY <2>1
  <2>2. CASE HasArray(p) /\ \E v : arrays' = [arrays EXCEPT ![Log(p).array] = v]
    BY <2>2 DEF TypeInv, ArrayTypes, IsFun
  <2>3. QED
    BY <2>1, <2>2
<1>3. On(p)' /\ Log(p)' = g /\ Owns(p) /\ Owns(p)' /\ (HasArray(p)' <=> HasArray(p))
  BY <1>l, <1>1 DEF On, Log, Owns, HasArray
<1>4. HeapFrame(p)
  <2>1. \A q \in Pids \ {p} : Owns(q) => task[q].logArray \in DOMAIN logs \ {l}
    BY <1>3, <1>l, OwnerHasLog DEF Kept, LogsApart
  <2>2. \A q \in Pids \ {p} :
           HasArray(q) => /\ Log(q).array \in DOMAIN arrays
                          /\ HasArray(p) => Log(q).array # Log(p).array
    BY DEF HasArray, Kept, ReadyAt, LogsApart
  <2>3. QED
    BY <1>1, <1>2, <2>1, <2>2 DEF HeapFrame, Log
<1>5. LogFrame(p)
  BY <1>1, <1>3, <1>l DEF LogFrame
<1>6. ArrayFrame(p)
  BY <1>2, <1>3 DEF ArrayFrame
<1>7. ReadInside(g) => ReadyAt(p)'
  <2>1. g # Garbage
    BY GarbageIsNoLog
  <2>2. task[p].alive /\ (g.size # 0 => g.array \in DOMAIN arrays)
    BY DEF Kept, ReadyAt
  <2>3. QED
    BY <1>1, <1>2, <1>3, <1>l, <2>1, <2>2 DEF ReadyAt
<1>8. QED
  BY <1>3, <1>4, <1>5, <1>6, <1>7

\* What the copy loop does for p, the target of c's call.
LEMMA LoopShape ==
    ASSUME TypeInv, Kept, NEW c \in Pids, GetLoop(c),
           NEW p \in Pids, p = call[c].pid
    PROVE  LET g == Log(p)
               h == [g EXCEPT !.indexRead = LoopSlot(g, call[c].size)]
           IN  /\ On(p) /\ g \in LogRecs /\ g.indexRead < g.size
               /\ h \in LogRecs /\ h.size = g.size /\ h.array = g.array
               /\ h.indexWrite = g.indexWrite /\ h.full = g.full
               /\ h.indexRead = LoopSlot(g, call[c].size)
               /\ ReadInside(h)
               /\ logs' = [logs EXCEPT ![task[p].logArray] = h]
               /\ UNCHANGED <<task, arrays, queue, denied, crowded, keeps, wild>>
               /\ call[c].at = "temp" /\ call'[c].at = "copy" /\ call'[c].pid = p
               /\ call'[c].prev = call[c].prev /\ call'[c].size = call[c].size
               /\ call'[c].temp = [j \in 1..call[c].size |->
                                      arrays[g.array][LoopSlot(g, j - 1)]]
               /\ \A d \in Pids \ {c} : call'[d] = call[d]
<1> DEFINE g == Log(p)
           h == [g EXCEPT !.indexRead = LoopSlot(g, call[c].size)]
           t == [j \in 1..call[c].size |-> arrays[g.array][LoopSlot(g, j - 1)]]
           r == [call[c] EXCEPT !.at = "copy", !.temp = t]
<1>1. call[c].at = "temp" /\ g.indexRead < g.size
  BY DEF GetLoop, Resumes
<1>2. On(p) /\ call[c].size \in Nat /\ CallOk(call[c])
  BY <1>1 DEF Kept, ExpectedAt, Expects, TypeInv, CallTypes, CallOk
<1>3. g \in LogRecs /\ WriteInside(g)
  BY <1>2, OwnerHasLog DEF Owns
<1>4. LoopSlot(g, call[c].size) \in 0..(g.size - 1) /\ g.size \in Nat
  BY <1>1, <1>2, <1>3, LoopSlotOk DEF LogRecs
<1>5. /\ h \in LogRecs /\ h.size = g.size /\ h.array = g.array
      /\ h.indexWrite = g.indexWrite /\ h.full = g.full
      /\ h.indexRead = LoopSlot(g, call[c].size)
  BY <1>3, <1>4, SetReadOk, SMTT(30)
<1>6. /\ logs' = [logs EXCEPT ![task[p].logArray] = h]
      /\ call' = [call EXCEPT ![c] = r]
      /\ UNCHANGED <<task, arrays, queue, denied, crowded, keeps, wild>>
  BY DEF GetLoop, Log
<1> HIDE DEF g, h, t
<1>7. /\ CallOk(r) /\ r.at = "copy" /\ r.pid = p /\ r.size = call[c].size
      /\ r.prev = call[c].prev /\ r.temp = t
  <2>1. "copy" \in Places \ {"idle"} /\ call[c].pid \in Pids
    BY DEF Places
  <2>2. CallOk(r)
    BY <1>2, <2>1, CallMoves
  <2>3. IsFun(call[c]) /\ DOMAIN call[c] = CallFields
    BY <1>2 DEF CallOk
  <2>4. QED
    BY <2>2, <2>3 DEF IsFun, CallFields
<1> HIDE DEF r
<1>8. call'[c] = r /\ \A d \in Pids \ {c} : call'[d] = call[d]
  BY <1>6, <1>7, CallSet DEF TypeInv
<1>9. ReadInside(h)
  BY <1>4, <1>5 DEF ReadInside
<1>10. QED
  BY <1>1, <1>2, <1>3, <1>5, <1>6, <1>7, <1>8, <1>9 DEF g, h, t

LEMMA KeptLoop ==
    ASSUME TypeInv, TypeInv', Kept, NEW c \in Pids, GetLoop(c)
    PROVE  Kept' /\ HeapFrame(call[c].pid)
<1>1. call[c].at = "temp"
  BY DEF GetLoop, Resumes
<1>p. PICK p \in Pids : p = call[c].pid
  BY <1>1, CallIsAlone
<1>2. /\ task[p].alive /\ c \in {p, Parent[p]}
      /\ \A d \in Pids \ {c} : call[d].pid # p
  BY <1>1, <1>p, CallIsAlone
<1> DEFINE g == Log(p)
           h == [g EXCEPT !.indexRead = LoopSlot(g, call[c].size)]
<1>3. /\ On(p) /\ h \in LogRecs /\ h.size = g.size /\ h.array = g.array
      /\ ReadInside(h)
      /\ logs' = [logs EXCEPT ![task[p].logArray] = h]
      /\ UNCHANGED <<task, arrays, keeps, wild>>
      /\ call'[c].at = "copy" /\ call'[c].pid = p /\ call'[c].prev = call[c].prev
      /\ \A d \in Pids \ {c} : call'[d] = call[d]
  BY <1>p, LoopShape, ZenonT(60)
<1>h. PICK b : b = h
  OBVIOUS
<1>4. Halfway(p)' <=> Halfway(p)
  BY <1>1, <1>p, <1>2, <1>3 DEF Halfway
<1>5. /\ HeapFrame(p) /\ LogFrame(p) /\ ArrayFrame(p)
      /\ On(p)' /\ Log(p)' = b /\ ReadyAt(p)'
  <2> HIDE DEF h
  <2>1. QED
    BY <1>3, <1>4, <1>h, FramesWrite
<1>6. CallFrame(c, p) /\ Alone(c, p)
  BY <1>p, <1>2, <1>3 DEF CallFrame, Alone
<1>7. ExpectedAt(p)'
  <2>1. call[c].prev < Log(p).size
    BY <1>1, <1>p DEF Kept, ExpectedAt, Expects
  <2>2. ASSUME NEW d \in Pids, call'[d].pid = p
        PROVE  d = c
    BY <1>2, <1>3, <2>2
  <2>3. Log(p)'.size = Log(p).size
    BY <1>3, <1>h, <1>5
  <2>4. QED
    BY <1>3, <1>5, <2>1, <2>2, <2>3 DEF ExpectedAt, Expects
<1>8. QED
  BY <1>p, <1>2, <1>3, <1>5, <1>6, <1>7, Framed

\* The end of get_process_log for p, the target of c's call.
LEMMA GetEndShape ==
    ASSUME TypeInv, Kept, NEW c \in Pids, GetOk(c) \/ GetFault(c),
           NEW p \in Pids, p = call[c].pid
    PROVE  /\ On(p) /\ Log(p) \in LogRecs /\ call[c].at = "copy"
           /\ UNCHANGED <<task, arrays, denied, crowded, keeps, wild>> /\ Done(c)
           /\ \E g \in LogRecs :
                 /\ g.size = Log(p).size /\ g.array = Log(p).array /\ ReadInside(g)
                 /\ logs' = [logs EXCEPT ![task[p].logArray] = g]
                 /\ \/ g = Finish(Log(p), call[c].size)
                       /\ queue' = [queue EXCEPT ![p] = @ \ Records(call[c].temp)]
                    \/ g = [Log(p) EXCEPT !.indexRead = call[c].prev]
                       /\ queue' = queue
<1>1. /\ call[c].at = "copy" /\ Done(c)
      /\ UNCHANGED <<task, arrays, denied, crowded, keeps, wild>>
  BY DEF GetOk, GetFault, Resumes
<1>2. /\ On(p) /\ call[c].size \in Nat /\ call[c].prev \in Nat
      /\ call[c].prev < Log(p).size
  BY <1>1 DEF Kept, ExpectedAt, Expects, TypeInv, CallTypes, CallOk
<1>3. Log(p) \in LogRecs /\ WriteInside(Log(p)) /\ ReadInside(Log(p))
  BY <1>2, OwnerHasLog DEF Owns, Kept, ReadyAt
<1>4. CASE GetOk(c)
  <2> DEFINE g == Finish(Log(p), call[c].size)
  <2>1. g \in LogRecs /\ g.size = Log(p).size /\ g.array = Log(p).array
    BY <1>2, <1>3, FinishOk
  <2>2. g.indexRead = 0 \/ g.indexRead = Log(p).indexRead
    BY <1>3 DEF Finish, LogRecs
  <2>3. ReadInside(g)
    BY <1>3, <2>1, <2>2 DEF ReadInside, LogRecs
  <2>4. /\ logs' = [logs EXCEPT ![task[p].logArray] = g]
        /\ queue' = [queue EXCEPT ![p] = @ \ Records(call[c].temp)]
    BY <1>4 DEF GetOk, Log
  <2>5. QED
    BY <1>1, <1>2, <1>3, <2>1, <2>3, <2>4
<1>5. CASE GetFault(c)
  <2> DEFINE g == [Log(p) EXCEPT !.indexRead = call[c].prev]
  <2>1. /\ g \in LogRecs /\ g.size = Log(p).size /\ g.array = Log(p).array
        /\ g.indexRead = call[c].prev
    BY <1>2, <1>3, SetReadOk
  <2>2. ReadInside(g)
    BY <1>2, <1>3, <2>1 DEF ReadInside, LogRecs
  <2>3. logs' = [logs EXCEPT ![task[p].logArray] = g] /\ queue' = queue
    BY <1>5 DEF GetFault, Log
  <2>4. QED
    BY <1>1, <1>2, <1>3, <2>1, <2>2, <2>3
<1>6. QED
  BY <1>4, <1>5

LEMMA KeptGetEnd ==
    ASSUME TypeInv, TypeInv', Kept, NEW c \in Pids, GetOk(c) \/ GetFault(c)
    PROVE  Kept' /\ HeapFrame(call[c].pid)
<1>1. call[c].at = "copy"
  BY DEF GetOk, GetFault, Resumes
<1>p. PICK p \in Pids : p = call[c].pid
  BY <1>1, CallIsAlone
<1>2. /\ On(p) /\ UNCHANGED <<task, arrays, keeps, wild>> /\ Done(c)
  BY <1>p, GetEndShape
<1>3. PICK g \in LogRecs :
         /\ g.size = Log(p).size /\ g.array = Log(p).array /\ ReadInside(g)
         /\ logs' = [logs EXCEPT ![task[p].logArray] = g]
  BY <1>p, GetEndShape
<1>4. /\ CallFrame(c, p) /\ Alone(c, p) /\ \A d \in Pids : call'[d].pid # p
  BY <1>1, <1>p, <1>2, DoneFrames
<1>5. (Halfway(p)' <=> Halfway(p)) /\ ExpectedAt(p)'
  BY <1>1, <1>p, <1>4, CallIsAlone, NoCallAbout DEF Halfway
<1>6. HeapFrame(p) /\ LogFrame(p) /\ ArrayFrame(p) /\ ReadyAt(p)'
  BY <1>2, <1>3, <1>5, FramesWrite
<1>7. QED
  BY <1>p, <1>2, <1>4, <1>5, <1>6, Framed

\* A refused call of p, whatever calls p and others are in.
LEMMA DeniedShape ==
    ASSUME TypeInv, Kept, NEW p \in Pids, Denied(p)
    PROVE  LET g == Log(p)
               h == PutLog(g)
           IN  /\ HasArray(p) /\ g \in LogRecs /\ WriteInside(g) /\ ReadInside(g)
               /\ h \in LogRecs /\ h.size = g.size /\ h.array = g.array
               /\ h.indexRead = g.indexRead /\ ReadInside(h)
               /\ logs' = [logs EXCEPT ![task[p].logArray] = h]
               /\ arrays' = [arrays EXCEPT ![g.array] =
                                PutArray(g, arrays[g.array], denied + 1)]
               /\ UNCHANGED <<task, call, keeps, wild>>
<1>1. On(p) /\ Log(p).size # 0
  BY DEF Denied, HasLog, On
<1>2. Log(p) \in LogRecs /\ WriteInside(Log(p)) /\ ReadInside(Log(p))
  BY <1>1, OwnerHasLog DEF Owns, Kept, ReadyAt
<1>3. /\ PutLog(Log(p)) \in LogRecs /\ PutLog(Log(p)).size = Log(p).size
      /\ PutLog(Log(p)).array = Log(p).array
      /\ PutLog(Log(p)).indexRead = Log(p).indexRead
  BY <1>1, <1>2, PutLogOk
<1>4. ReadInside(PutLog(Log(p)))
  BY <1>2, <1>3 DEF ReadInside
<1>5. /\ logs' = [logs EXCEPT ![task[p].logArray] = PutLog(Log(p))]
      /\ denied' = denied + 1
      /\ arrays' = [arrays EXCEPT ![Log(p).array] =
                       PutArray(Log(p), arrays[Log(p).array], denied')]
      /\ UNCHANGED <<task, call, keeps, wild>>
  BY DEF Denied, Log
<1>6. QED
  BY <1>1, <1>2, <1>3, <1>4, <1>5 DEF HasArray

LEMMA KeptDenied ==
    ASSUME TypeInv, TypeInv', Kept, NEW p \in Pids, Denied(p)
    PROVE  Kept' /\ HeapFrame(p)
<1> DEFINE h == PutLog(Log(p))
<1>1. /\ HasArray(p)
      /\ h \in LogRecs /\ h.size = Log(p).size /\ h.array = Log(p).array
      /\ ReadInside(h)
      /\ logs' = [logs EXCEPT ![task[p].logArray] = h]
      /\ \E v : arrays' = [arrays EXCEPT ![Log(p).array] = v]
      /\ UNCHANGED <<task, call, keeps, wild>>
  BY DeniedShape
<1>2. On(p)
  BY <1>1 DEF HasArray
<1>h. PICK b : b = h
  OBVIOUS
<1> HIDE DEF h
<1>3. Halfway(p)' <=> Halfway(p)
  BY <1>1 DEF Halfway
<1>4. /\ HeapFrame(p) /\ LogFrame(p) /\ ArrayFrame(p)
      /\ On(p)' /\ Log(p)' = b /\ ReadyAt(p)'
  BY <1>1, <1>2, <1>3, <1>h, FramesWrite
<1>5. CallFrame(p, p) /\ Alone(p, p)
  <2>1. call[p].at = "idle" <=> call[p].pid = NULL
    BY DEF TypeInv, CallTypes, CallOk
  <2>2. QED
    BY <1>1, <2>1, CallIsAlone, WordsAssumption DEF CallFrame, Alone
<1>6. \A d \in Pids : call'[d].pid = p => task'[p].alive
  BY <1>1, <1>2 DEF Kept, ReadyAt
<1>7. ExpectedAt(p)'
  <2>1. Log(p)'.size = Log(p).size
    BY <1>1, <1>h, <1>4
  <2>2. ASSUME NEW d \in Pids, call'[d].pid = p
        PROVE  Expects(call[d])'
    <3>1. Expects(call[d]) /\ call[d].pid = p /\ call'[d] = call[d]
      BY <1>1, <2>2 DEF Kept, ExpectedAt
    <3>2. QED
      BY <1>2, <1>4, <2>1, <3>1 DEF Expects
  <2>3. QED
    BY <2>2 DEF ExpectedAt
<1>8. QED
  BY <1>1, <1>4, <1>5, <1>6, <1>7, Framed

-----------------------------------------------------------------------------
\* Under the discipline no call comes back to something it did not leave.
LEMMA NothingWild ==
    ASSUME TypeInv, Kept, NEW c \in Pids
    PROVE  ~EnableWild(c) /\ ~GetWild(c) /\ ~DanglingUse(c)
<1>1. ~DanglingUse(c)
  BY DEF DanglingUse, HasLog, Kept, ReadyAt, On, Log
<1>2. ASSUME call[c].at # "idle"
      PROVE  call[c].pid \in Pids /\ TargetThere(c) /\ Expects(call[c])
  BY <1>2, CallIsAlone DEF TargetThere, Kept, ExpectedAt
<1>3. ~EnableWild(c)
  BY <1>2 DEF EnableWild, Resumes, LogThere, Expects
<1>4. ASSUME call[c].at \in {"temp", "copy"}
      PROVE  /\ LogReady(c)
             /\ Log(call[c].pid).indexRead < Log(call[c].pid).size
             /\ Log(call[c].pid) \in LogRecs
  <2>1. /\ call[c].pid \in Pids /\ TargetThere(c) /\ On(call[c].pid)
        /\ call[c].prev < Log(call[c].pid).size /\ call[c].prev \in Nat
    BY <1>2, <1>4 DEF Expects, TypeInv, CallTypes, CallOk
  <2>2. Log(call[c].pid) \in LogRecs
    BY <2>1, OwnerHasLog DEF Owns
  <2>3. QED
    BY <2>1, <2>2 DEF Kept, ReadyAt, LogReady, LogThere, ReadInside, LogRecs
<1>5. ~GetWild(c)
  BY <1>4 DEF GetWild, Resumes, LogRecs
<1>6. QED
  BY <1>1, <1>3, <1>5

LEMMA KeptStep == TypeInv /\ TypeInv' /\ KeptInv /\ [Next]_vars => KeptInv'
<1> SUFFICES ASSUME TypeInv, TypeInv', KeptInv, [Next]_vars, keeps' # "any"
             PROVE  Kept'
  BY DEF KeptInv
<1>1. CASE UNCHANGED vars
  <2>1. CallsApart' /\ LogsApart' /\ NoLeak' /\ (~wild)'
    BY <1>1 DEF vars, KeptInv, Kept, CallsApart, LogsApart, NoLeak, Owns, On,
                Halfway, HasArray, Log
  <2>2. \A p \in Pids : ReadyAt(p)'
    BY <1>1 DEF vars, KeptInv, Kept, ReadyAt, On, Log
  <2>3. \A p \in Pids : ExpectedAt(p)'
    BY <1>1 DEF vars, KeptInv, Kept, ExpectedAt, Expects, On, Log
  <2>4. QED
    BY <2>1, <2>2, <2>3 DEF Kept
<1>2. CASE Next
  <2>1. keeps' = keeps
    BY <1>2, ZenonT(60) DEF Next, EnableBegins, EnableHeader, EnableNoHeader, EnableArray,
       EnableNoArray, EnableWild, Disable, SetLevel, Release, GetBegins, GetLoop,
       GetNoMem, GetOk, GetFault, GetWild, Yield, KernelYield, Denied,
       DanglingUse, Wild
  <2>2. Kept /\ keeps = "family"
    BY <2>1, SleepAssumption DEF KeptInv, TypeInv, BoundTypes
  <2>3. PICK c \in Pids :
           \/ \E p \in Pids, n \in Sizes : EnableBegins(c, p, n) \/ GetBegins(c, p, n)
           \/ \E h \in LogIds : EnableHeader(c, h)
           \/ \E a \in ArrIds : EnableArray(c, a)
           \/ EnableNoHeader(c) \/ GetNoMem(c)
           \/ EnableNoArray(c)
           \/ \E p \in Pids : Disable(c, p) \/ Release(p)
           \/ \E p \in Pids, l \in {0, 2} : SetLevel(c, p, l)
           \/ GetLoop(c)
           \/ GetOk(c) \/ GetFault(c)
           \/ Denied(c)
           \/ EnableWild(c) \/ GetWild(c) \/ DanglingUse(c)
    BY <1>2 DEF Next, Yield, KernelYield
  <2>4. QED
    BY <2>2, <2>3, NothingWild, KeptBegins, KeptHeader, KeptArray, KeptNoMem,
       KeptNoArray, KeptLeaves, KeptSetLevel, KeptLoop, KeptGetEnd, KeptDenied, SMTT(30)
<1>3. QED
  BY <1>1, <1>2

LEMMA KeptInit == Init => KeptInv
BY DEF Init, KeptInv, Kept, CallsApart, ExpectedAt, Expects, ReadyAt, LogsApart,
       NoLeak, Owns, On, Halfway, HasArray, Idle, Calling

LEMMA KeptInvariant == Spec => []KeptInv
<1>1. TypeInv /\ KeptInv /\ [Next]_vars => KeptInv'
  BY TypeStep, KeptStep
<1>2. QED
  BY <1>1, KeptInit, TypeInvariant, PTL DEF Spec

(***************************************************************************)
(* No call sleeps through the end of the process it is about or of its log *)
(* as long as processes call about themselves and their own children only  *)
(* and no two calls about one process overlap, although the process may be *)
(* refused, and the others exit and be reaped, meanwhile: what the policy  *)
(* calls, the hook and release_task go on through is there and set up.     *)
(***************************************************************************)
THEOREM SleepersFindTheirLog == Spec => []NoUseAfterFree
<1>1. KeptInv => NoUseAfterFree
  BY DEF KeptInv, Kept, NoUseAfterFree
<1>2. QED
  BY <1>1, KeptInvariant, PTL

(***************************************************************************)
(* Under the same discipline an enable_policy, a disable_policy and a      *)
(* release_task that sleep or fail in the middle leak no header and no     *)
(* array.                                                                  *)
(***************************************************************************)
THEOREM SleepersLeakNothing == Spec => []NoLeakIfKept
<1>1. KeptInv => NoLeakIfKept
  BY DEF KeptInv, Kept, NoLeakIfKept
<1>2. QED
  BY <1>1, KeptInvariant, PTL

-----------------------------------------------------------------------------
(***************************************************************************)
(* The queue under the family discipline: the ring of p, as a failed       *)
(* copy_to_user would leave it, lists what is in the queue, and the        *)
(* records that a copy under way has taken are the oldest of it.           *)
(***************************************************************************)
RingLists(g, arr, records) ==
    /\ g.size # 0 => DOMAIN arr = 0..(g.size - 1)
    /\ g.full = 1 => g.indexWrite = g.indexRead
    /\ Lists(Contents(g, arr), records)

Restored(r, g) == IF r.at = "copy" THEN [g EXCEPT !.indexRead = r.prev] ELSE g

\* The call r has taken records from the log g and its array.
Taken(r, g, arr) ==
    /\ r.at \in {"temp", "copy"} => r.size \in 1..Count(Restored(r, g))
    /\ r.at = "temp" => r.prev = g.indexRead
    /\ r.at = "copy" =>
          /\ g.indexRead = Slot(Restored(r, g), r.size)
          /\ r.temp = ReadRecords(Restored(r, g), arr, r.size)

RingAt(r, g, arr, records) == /\ RingLists(Restored(r, g), arr, records)
                              /\ Taken(r, g, arr)

\* The state r of the call about p, idle if there is none.
IsAbout(r, p) == \/ \E c \in Pids : call[c].pid = p /\ r = call[c]
                 \/ Quiet(p) /\ r = Idle

Exact(p) == On(p) /\ p \notin crowded

QueueAt(p) ==
    /\ queue[p] \subseteq 1..denied
    /\ \A r : Exact(p) /\ IsAbout(r, p)
               => RingAt(r, Log(p), arrays[Log(p).array], queue[p])

QueueInv == keeps = "family" => /\ queue \in [Pids -> SUBSET Nat]
                                /\ \A p \in Pids : QueueAt(p)

\* The indexes of a log inside its array, and how many records it holds.
Inside(g) == g \in LogRecs /\ WriteInside(g) /\ ReadInside(g)

LEMMA CountBound ==
    ASSUME NEW g, Inside(g)
    PROVE  /\ Count(g) \in 0..g.size
           /\ \A j \in 0..g.size : g.size # 0 => Slot(g, j) \in 0..(g.size - 1)
BY DEF Inside, WriteInside, ReadInside, LogRecs, Count, Slot

LEMMA ContentsAt ==
    ASSUME NEW g, NEW arr, Inside(g)
    PROVE  /\ DOMAIN Contents(g, arr) = 1..Count(g)
           /\ \A j \in 1..Count(g) : Contents(g, arr)[j] = arr[Slot(g, j - 1)]
BY DEF Contents, ReadRecords

\* A log of size 0 and a log just set up list nothing.
LEMMA EmptyRing ==
    ASSUME NEW g, Inside(g), g.size = 0 \/ (g.indexRead = g.indexWrite /\ g.full = 0),
           NEW arr
    PROVE  /\ Count(g) = 0
           /\ \A records : Lists(Contents(g, arr), records) <=> records = {}
<1>1. Count(g) = 0
  BY DEF Inside, WriteInside, ReadInside, LogRecs, Count
<1>2. DOMAIN Contents(g, arr) = {}
  BY <1>1, ContentsAt
<1>3. QED
  BY <1>1, <1>2 DEF Lists, Records

\* A hook's record comes last.
LEMMA ListsPut ==
    ASSUME NEW g, Inside(g), g.size # 0, Count(g) < g.size, NEW arr, NEW S,
           NEW n \in Nat, S \subseteq 1..n, RingLists(g, arr, S)
    PROVE  RingLists(PutLog(g), PutArray(g, arr, n + 1), S \cup {n + 1})
<1> DEFINE h == PutLog(g)
           b == PutArray(g, arr, n + 1)
           N == Count(g)
           w == Advance(g.indexWrite, g.size)
<1>1. /\ g.size \in Nat \ {0} /\ g.indexWrite \in 0..(g.size - 1)
      /\ g.indexRead \in 0..(g.size - 1) /\ g.full = 0
      /\ N \in 0..(g.size - 1)
  BY CountBound DEF Inside, WriteInside, ReadInside, LogRecs, Count
<1>2. w \in 0..(g.size - 1)
  BY <1>1 DEF Advance
<1>3. /\ h.indexWrite = w /\ h.indexRead = g.indexRead /\ h.size = g.size
      /\ h.full = IF w = g.indexRead THEN 1 ELSE 0
  BY <1>1 DEF PutLog, Inside, LogRecs
<1>4. Inside(h)
  BY <1>1, <1>3, PutLogOk DEF Inside, ReadInside
<1>5. /\ DOMAIN b = 0..(g.size - 1)
      /\ \A i \in 0..(g.size - 1) : b[i] = IF i = g.indexWrite THEN n + 1 ELSE arr[i]
  BY <1>1 DEF PutArray, RingLists
<1> HIDE DEF h, b
<1>6. Count(h) = N + 1
  BY <1>1, <1>2, <1>3 DEF Count, Advance
<1>7. /\ \A j \in 0..g.size : Slot(h, j) = Slot(g, j)
      /\ Slot(g, N) = g.indexWrite
      /\ \A j \in 0..(N - 1) : Slot(g, j) \in (0..(g.size - 1)) \ {g.indexWrite}
  <2>1. \A j \in 0..g.size : Slot(h, j) = Slot(g, j)
    BY <1>3 DEF Slot
  <2>2. Slot(g, N) = g.indexWrite
    BY <1>1 DEF Slot, Count
  <2>3. \A j \in 0..(N - 1) : Slot(g, j) \in (0..(g.size - 1)) \ {g.indexWrite}
    BY <1>1 DEF Slot, Count
  <2>4. QED
    BY <2>1, <2>2, <2>3
<1> DEFINE s == Contents(g, arr)
           t == Contents(h, b)
<1>8. /\ DOMAIN s = 1..N /\ DOMAIN t = 1..(N + 1)
      /\ t[N + 1] = n + 1
      /\ \A j \in 1..N : t[j] = s[j]
  <2>1. DOMAIN s = 1..N /\ \A j \in 1..N : s[j] = arr[Slot(g, j - 1)]
    BY ContentsAt
  <2>2. DOMAIN t = 1..(N + 1) /\ \A j \in 1..(N + 1) : t[j] = b[Slot(h, j - 1)]
    BY <1>4, <1>6, ContentsAt
  <2>3. t[N + 1] = n + 1
    <3>1. t[N + 1] = b[Slot(h, N)] /\ Slot(h, N) = g.indexWrite
      BY <1>1, <1>7, <2>2
    <3>2. QED
      BY <1>1, <1>5, <3>1
  <2>4. ASSUME NEW j \in 1..N
        PROVE  t[j] = s[j]
    <3> DEFINE i == Slot(g, j - 1)
    <3>1. i \in 0..(g.size - 1) /\ i # g.indexWrite /\ Slot(h, j - 1) = i
      BY <1>1, <1>7
    <3>2. t[j] = b[i] /\ s[j] = arr[i]
      BY <1>1, <2>1, <2>2, <3>1
    <3>3. QED
      BY <1>5, <3>1, <3>2
  <2>5. QED
    BY <2>1, <2>2, <2>3, <2>4
<1>9. Records(s) = S /\ \A i, j \in 1..N : i < j => s[i] < s[j]
  BY <1>8 DEF RingLists, Lists
<1> HIDE DEF s, t, N
<1>10. \A i \in 1..N : s[i] \in S
  BY <1>8, <1>9 DEF Records
<1>11. N \in Nat
  BY <1>1
<1>12. Records(t) = S \cup {n + 1}
  <2>1. ASSUME NEW x \in Records(t) PROVE x \in S \cup {n + 1}
    BY <1>8, <1>10, <1>11, <2>1 DEF Records
  <2>2. ASSUME NEW x \in S PROVE x \in Records(t)
    <3>1. PICK j \in 1..N : s[j] = x
      BY <1>8, <1>9, <2>2 DEF Records
    <3>2. t[j] = x /\ j \in DOMAIN t
      BY <1>8, <1>11, <3>1
    <3>3. QED
      BY <3>2 DEF Records
  <2>3. n + 1 \in Records(t)
    BY <1>8, <1>11 DEF Records
  <2>4. QED
    BY <2>1, <2>2, <2>3
<1>13. \A i, j \in DOMAIN t : i < j => t[i] < t[j]
  <2>1. \A i \in 1..N : s[i] \in 1..n
    BY <1>10
  <2>2. ASSUME NEW i \in 1..(N + 1), NEW j \in 1..(N + 1), i < j
        PROVE  t[i] < t[j]
    <3>1. CASE j = N + 1
      BY <1>8, <1>11, <2>1, <2>2, <3>1
    <3>2. CASE j # N + 1
      BY <1>8, <1>9, <1>11, <2>2, <3>2
    <3>3. QED
      BY <3>1, <3>2
  <2>3. QED
    BY <1>8, <2>2
<1>14. QED
  BY <1>3, <1>5, <1>12, <1>13 DEF RingLists, Lists, h, b, t

\* A get_process_log of k records leaves the others, in the same order.
LEMMA ListsFinish ==
    ASSUME NEW u, Inside(u), NEW arr, NEW S \in SUBSET Nat, RingLists(u, arr, S),
           NEW k \in 1..Count(u),
           NEW g, Inside(g), g.size = u.size, g.indexWrite = u.indexWrite,
           g.full = u.full, g.indexRead = Slot(u, k)
    PROVE  RingLists(Finish(g, k), arr, S \ Records(ReadRecords(u, arr, k)))
<1> DEFINE h == Finish(g, k)
           N == Count(u)
           s == Contents(u, arr)
           t == Contents(h, arr)
           v == ReadRecords(u, arr, k)
<1>1. /\ u.size \in Nat \ {0} /\ u.indexWrite \in 0..(u.size - 1)
      /\ u.indexRead \in 0..(u.size - 1) /\ u.full \in {0, 1}
      /\ N \in 1..u.size /\ k \in 1..u.size
      /\ u.full = 1 => u.indexWrite = u.indexRead
  BY CountBound DEF Inside, WriteInside, ReadInside, LogRecs, RingLists
<1>2. /\ h.size = u.size /\ h.full = 0
      /\ h.indexWrite = IF k = u.size THEN 0 ELSE u.indexWrite
      /\ h.indexRead = IF k = u.size THEN 0 ELSE Slot(u, k)
  <2>1. CASE k = u.size
    <3>1. h = [g EXCEPT !.full = 0, !.indexWrite = 0, !.indexRead = 0]
      BY <2>1 DEF Finish
    <3>2. QED
      BY <2>1, <3>1 DEF Inside, LogRecs
  <2>2. CASE k # u.size
    <3>1. h = [g EXCEPT !.full = 0]
      BY <2>2 DEF Finish
    <3>2. QED
      BY <2>2, <3>1 DEF Inside, LogRecs
  <2>3. QED
    BY <2>1, <2>2
<1>3. Inside(h)
  <2>1. h \in LogRecs /\ WriteInside(h)
    BY <1>1, FinishOk DEF Inside
  <2>2. Slot(u, k) \in 0..(u.size - 1)
    BY <1>1, CountBound
  <2>3. QED
    BY <1>1, <1>2, <2>1, <2>2 DEF Inside, ReadInside
<1> HIDE DEF h
<1>4. Count(h) = N - k
  BY <1>1, <1>2 DEF Count, Slot
<1>5. ASSUME NEW j \in 1..(N - k)
      PROVE  Slot(h, j - 1) = Slot(u, k + j - 1)
  BY <1>1, <1>2, <1>5 DEF Slot
<1>6. DOMAIN s = 1..N /\ \A j \in 1..N : s[j] = arr[Slot(u, j - 1)]
  BY ContentsAt
<1>7. DOMAIN v = 1..k /\ \A j \in 1..k : v[j] = s[j]
  BY <1>1, <1>6 DEF ReadRecords
<1>8. DOMAIN t = 1..(N - k) /\ \A j \in 1..(N - k) : t[j] = s[k + j]
  <2>1. DOMAIN t = 1..(N - k) /\ \A j \in 1..(N - k) : t[j] = arr[Slot(h, j - 1)]
    BY <1>3, <1>4, ContentsAt
  <2>2. ASSUME NEW j \in 1..(N - k) PROVE t[j] = s[k + j]
    <3>1. k + j \in 1..N
      BY <1>1
    <3>2. QED
      BY <1>5, <1>6, <2>1, <3>1
  <2>3. QED
    BY <2>1, <2>2
<1>9. Records(s) = S /\ \A i, j \in 1..N : i < j => s[i] < s[j]
  BY <1>6 DEF RingLists, Lists
<1>10. N \in Nat /\ k \in 1..N
  BY <1>1
<1> HIDE DEF s, t, v, N
<1>11. \A i, j \in DOMAIN t : i < j => t[i] < t[j]
  <2>1. ASSUME NEW i \in 1..(N - k), NEW j \in 1..(N - k), i < j
        PROVE  t[i] < t[j]
    <3>1. k + i \in 1..N /\ k + j \in 1..N /\ k + i < k + j
      BY <1>10, <2>1
    <3>2. QED
      BY <1>8, <1>9, <3>1
  <2>2. QED
    BY <1>8, <2>1
<1>12. \A i, j \in 1..N : s[i] = s[j] => i = j
  <2>1. ASSUME NEW i \in 1..N, NEW j \in 1..N, s[i] = s[j], i < j PROVE FALSE
    <3>1. s[i] \in Nat /\ s[i] < s[j]
      BY <1>6, <1>9, <2>1 DEF Records
    <3>2. QED
      BY <2>1, <3>1
  <2>2. QED
    BY <1>10, <2>1
<1>13. Records(t) = S \ Records(v)
  <2>1. ASSUME NEW x \in Records(t) PROVE x \in S \ Records(v)
    <3>1. PICK j \in 1..(N - k) : x = s[k + j]
      BY <1>8, <2>1 DEF Records
    <3>2. k + j \in 1..N /\ x \in S
      <4>1. k + j \in 1..N
        BY <1>10
      <4>2. x \in Records(s)
        BY <1>6, <3>1, <4>1 DEF Records
      <4>3. QED
        BY <1>9, <4>1, <4>2
    <3>3. \A i \in 1..k : v[i] # x
      BY <1>7, <1>10, <1>12, <3>1, <3>2
    <3>4. QED
      BY <1>7, <3>2, <3>3 DEF Records
  <2>2. ASSUME NEW x \in S \ Records(v) PROVE x \in Records(t)
    <3>1. PICK j \in 1..N : x = s[j]
      BY <1>6, <1>9, <2>2 DEF Records
    <3>2. j \notin 1..k
      BY <1>7, <2>2, <3>1 DEF Records
    <3>3. j - k \in 1..(N - k) /\ k + (j - k) = j
      BY <1>10, <3>1, <3>2
    <3>4. t[j - k] = x
      BY <1>8, <3>1, <3>3
    <3>5. QED
      BY <1>8, <3>3, <3>4 DEF Records
  <2>3. QED
    BY <2>1, <2>2
<1>14. QED
  BY <1>1, <1>2, <1>11, <1>13 DEF RingLists, Lists, h, t, v

-----------------------------------------------------------------------------
\* A hook leaves the records that are there in their slots.
LEMMA PutSlots ==
    ASSUME NEW g, Inside(g), g.size # 0, Count(g) < g.size
    PROVE  /\ Count(PutLog(g)) = Count(g) + 1
           /\ Count(g) \in Nat /\ g.size \in Nat
           /\ \A j \in 0..g.size : Slot(PutLog(g), j) = Slot(g, j)
           /\ \A j \in 0..(Count(g) - 1) :
                 Slot(g, j) \in (0..(g.size - 1)) \ {g.indexWrite}
<1> DEFINE h == PutLog(g)
           N == Count(g)
           w == Advance(g.indexWrite, g.size)
<1>1. /\ g.size \in Nat \ {0} /\ g.indexWrite \in 0..(g.size - 1)
      /\ g.indexRead \in 0..(g.size - 1) /\ g.full = 0
      /\ N \in 0..(g.size - 1)
  BY CountBound DEF Inside, WriteInside, ReadInside, LogRecs, Count
<1>2. w \in 0..(g.size - 1)
  BY <1>1 DEF Advance
<1>3. /\ h.indexWrite = w /\ h.indexRead = g.indexRead /\ h.size = g.size
      /\ h.full = IF w = g.indexRead THEN 1 ELSE 0
  BY <1>1 DEF PutLog, Inside, LogRecs
<1> HIDE DEF h
<1>4. Count(h) = N + 1
  <2>1. N = IF g.indexWrite >= g.indexRead THEN g.indexWrite - g.indexRead
            ELSE g.size - g.indexRead + g.indexWrite
    BY <1>1 DEF Count
  <2>2. CASE g.indexWrite + 1 = g.size
    BY <1>1, <1>3, <2>1, <2>2 DEF Count, Advance
  <2>3. CASE g.indexWrite + 1 # g.size
    BY <1>1, <1>3, <2>1, <2>3 DEF Count, Advance
  <2>4. QED
    BY <2>2, <2>3
<1>5. \A j \in 0..g.size : Slot(h, j) = Slot(g, j)
  BY <1>3 DEF Slot
<1>6. \A j \in 0..(N - 1) : Slot(g, j) \in (0..(g.size - 1)) \ {g.indexWrite}
  BY <1>1 DEF Slot, Count
<1>7. QED
  BY <1>1, <1>4, <1>5, <1>6 DEF h

LEMMA PutKeeps ==
    ASSUME NEW g, Inside(g), g.size # 0, Count(g) < g.size, NEW arr,
           DOMAIN arr = 0..(g.size - 1), NEW v, NEW k \in 0..Count(g)
    PROVE  ReadRecords(PutLog(g), PutArray(g, arr, v), k) = ReadRecords(g, arr, k)
<1> DEFINE b == PutArray(g, arr, v)
<1>1. \A i \in (0..(g.size - 1)) \ {g.indexWrite} : b[i] = arr[i]
  BY DEF PutArray
<1> HIDE DEF b
<1>2. ASSUME NEW j \in 1..k
      PROVE  b[Slot(PutLog(g), j - 1)] = arr[Slot(g, j - 1)]
  <2>1. j - 1 \in 0..(Count(g) - 1) /\ j - 1 \in 0..g.size
    BY PutSlots
  <2>2. /\ Slot(PutLog(g), j - 1) = Slot(g, j - 1)
        /\ Slot(g, j - 1) \in (0..(g.size - 1)) \ {g.indexWrite}
    BY <2>1, PutSlots
  <2>3. QED
    BY <1>1, <2>2
<1>3. QED
  BY <1>2 DEF ReadRecords, b

\* A hook while the call r copies k records out of the log g, when the log the
\* failed copy would leave has a slot to spare.
LEMMA PutWhileCopying ==
    ASSUME NEW g, NEW r, NEW u, Inside(g), Inside(u), u.size # 0,
           r.at = "copy", u = Restored(r, g),
           u.full = 1 => u.indexWrite = u.indexRead,
           PutLog(u).full # 1,
           NEW k \in 1..Count(u), g.indexRead = Slot(u, k)
    PROVE  /\ Count(u) < u.size
           /\ Restored(r, PutLog(g)) = PutLog(u)
           /\ \A arr, v : PutArray(g, arr, v) = PutArray(u, arr, v)
<1> DEFINE w == Advance(g.indexWrite, g.size)
<1>i. PICK i : i = r.prev
  OBVIOUS
<1>e. u = [g EXCEPT !.indexRead = i]
  BY <1>i DEF Restored
<1>1. /\ u.size = g.size /\ u.indexWrite = g.indexWrite /\ u.full = g.full
      /\ u.indexRead = i
  BY <1>e DEF Inside, LogRecs
<1>2. /\ g.size \in Nat \ {0} /\ g.indexWrite \in 0..(g.size - 1)
      /\ i \in 0..(g.size - 1) /\ g.full \in {0, 1}
  BY <1>1 DEF Inside, WriteInside, ReadInside, LogRecs
<1>3. PutLog(u).full = IF w = i THEN 1 ELSE u.full
  BY <1>1 DEF PutLog, Inside, LogRecs
<1>4. w # i /\ g.full = 0
  BY <1>1, <1>2, <1>3
<1>5. /\ Count(u) = IF g.indexWrite >= i THEN g.indexWrite - i
                    ELSE g.size - i + g.indexWrite
      /\ g.indexRead = IF i + k < g.size THEN i + k ELSE i + k - g.size
  BY <1>1, <1>4 DEF Count, Slot
<1>6. Count(u) < u.size /\ Count(u) \in Nat
  BY <1>1, <1>2, <1>5
<1>7. w # g.indexRead
  BY <1>2, <1>4, <1>5, <1>6 DEF Advance
<1>8. [PutLog(g) EXCEPT !.indexRead = i] = PutLog(u)
  <2>1. PutLog(g) = [g EXCEPT !.indexWrite = w, !.full = 0]
    BY <1>4, <1>7 DEF PutLog
  <2>2. PutLog(u) = [u EXCEPT !.indexWrite = w, !.full = 0]
    BY <1>1, <1>4 DEF PutLog
  <2> HIDE DEF w
  <2>3. QED
    BY <2>1, <2>2, <1>e, ZenonT(60) DEF Inside, LogRecs
<1>9. \A arr, v : PutArray(g, arr, v) = PutArray(u, arr, v)
  BY <1>1 DEF PutArray
<1>10. QED
  BY <1>6, <1>8, <1>9, <1>i DEF Restored

-----------------------------------------------------------------------------
\* Of the calls about q, which the step is not about, none begins or moves on.
LEMMA AboutFramed ==
    ASSUME NEW c \in Pids, NEW p \in Pids, CallFrame(c, p),
           NEW q \in Pids \ {p}, NEW r, IsAbout(r, q)'
    PROVE  IsAbout(r, q)
<1>1. \A d \in Pids : call'[d].pid = q => call'[d] = call[d]
  BY WordsAssumption DEF CallFrame
<1>2. \A d \in Pids : call[d].pid = q => call'[d] = call[d]
  BY WordsAssumption DEF CallFrame
<1>3. CASE Quiet(q)' /\ r = Idle
  BY <1>2, <1>3 DEF IsAbout, Quiet
<1>4. CASE \E d \in Pids : call'[d].pid = q /\ r = call'[d]
  BY <1>1, <1>4 DEF IsAbout
<1>5. QED
  BY <1>3, <1>4 DEF IsAbout

\* The call about p is the one of c, or nobody is in one.
LEMMA AboutOnly ==
    ASSUME TypeInv, Kept, NEW c \in Pids, NEW p \in Pids, call[c].pid = p
    PROVE  /\ \A r : IsAbout(r, p) <=> r = call[c]
           /\ call[c].at # "idle" /\ Expects(call[c])
           /\ \A d \in Pids \ {c} : call[d].pid # p
<1>1. call[c].at # "idle"
  BY WordsAssumption DEF TypeInv, CallTypes, CallOk
<1>2. \A d \in Pids \ {c} : call[d].pid # p
  BY <1>1, CallIsAlone
<1>3. Expects(call[c])
  BY DEF Kept, ExpectedAt
<1>4. QED
  BY <1>1, <1>2, <1>3 DEF IsAbout, Quiet

\* What a step of c that is about p has to leave behind.
QueueStep(c, p) ==
    /\ CallFrame(c, p)
    /\ \A d \in Pids \ {c} : call[d].pid # p
    /\ call'[c].pid = p \/ call'[c] = Idle
    /\ denied' \in Nat /\ denied <= denied'
    /\ queue' \in [Pids -> SUBSET Nat]
    /\ \A d \in Pids \ {p} : queue'[d] = queue[d]
    /\ \A d \in Pids \ {p} : d \in crowded' <=> d \in crowded
    /\ queue'[p] \subseteq 1..denied'
    /\ Exact(p)' => RingAt(call'[c], Log(p)', arrays'[Log(p)'.array], queue'[p])

\* What such a step finds: c is in the call about p, or nobody is.
Acts(c, p) == \/ call[c].pid = p
              \/ Quiet(p) /\ call[c] = Idle

LEMMA QueueBefore ==
    ASSUME TypeInv, Kept, keeps = "family", QueueInv, NEW c \in Pids,
           NEW p \in Pids, Acts(c, p)
    PROVE  /\ queue \in [Pids -> SUBSET Nat] /\ queue[p] \subseteq 1..denied
           /\ denied \in Nat /\ IsFun(call) /\ DOMAIN call = Pids
           /\ \A d \in Pids \ {c} : call[d].pid # p
           /\ call[c].pid \in {p, NULL}
           /\ Exact(p) => RingAt(call[c], Log(p), arrays[Log(p).array], queue[p])
<1>1. /\ queue \in [Pids -> SUBSET Nat] /\ queue[p] \subseteq 1..denied
      /\ denied \in Nat /\ IsFun(call) /\ DOMAIN call = Pids
  BY DEF QueueInv, QueueAt, TypeInv, BoundTypes, CallTypes
<1>2. IsAbout(call[c], p) /\ \A d \in Pids \ {c} : call[d].pid # p
  BY AboutOnly DEF Acts, IsAbout, Quiet
<1>3. call[c].pid \in {p, NULL}
  BY DEF Acts, Idle, Calling
<1>4. Exact(p) => RingAt(call[c], Log(p), arrays[Log(p).array], queue[p])
  BY <1>2 DEF QueueInv, QueueAt
<1>5. QED
  BY <1>1, <1>2, <1>3, <1>4

\* The log of a policy that is on, and the log a failed copy would leave.
LEMMA OnInside ==
    ASSUME TypeInv, Kept, NEW p \in Pids, On(p), NEW r, IsAbout(r, p)
    PROVE  /\ Inside(Log(p)) /\ Inside(Restored(r, Log(p)))
           /\ Log(p).size = 0 => r.at \notin {"temp", "copy"}
           /\ Restored(r, Log(p)).size = Log(p).size
           /\ Restored(r, Log(p)).array = Log(p).array
<1>1. Inside(Log(p))
  BY OwnerHasLog DEF Owns, Kept, ReadyAt, Inside
<1>2. ASSUME r.at \in {"temp", "copy"}
      PROVE  r.prev \in Nat /\ r.prev < Log(p).size
  <2>1. r # Idle
    BY <1>2 DEF Idle, Calling
  <2>2. PICK c \in Pids : call[c].pid = p /\ r = call[c]
    BY <2>1 DEF IsAbout
  <2>3. QED
    BY <1>2, <2>2, AboutOnly DEF Expects, TypeInv, CallTypes, CallOk
<1>3. Log(p).size = 0 => r.at \notin {"temp", "copy"}
  BY <1>2
<1>4. CASE r.at = "copy"
  <2> DEFINE u == [Log(p) EXCEPT !.indexRead = r.prev]
  <2>1. /\ u \in LogRecs /\ u.size = Log(p).size /\ u.array = Log(p).array
        /\ u.indexWrite = Log(p).indexWrite /\ u.indexRead = r.prev
    BY <1>1, <1>2, <1>4, SetReadOk DEF Inside
  <2>2. Restored(r, Log(p)) = u
    BY <1>4 DEF Restored
  <2> HIDE DEF u
  <2>3. WriteInside(u) /\ ReadInside(u)
    BY <1>1, <1>2, <1>4, <2>1 DEF Inside, WriteInside, ReadInside
  <2>4. QED
    BY <1>1, <1>3, <2>1, <2>2, <2>3 DEF Inside
<1>5. CASE r.at # "copy"
  BY <1>1, <1>3, <1>5 DEF Restored
<1>6. QED
  BY <1>4, <1>5

\* The queue of a process that the step is not about.
LEMMA QueueFramed ==
    ASSUME TypeInv, Kept, NEW c \in Pids, NEW p \in Pids, CallFrame(c, p),
           HeapFrame(p), denied' \in Nat, denied <= denied',
           NEW q \in Pids \ {p}, QueueAt(q),
           q \in crowded' <=> q \in crowded, queue'[q] = queue[q]
    PROVE  QueueAt(q)'
<1>1. queue'[q] \subseteq 1..denied'
  BY DEF QueueAt, TypeInv, BoundTypes
<1>2. ASSUME Exact(q)', NEW r, IsAbout(r, q)'
      PROVE  RingAt(r, Log(q)', arrays'[Log(q)'.array], queue'[q])
  <2>1. Exact(q) /\ On(q) /\ Log(q)' = Log(q)
    BY <1>2 DEF HeapFrame, Exact, On, Owns, Log
  <2>r. IsAbout(r, q)
    BY <1>2, AboutFramed
  <2>2. RingAt(r, Log(q), arrays[Log(q).array], queue[q])
    BY <2>1, <2>r DEF QueueAt
  <2>3. CASE Log(q).size # 0
    <3>1. arrays'[Log(q).array] = arrays[Log(q).array]
      BY <2>1, <2>3 DEF HeapFrame, HasArray
    <3>2. QED
      BY <2>1, <2>2, <3>1
  <2>4. CASE Log(q).size = 0
    <3>1. Inside(Log(q)) /\ r.at \notin {"temp", "copy"}
      BY <2>1, <2>r, <2>4, OnInside
    <3>2. queue[q] = {}
      BY <2>2, <2>4, <3>1, EmptyRing DEF RingAt, RingLists, Restored
    <3>3. \A arr : RingLists(Log(q), arr, {})
      BY <2>2, <2>4, <3>1, EmptyRing DEF RingAt, RingLists, Restored
    <3>4. QED
      BY <2>1, <3>1, <3>2, <3>3 DEF RingAt, Restored, Taken
  <2>5. QED
    BY <2>3, <2>4
<1>3. QED
  BY <1>1, <1>2 DEF QueueAt

LEMMA QueueSteps ==
    ASSUME TypeInv, Kept, keeps = "family", QueueInv, NEW c \in Pids,
           NEW p \in Pids, HeapFrame(p), QueueStep(c, p)
    PROVE  QueueInv'
<1>1. queue \in [Pids -> SUBSET Nat] /\ \A q \in Pids : QueueAt(q)
  BY DEF QueueInv
<1>2. ASSUME NEW r, IsAbout(r, p)'
      PROVE  r = call'[c]
  <2>1. \A d \in Pids \ {c} : call'[d].pid # p
    BY DEF QueueStep, CallFrame
  <2>2. CASE Quiet(p)' /\ r = Idle
    BY <2>2 DEF QueueStep, Quiet
  <2>3. CASE ~(Quiet(p)' /\ r = Idle)
    BY <1>2, <2>1, <2>3 DEF IsAbout
  <2>4. QED
    BY <2>2, <2>3
<1>3. QueueAt(p)'
  BY <1>2 DEF QueueAt, QueueStep
<1>4. \A q \in Pids \ {p} : QueueAt(q)'
  BY <1>1, QueueFramed DEF QueueStep
<1>5. QED
  BY <1>3, <1>4 DEF QueueInv, QueueStep

-----------------------------------------------------------------------------
\* The policy of p is off after the step.
LEMMA QueueOff ==
    ASSUME TypeInv, Kept, keeps = "family", QueueInv, NEW c \in Pids,
           NEW p \in Pids, Acts(c, p),
           \/ \E n \in Sizes : EnableBegins(c, p, n)
           \/ call[c].pid = p /\ (EnableNoHeader(c) \/ EnableNoArray(c))
           \/ Disable(c, p)
           \/ Release(p)
    PROVE  QueueStep(c, p)
<1>1. /\ queue \in [Pids -> SUBSET Nat] /\ queue[p] \subseteq 1..denied
      /\ denied \in Nat /\ IsFun(call) /\ DOMAIN call = Pids
      /\ \A d \in Pids \ {c} : call[d].pid # p
      /\ call[c].pid \in {p, NULL}
  BY QueueBefore
<1>2. CASE \E n \in Sizes : EnableBegins(c, p, n)
  <2>1. ~On(p)'
    BY <1>2 DEF EnableBegins, On
  <2>2. queue' = queue /\ denied' = denied /\ crowded' = crowded
    BY <1>2 DEF EnableBegins
  <2>3. PICK n \in Sizes : call' = [call EXCEPT ![c] = Calling("header", p, n)]
    BY <1>2 DEF EnableBegins
  <2>4. call'[c].pid = p /\ \A d \in Pids \ {c} : call'[d] = call[d]
    BY <1>1, <2>3 DEF IsFun, Calling
  <2>5. QED
    BY <1>1, <2>1, <2>2, <2>4 DEF QueueStep, CallFrame, Exact
<1>3. CASE call[c].pid = p /\ (EnableNoHeader(c) \/ EnableNoArray(c))
  <2>1. /\ call[c].at \in {"header", "array"} /\ Done(c)
        /\ UNCHANGED <<denied, queue, crowded>>
    BY <1>3 DEF EnableNoHeader, EnableNoArray, Resumes
  <2>2. ~On(p)
    BY <1>3, <2>1, AboutOnly DEF Expects
  <2>3. ~On(p)'
    BY <1>3, <2>2 DEF EnableNoHeader, EnableNoArray, On, TypeInv, Tasks
  <2>4. /\ call'[c] = Idle /\ call'[c].pid = NULL
        /\ \A d \in Pids \ {c} : call'[d] = call[d]
    BY <2>1, CallEnds DEF TypeInv, Idle, Calling
  <2>5. QED
    BY <1>1, <2>1, <2>3, <2>4 DEF QueueStep, CallFrame, Exact
<1>4. CASE Disable(c, p) \/ Release(p)
  <2>1. /\ queue' = [queue EXCEPT ![p] = {}] /\ UNCHANGED <<call, denied>>
        /\ crowded' = crowded \ {p}
    BY <1>4 DEF Disable, Release
  <2>2. ~On(p)'
    <3>1. CASE Disable(c, p)
      BY <3>1 DEF Disable, Disabled, TypeInv, Tasks, On
    <3>2. CASE Release(p)
      <4>1. task' = [task EXCEPT ![p].alive = FALSE, ![p].policy_on = 0]
        BY <3>2 DEF Release
      <4>2. QED
        BY <4>1 DEF TypeInv, Tasks, On
    <3>3. QED
      BY <1>4, <3>1, <3>2
  <2>3. /\ queue' \in [Pids -> SUBSET Nat] /\ queue'[p] = {}
        /\ \A d \in Pids \ {p} : queue'[d] = queue[d]
    BY <1>1, <2>1
  <2>4. call'[c].pid = p \/ call'[c] = Idle
    BY <2>1 DEF Acts
  <2>5. QED
    BY <1>1, <2>1, <2>2, <2>3, <2>4 DEF QueueStep, CallFrame, Exact
<1>5. QED
  BY <1>2, <1>3, <1>4

\* The log that enable_policy sets up is empty.
LEMMA NewRing ==
    ASSUME NEW n \in Nat, NEW a \in ArrIds \cup {UNINIT}, NEW arr,
           n # 0 => arr = NewArray(n)
    PROVE  RingAt(Idle, NewLog(n, a), arr, {})
<1> DEFINE g == NewLog(n, a)
<1>1. Inside(g)
  BY NewLogOk DEF Inside, ReadInside, NewLog
<1>2. g.size = n /\ g.full = 0 /\ g.indexRead = g.indexWrite
  BY DEF NewLog
<1> HIDE DEF g
<1>3. Lists(Contents(g, arr), {})
  BY <1>1, <1>2, EmptyRing
<1>4. n # 0 => DOMAIN arr = 0..(n - 1)
  BY DEF NewArray
<1>5. Idle.at = "idle"
  BY DEF Idle, Calling
<1>6. QED
  BY <1>2, <1>3, <1>4, <1>5 DEF RingAt, RingLists, Restored, Taken, g

LEMMA QueueHeader ==
    ASSUME TypeInv, Kept, keeps = "family", QueueInv, NEW c \in Pids,
           NEW p \in Pids, call[c].pid = p,
           NEW h \in LogIds, EnableHeader(c, h)
    PROVE  QueueStep(c, p)
<1>1. /\ queue \in [Pids -> SUBSET Nat] /\ queue[p] \subseteq 1..denied
      /\ denied \in Nat /\ IsFun(call) /\ DOMAIN call = Pids
      /\ \A d \in Pids \ {c} : call[d].pid # p
      /\ call[c].pid \in {p, NULL}
      /\ Exact(p) => RingAt(call[c], Log(p), arrays[Log(p).array], queue[p])
  BY QueueBefore DEF Acts
<1>2. ~On(p) /\ denied' = denied
  BY AboutOnly DEF EnableHeader, Resumes, Expects
<1>3. CASE call[c].size = 0
  <2>1. Enable(p, 0, h, UNINIT) /\ Done(c)
    BY <1>2, <1>3 DEF EnableHeader
  <2>2. /\ queue' \in [Pids -> SUBSET Nat] /\ queue'[p] = {}
        /\ \A d \in Pids \ {p} : queue'[d] = queue[d]
        /\ crowded' = crowded \ {p}
    BY <1>1, <2>1 DEF Enable
  <2>3. task'[p].logArray = h
    BY <2>1 DEF Enable, TypeInv, Tasks
  <2>4. Log(p)' = NewLog(0, UNINIT)
    <3>1. logs'[h] = NewLog(0, UNINIT)
      BY <2>1 DEF Enable, With
    <3>2. QED
      BY <2>3, <3>1 DEF Log
  <2>5. /\ call'[c] = Idle /\ call'[c].pid = NULL
        /\ \A d \in Pids \ {c} : call'[d] = call[d]
    BY <2>1, CallEnds DEF TypeInv, Idle, Calling
  <2>6. \A arr : RingAt(Idle, NewLog(0, UNINIT), arr, {})
    BY NewRing
  <2>7. RingAt(call'[c], Log(p)', arrays'[Log(p)'.array], queue'[p])
    BY <2>2, <2>4, <2>5, <2>6
  <2>8. QED
    BY <1>1, <1>2, <2>2, <2>5, <2>7 DEF QueueStep, CallFrame, Exact
<1>4. CASE call[c].size # 0
  <2>1. /\ task' = [task EXCEPT ![p].logArray = h]
        /\ call' = [call EXCEPT ![c].at = "array"]
        /\ queue' = queue /\ crowded' = crowded
    BY <1>2, <1>4 DEF EnableHeader
  <2>2. ~On(p)'
    BY <1>2, <2>1 DEF On, TypeInv, Tasks
  <2>3. call'[c].pid = p /\ \A d \in Pids \ {c} : call'[d] = call[d]
    <3>1. CallOk(call[c])
      BY DEF TypeInv, CallTypes
    <3>2. [call[c] EXCEPT !.at = "array"].pid = p
      BY <3>1, CallMoves DEF Places
    <3>3. call' = [call EXCEPT ![c] = [call[c] EXCEPT !.at = "array"]]
      BY <2>1
    <3>4. QED
      BY <1>1, <3>2, <3>3 DEF IsFun
  <2>4. QED
    BY <1>1, <1>2, <2>1, <2>2, <2>3 DEF QueueStep, CallFrame, Exact
<1>5. QED
  BY <1>3, <1>4

LEMMA QueueArray ==
    ASSUME TypeInv, Kept, keeps = "family", QueueInv, NEW c \in Pids,
           NEW p \in Pids, call[c].pid = p,
           NEW a \in ArrIds, EnableArray(c, a)
    PROVE  QueueStep(c, p)
<1>1. /\ queue \in [Pids -> SUBSET Nat] /\ queue[p] \subseteq 1..denied
      /\ denied \in Nat /\ IsFun(call) /\ DOMAIN call = Pids
      /\ \A d \in Pids \ {c} : call[d].pid # p
      /\ call[c].pid \in {p, NULL}
      /\ Exact(p) => RingAt(call[c], Log(p), arrays[Log(p).array], queue[p])
  BY QueueBefore DEF Acts
<1>n. PICK n \in Nat : n = call[c].size
  BY DEF TypeInv, CallTypes, CallOk
<1>2. denied' = denied
  BY DEF EnableArray
<1>l. PICK l : l = task[p].logArray
  OBVIOUS
<1>3. /\ Enable(p, n, l, a) /\ Done(c)
      /\ arrays' = With(arrays, a, NewArray(n))
  BY <1>2, <1>n, <1>l DEF EnableArray
<1>4. /\ queue' \in [Pids -> SUBSET Nat] /\ queue'[p] = {}
      /\ \A d \in Pids \ {p} : queue'[d] = queue[d]
      /\ crowded' = crowded \ {p}
  BY <1>1, <1>3 DEF Enable
<1>5. task'[p].logArray = l
  BY <1>3, <1>l DEF Enable, TypeInv, Tasks
<1>6. Log(p)' = NewLog(n, a) /\ arrays'[a] = NewArray(n) /\ NewLog(n, a).array = a
  <2>1. logs'[l] = NewLog(n, a) /\ arrays'[a] = NewArray(n)
    BY <1>3 DEF Enable, With
  <2>2. QED
    BY <1>5, <2>1 DEF Log, NewLog
<1>7. /\ call'[c] = Idle /\ call'[c].pid = NULL
      /\ \A d \in Pids \ {c} : call'[d] = call[d]
  BY <1>3, CallEnds DEF TypeInv, Idle, Calling
<1>8. RingAt(Idle, NewLog(n, a), NewArray(n), {})
  BY NewRing
<1>9. RingAt(call'[c], Log(p)', arrays'[Log(p)'.array], queue'[p])
  BY <1>4, <1>6, <1>7, <1>8
<1>10. QED
  BY <1>1, <1>2, <1>4, <1>7, <1>9 DEF QueueStep, CallFrame, Exact

\* Steps that leave the log of p as it is.
LEMMA QueueSame ==
    ASSUME TypeInv, Kept, keeps = "family", QueueInv, NEW c \in Pids,
           NEW p \in Pids, Acts(c, p),
           \/ \E l \in {0, 2} : SetLevel(c, p, l)
           \/ GetNoMem(c)
           \/ \E k \in Sizes : GetBegins(c, p, k)
    PROVE  QueueStep(c, p)
<1>1. /\ queue \in [Pids -> SUBSET Nat] /\ queue[p] \subseteq 1..denied
      /\ denied \in Nat /\ IsFun(call) /\ DOMAIN call = Pids
      /\ \A d \in Pids \ {c} : call[d].pid # p
      /\ call[c].pid \in {p, NULL}
      /\ Exact(p) => RingAt(call[c], Log(p), arrays[Log(p).array], queue[p])
  BY QueueBefore
<1>2. /\ UNCHANGED <<logs, arrays, denied, queue, crowded>>
      /\ task'[p].policy_on = task[p].policy_on
      /\ task'[p].logArray = task[p].logArray
  BY DEF SetLevel, GetNoMem, GetBegins, TypeInv, Tasks
<1>3. (On(p)' <=> On(p)) /\ Log(p)' = Log(p)
  BY <1>2 DEF On, Log
<1>4. SUFFICES /\ \A d \in Pids \ {c} : call'[d] = call[d]
               /\ call'[c] = Idle \/ call'[c].pid = p
               /\ call'[c].pid \in {p, NULL}
               /\ Exact(p) => RingAt(call'[c], Log(p), arrays[Log(p).array], queue[p])
  BY <1>1, <1>2, <1>3 DEF QueueStep, CallFrame, Exact
<1>5. CASE \E l \in {0, 2} : SetLevel(c, p, l)
  BY <1>1, <1>5 DEF SetLevel, Acts
<1>6. CASE GetNoMem(c)
  <2>1. call[c].at = "temp" /\ Done(c)
    BY <1>6 DEF GetNoMem, Resumes
  <2>2. /\ call'[c] = Idle /\ Idle.at = "idle" /\ Idle.pid = NULL
        /\ \A d \in Pids \ {c} : call'[d] = call[d]
    BY <2>1, CallEnds DEF TypeInv, Idle, Calling
  <2>3. QED
    BY <1>1, <2>1, <2>2 DEF RingAt, Restored, Taken
<1>7. CASE \E k \in Sizes : GetBegins(c, p, k)
  <2>1. PICK k \in Sizes : GetBegins(c, p, k)
    BY <1>7
  <2> DEFINE r == [Calling("temp", p, k) EXCEPT !.prev = Log(p).indexRead]
  <2>2. r.at = "temp" /\ r.size = k /\ r.prev = Log(p).indexRead /\ r.pid = p
    BY DEF Calling
  <2>3. call' = [call EXCEPT ![c] = r] /\ call[c].at = "idle"
    BY <2>1 DEF GetBegins, May, Idle, Calling
  <2> HIDE DEF r
  <2>4. call'[c] = r /\ \A d \in Pids \ {c} : call'[d] = call[d]
    BY <2>3 DEF TypeInv, CallTypes, IsFun
  <2>5. On(p) /\ Enough(Log(p), k) /\ k > 0 /\ k \in Nat
    BY <2>1, SleepAssumption DEF GetBegins, HasLog, On
  <2>6. Inside(Log(p))
    BY <2>5, OwnerHasLog DEF Owns, Kept, ReadyAt, Inside
  <2>7. k \in 1..Count(Log(p))
    BY <2>5, <2>6 DEF Enough, Count, Inside, LogRecs
  <2>8. Exact(p) => RingLists(Log(p), arrays[Log(p).array], queue[p])
    BY <1>1, <2>3 DEF RingAt, Restored
  <2>9. QED
    BY <2>2, <2>4, <2>7, <2>8 DEF RingAt, Restored, Taken
<1>8. QED
  BY <1>5, <1>6, <1>7

\* The copy loop takes the oldest records; a fault would put them back.
LEMMA QueueLoop ==
    ASSUME TypeInv, Kept, keeps = "family", QueueInv, NEW c \in Pids,
           NEW p \in Pids, call[c].pid = p, GetLoop(c)
    PROVE  QueueStep(c, p)
<1>1. /\ queue \in [Pids -> SUBSET Nat] /\ queue[p] \subseteq 1..denied
      /\ denied \in Nat /\ IsFun(call) /\ DOMAIN call = Pids
      /\ \A d \in Pids \ {c} : call[d].pid # p
      /\ call[c].pid \in {p, NULL}
      /\ Exact(p) => RingAt(call[c], Log(p), arrays[Log(p).array], queue[p])
  BY QueueBefore DEF Acts
<1>g. PICK g : g = Log(p)
  OBVIOUS
<1>k. PICK k \in Nat : k = call[c].size
  BY DEF TypeInv, CallTypes, CallOk
<1>h. PICK h : h = [g EXCEPT !.indexRead = LoopSlot(g, k)]
  OBVIOUS
<1>a. PICK arr : arr = arrays[g.array]
  OBVIOUS
<1>3. /\ On(p) /\ g \in LogRecs /\ g.indexRead < g.size
      /\ h \in LogRecs /\ h.size = g.size /\ h.array = g.array
      /\ h.indexWrite = g.indexWrite /\ h.full = g.full
      /\ h.indexRead = LoopSlot(g, k)
      /\ logs' = [logs EXCEPT ![task[p].logArray] = h]
      /\ UNCHANGED <<task, arrays, queue, denied, crowded>>
      /\ call[c].at = "temp" /\ call'[c].at = "copy"
      /\ call'[c].prev = call[c].prev /\ call'[c].size = k /\ call'[c].pid = p
      /\ call'[c].temp = [j \in 1..k |-> arr[LoopSlot(g, j - 1)]]
      /\ \A d \in Pids \ {c} : call'[d] = call[d]
  BY <1>g, <1>k, <1>h, <1>a, LoopShape
<1>4. Log(p)' = h /\ On(p)'
  <2>1. task[p].logArray \in DOMAIN logs
    BY <1>3, OwnerHasLog DEF Owns
  <2>2. QED
    BY <1>3, <2>1 DEF Log, On, TypeInv, LogTypes, IsFun
<1>5. Inside(g)
  BY <1>3, <1>g, OwnerHasLog DEF Owns, Kept, ReadyAt, Inside
<1>6. [h EXCEPT !.indexRead = g.indexRead] = g
  BY <1>3, <1>h DEF LogRecs
<1>7. ASSUME Exact(p)
      PROVE  RingAt(call'[c], h, arr, queue[p])
  <2>1. RingLists(g, arr, queue[p]) /\ k \in 1..Count(g) /\ call[c].prev = g.indexRead
    BY <1>1, <1>3, <1>7, <1>g, <1>k, <1>a DEF RingAt, Restored, Taken
  <2>2. Restored(call'[c], h) = g
    BY <1>3, <1>6, <2>1 DEF Restored
  <2>3. k \in 1..g.size /\ g.size \in Nat
    BY <1>5, <2>1, CountBound DEF Inside, LogRecs
  <2>4. h.indexRead = Slot(g, k)
    BY <1>3, <2>3, LoopSlotIsSlot
  <2>5. call'[c].temp = ReadRecords(g, arr, k)
    <3>1. \A j \in 1..k : LoopSlot(g, j - 1) = Slot(g, j - 1)
      BY <1>3, <2>3, LoopSlotIsSlot
    <3>2. QED
      BY <1>3, <3>1 DEF ReadRecords
  <2>6. QED
    BY <1>3, <2>1, <2>2, <2>4, <2>5 DEF RingAt, Taken
<1>8. Exact(p)' <=> Exact(p)
  BY <1>3, <1>4 DEF Exact
<1>9. QED
  BY <1>1, <1>3, <1>4, <1>a, <1>7, <1>8 DEF QueueStep, CallFrame

LEMMA QueueEnd ==
    ASSUME TypeInv, Kept, keeps = "family", QueueInv, NEW c \in Pids,
           NEW p \in Pids, call[c].pid = p,
           GetOk(c) \/ GetFault(c)
    PROVE  QueueStep(c, p)
<1>1. /\ queue \in [Pids -> SUBSET Nat] /\ queue[p] \subseteq 1..denied
      /\ denied \in Nat /\ IsFun(call) /\ DOMAIN call = Pids
      /\ \A d \in Pids \ {c} : call[d].pid # p
      /\ call[c].pid \in {p, NULL}
      /\ Exact(p) => RingAt(call[c], Log(p), arrays[Log(p).array], queue[p])
  BY QueueBefore DEF Acts
<1>u. PICK u : u = Restored(call[c], Log(p))
  OBVIOUS
<1>a. PICK arr : arr = arrays[Log(p).array]
  OBVIOUS
<1>3. /\ On(p) /\ Log(p) \in LogRecs /\ call[c].at = "copy"
      /\ UNCHANGED <<task, arrays, denied, crowded>> /\ Done(c)
  BY GetEndShape
<1>4. PICK g \in LogRecs :
         /\ g.size = Log(p).size /\ g.array = Log(p).array
         /\ logs' = [logs EXCEPT ![task[p].logArray] = g]
         /\ \/ g = Finish(Log(p), call[c].size)
               /\ queue' = [queue EXCEPT ![p] = @ \ Records(call[c].temp)]
            \/ g = [Log(p) EXCEPT !.indexRead = call[c].prev]
               /\ queue' = queue
  BY GetEndShape
<1>5. Log(p)' = g /\ On(p)' /\ arrays'[g.array] = arr
  <2>1. task[p].logArray \in DOMAIN logs
    BY <1>3, OwnerHasLog DEF Owns
  <2>2. QED
    BY <1>3, <1>4, <1>a, <2>1 DEF Log, On, TypeInv, LogTypes, IsFun
<1>6. /\ call'[c] = Idle /\ Idle.at = "idle" /\ Idle.pid = NULL
      /\ \A d \in Pids \ {c} : call'[d] = call[d]
  BY <1>3, CallEnds DEF TypeInv, Idle, Calling
<1>7. /\ queue' \in [Pids -> SUBSET Nat]
      /\ queue'[p] \subseteq queue[p]
      /\ \A d \in Pids \ {p} : queue'[d] = queue[d]
  BY <1>1, <1>4
<1>8. ASSUME Exact(p)
      PROVE  RingAt(Idle, g, arr, queue'[p])
  <2>1. \A S : RingLists(g, arr, S) => RingAt(Idle, g, arr, S)
    BY <1>6 DEF RingAt, Restored, Taken
  <2>2. /\ RingLists(u, arr, queue[p]) /\ call[c].size \in 1..Count(u)
        /\ Log(p).indexRead = Slot(u, call[c].size)
        /\ call[c].temp = ReadRecords(u, arr, call[c].size)
    BY <1>1, <1>3, <1>8, <1>u, <1>a DEF RingAt, Taken
  <2>3. CASE g = [Log(p) EXCEPT !.indexRead = call[c].prev] /\ queue' = queue
    <3>1. g = u
      BY <1>3, <2>3, <1>u DEF Restored
    <3>2. QED
      BY <2>1, <2>2, <2>3, <3>1
  <2>4. CASE /\ g = Finish(Log(p), call[c].size)
             /\ queue' = [queue EXCEPT ![p] = @ \ Records(call[c].temp)]
    <3>1. queue'[p] = queue[p] \ Records(call[c].temp)
      BY <1>1, <2>4
    <3>2. Inside(u) /\ Inside(Log(p))
      BY <1>3, <1>u, OnInside, AboutOnly
    <3>3. /\ Log(p).size = u.size /\ Log(p).indexWrite = u.indexWrite
          /\ Log(p).full = u.full
      BY <1>3, <1>u DEF Restored, LogRecs
    <3>4. queue[p] \in SUBSET Nat
      BY <1>1
    <3>5. RingLists(Finish(Log(p), call[c].size), arr,
                    queue[p] \ Records(ReadRecords(u, arr, call[c].size)))
      BY <2>2, <3>2, <3>3, <3>4, ListsFinish
    <3>6. QED
      BY <2>1, <2>2, <2>4, <3>1, <3>5
  <2>5. QED
    BY <1>4, <2>3, <2>4
<1>9. Exact(p)' <=> Exact(p)
  BY <1>3, <1>5 DEF Exact
<1>10. queue'[p] \subseteq 1..denied'
  BY <1>1, <1>3, <1>7
<1>11. QED
  BY <1>1, <1>3, <1>5, <1>6, <1>7, <1>8, <1>9, <1>10 DEF QueueStep, CallFrame

\* A refused call of p, while others or p itself may be in a call about p.
LEMMA QueueDenied ==
    ASSUME TypeInv, Kept, keeps = "family", QueueInv, NEW p \in Pids, Denied(p),
           HeapFrame(p)
    PROVE  QueueInv'
<1>1. /\ queue \in [Pids -> SUBSET Nat] /\ queue[p] \subseteq 1..denied
      /\ denied \in Nat
  BY DEF QueueInv, QueueAt, TypeInv, BoundTypes
<1>g. PICK g : g = Log(p)
  OBVIOUS
<1>h. PICK h : h = PutLog(g)
  OBVIOUS
<1>a. PICK arr : arr = arrays[g.array]
  OBVIOUS
<1>n. PICK n \in Nat : n = denied
  BY <1>1
<1>b. PICK b : b = PutArray(g, arr, n + 1)
  OBVIOUS
<1>2. /\ HasArray(p) /\ h \in LogRecs /\ h.array = g.array
      /\ h.indexRead = g.indexRead
      /\ logs' = [logs EXCEPT ![task[p].logArray] = h]
      /\ arrays' = [arrays EXCEPT ![g.array] = b]
      /\ UNCHANGED <<task, call>>
  BY <1>g, <1>h, <1>a, <1>n, <1>b, DeniedShape
<1>3. /\ denied' = n + 1
      /\ queue' = [queue EXCEPT ![p] = @ \cup {n + 1}]
      /\ g.size # 0 /\ (Count(g) < g.size \/ Copying(p) # {})
      /\ crowded' = IF Crowds(p) THEN crowded \cup {p} ELSE crowded
  BY <1>g, <1>n DEF Denied
<1>4. On(p) /\ Inside(g)
  BY <1>2, <1>g, OwnerHasLog DEF HasArray, Owns, Kept, ReadyAt, Inside
<1>5. Log(p)' = h /\ On(p)' /\ arrays'[h.array] = b
  <2>1. task[p].logArray \in DOMAIN logs
    BY <1>4, OwnerHasLog DEF Owns
  <2>2. g.array \in DOMAIN arrays
    BY <1>3, <1>4, <1>g DEF Kept, ReadyAt
  <2>3. Log(p)' = h /\ On(p)'
    BY <1>2, <1>4, <2>1 DEF Log, On, TypeInv, LogTypes, IsFun
  <2>4. arrays'[g.array] = b
    BY <1>2, <2>2 DEF TypeInv, ArrayTypes, IsFun
  <2>5. QED
    BY <1>2, <2>3, <2>4
<1>6. /\ queue' \in [Pids -> SUBSET Nat] /\ queue'[p] = queue[p] \cup {n + 1}
      /\ \A d \in Pids \ {p} : queue'[d] = queue[d]
  BY <1>1, <1>3
<1>7. queue'[p] \subseteq 1..(n + 1)
  BY <1>1, <1>6, <1>n
<1>8. ASSUME Exact(p)', NEW r, IsAbout(r, p)'
      PROVE  RingAt(r, h, b, queue[p] \cup {n + 1})
  <2>1. IsAbout(r, p)
    BY <1>2, <1>8 DEF IsAbout, Quiet
  <2>2. Exact(p) /\ ~Crowds(p)
    BY <1>3, <1>4, <1>8 DEF Exact
  <2>3. RingAt(r, g, arr, queue[p])
    BY <2>1, <2>2, <1>g, <1>a DEF QueueInv, QueueAt
  <2>4. CASE r.at # "copy"
    <3>1. Copying(p) = {}
      <4>1. ASSUME NEW d \in Copying(p) PROVE FALSE
        <5>1. d \in Pids /\ call[d].pid = p /\ call[d].at = "copy"
          BY <4>1 DEF Copying
        <5>2. IsAbout(r, p) <=> r = call[d]
          BY <5>1, AboutOnly, ZenonT(60)
        <5>3. QED
          BY <2>1, <2>4, <5>1, <5>2
      <4>2. QED
        BY <4>1
    <3>2. Count(g) < g.size
      BY <1>3, <3>1
    <3>3. /\ RingLists(g, arr, queue[p]) /\ DOMAIN arr = 0..(g.size - 1)
          /\ r.at = "temp" => r.size \in 1..Count(g) /\ r.prev = g.indexRead
      BY <1>3, <2>3, <2>4 DEF RingAt, RingLists, Restored, Taken
    <3>4. RingLists(h, b, queue[p] \cup {n + 1})
      BY <1>1, <1>3, <1>4, <3>2, <3>3, <1>h, <1>b, <1>n, ListsPut
    <3>5. Count(h) = Count(g) + 1 /\ Count(g) \in Nat
      BY <1>3, <1>4, <3>2, <1>h, PutSlots
    <3>6. r.at = "temp" => r.size \in 1..Count(h) /\ r.prev = h.indexRead
      BY <1>2, <3>3, <3>5
    <3>7. QED
      BY <2>4, <3>4, <3>6 DEF RingAt, Restored, Taken
  <2>5. CASE r.at = "copy"
    <3>1. PICK d \in Pids : call[d].pid = p /\ r = call[d]
      BY <2>1, <2>5 DEF IsAbout, Idle, Calling
    <3>u. PICK u : u = [g EXCEPT !.indexRead = r.prev]
      OBVIOUS
    <3>2. PutLog(u).full # 1
      BY <2>2, <2>5, <3>1, <3>u, <1>g DEF Crowds, Copying
    <3>3. Restored(r, g) = u /\ r.prev \in Nat
      BY <2>5, <3>1, <3>u DEF Restored, TypeInv, CallTypes, CallOk
    <3>4. Inside(u) /\ u.size = g.size
      BY <1>4, <2>1, <3>3, <1>g, OnInside
    <3>5. /\ RingLists(u, arr, queue[p]) /\ r.size \in 1..Count(u)
          /\ g.indexRead = Slot(u, r.size)
          /\ r.temp = ReadRecords(u, arr, r.size)
      BY <2>3, <2>5, <3>3 DEF RingAt, Taken
    <3>k. PICK k \in 1..Count(u) : k = r.size
      BY <3>5
    <3>6. (u.full = 1 => u.indexWrite = u.indexRead) /\ DOMAIN arr = 0..(u.size - 1)
      BY <1>3, <3>4, <3>5 DEF RingLists
    <3>7. /\ Count(u) < u.size /\ Restored(r, h) = PutLog(u)
          /\ b = PutArray(u, arr, n + 1)
      <4>1. /\ Inside(g) /\ Inside(u) /\ u.size # 0 /\ u = Restored(r, g)
            /\ u.full = 1 => u.indexWrite = u.indexRead
            /\ g.indexRead = Slot(u, k)
        BY <1>3, <1>4, <3>3, <3>4, <3>5, <3>6, <3>k
      <4>2. /\ Count(u) < u.size /\ Restored(r, PutLog(g)) = PutLog(u)
            /\ \A x, y : PutArray(g, x, y) = PutArray(u, x, y)
        BY <2>5, <3>2, <4>1, PutWhileCopying
      <4>3. QED
        BY <4>2, <1>h, <1>b
    <3>v. PICK v : v = PutLog(u)
      OBVIOUS
    <3>8. Restored(r, h) = v
      BY <3>7, <3>v
    <3>9. RingLists(v, b, queue[p] \cup {n + 1})
      BY <1>1, <1>3, <3>4, <3>5, <3>7, <3>v, <1>n, ListsPut
    <3>10. /\ Count(v) = Count(u) + 1 /\ Slot(v, k) = Slot(u, k)
           /\ ReadRecords(v, b, k) = ReadRecords(u, arr, k)
           /\ Count(u) \in Nat
      <4>1. Count(u) \in 0..u.size /\ u.size \in Nat
        BY <3>4, CountBound DEF Inside, LogRecs
      <4>2. k \in 0..u.size /\ k \in 0..Count(u)
        BY <4>1
      <4>3. QED
        BY <1>3, <3>4, <3>6, <3>7, <3>v, <4>1, <4>2, PutSlots, PutKeeps
    <3>11. Taken(r, h, b)
      <4>1. r.size \in 1..Count(v)
        BY <3>5, <3>10
      <4>2. h.indexRead = Slot(v, r.size) /\ r.temp = ReadRecords(v, b, r.size)
        BY <1>2, <3>5, <3>k, <3>10
      <4>3. QED
        BY <2>5, <3>8, <4>1, <4>2 DEF Taken
    <3>12. QED
      BY <3>8, <3>9, <3>11 DEF RingAt
  <2>6. QED
    BY <2>4, <2>5
<1>9. QueueAt(p)'
  BY <1>3, <1>5, <1>6, <1>7, <1>8 DEF QueueAt
<1>10. ASSUME NEW q \in Pids \ {p} PROVE QueueAt(q)'
  <2>1. QueueAt(q) /\ queue'[q] = queue[q] /\ (q \in crowded' <=> q \in crowded)
    BY <1>3, <1>6 DEF QueueInv
  <2>2. CallFrame(p, p) /\ denied' \in Nat /\ denied <= denied'
    BY <1>2, <1>3, <1>n DEF CallFrame
  <2>3. QED
    BY <2>1, <2>2, QueueFramed
<1>11. QED
  BY <1>6, <1>9, <1>10 DEF QueueInv

LEMMA QueueInvStep ==
    TypeInv /\ TypeInv' /\ KeptInv /\ QueueInv /\ [Next]_vars => QueueInv'
<1> SUFFICES ASSUME TypeInv, TypeInv', KeptInv, QueueInv, [Next]_vars,
                    keeps' = "family"
             PROVE  QueueInv'
  BY DEF QueueInv
<1>1. CASE UNCHANGED vars
  BY <1>1, SMTT(30) DEF vars, QueueInv, QueueAt, Exact, IsAbout, Quiet, On, Log
<1>2. CASE Next
  <2>1. keeps' = keeps
    BY <1>2, ZenonT(60) DEF Next, EnableBegins, EnableHeader, EnableNoHeader, EnableArray,
       EnableNoArray, EnableWild, Disable, SetLevel, Release, GetBegins, GetLoop,
       GetNoMem, GetOk, GetFault, GetWild, Yield, KernelYield, Denied,
       DanglingUse, Wild
  <2>2. Kept /\ keeps = "family"
    BY <2>1 DEF KeptInv
  <2>3. PICK c \in Pids :
           \/ \E p \in Pids, n \in Sizes : EnableBegins(c, p, n) \/ GetBegins(c, p, n)
           \/ \E h \in LogIds : EnableHeader(c, h)
           \/ \E a \in ArrIds : EnableArray(c, a)
           \/ EnableNoHeader(c) \/ GetNoMem(c)
           \/ EnableNoArray(c)
           \/ \E p \in Pids : Disable(c, p)
           \/ Release(c)
           \/ \E p \in Pids, l \in {0, 2} : SetLevel(c, p, l)
           \/ GetLoop(c)
           \/ GetOk(c) \/ GetFault(c)
           \/ Denied(c)
           \/ EnableWild(c) \/ GetWild(c) \/ DanglingUse(c)
    BY <1>2 DEF Next, Yield, KernelYield
  <2>q. ASSUME NEW p \in Pids, May(c, p) PROVE Acts(c, p)
    BY <2>2, <2>q, MayIsQuiet DEF Acts, May
  <2>p. PICK p : p = call[c].pid
    OBVIOUS
  <2>4. call[c].at # "idle" => p \in Pids /\ Acts(c, p)
    BY <2>2, <2>p, CallIsAlone DEF Acts
  <2>5. CASE \E q \in Pids, n \in Sizes : EnableBegins(c, q, n) \/ GetBegins(c, q, n)
    <3>1. PICK q \in Pids, n \in Sizes : EnableBegins(c, q, n) \/ GetBegins(c, q, n)
      BY <2>5
    <3>2. Acts(c, q)
      BY <2>q, <3>1 DEF EnableBegins, GetBegins
    <3>3. QED
      BY <2>2, <3>1, <3>2, KeptBegins, QueueOff, QueueSame, QueueSteps
  <2>6. CASE \E h \in LogIds : EnableHeader(c, h)
    BY <2>2, <2>p, <2>4, <2>6, KeptHeader, QueueHeader, QueueSteps
       DEF EnableHeader, Resumes
  <2>7. CASE \E a \in ArrIds : EnableArray(c, a)
    BY <2>2, <2>p, <2>4, <2>7, KeptArray, QueueArray, QueueSteps
       DEF EnableArray, Resumes
  <2>8. CASE EnableNoHeader(c) \/ GetNoMem(c)
    BY <2>2, <2>p, <2>4, <2>8, KeptNoMem, QueueOff, QueueSame, QueueSteps
       DEF EnableNoHeader, GetNoMem, Resumes
  <2>9. CASE EnableNoArray(c)
    BY <2>2, <2>p, <2>4, <2>9, KeptNoArray, QueueOff, QueueSteps
       DEF EnableNoArray, Resumes
  <2>10. CASE \E q \in Pids : Disable(c, q)
    <3>1. PICK q \in Pids : Disable(c, q)
      BY <2>10
    <3>2. Acts(c, q)
      BY <2>q, <3>1 DEF Disable
    <3>3. QED
      BY <2>2, <3>1, <3>2, KeptLeaves, QueueOff, QueueSteps
  <2>11. CASE Release(c)
    <3>1. Acts(c, c)
      BY <2>2, <2>11, ReleaseIsQuiet DEF Acts, Release
    <3>2. QED
      BY <2>2, <2>11, <3>1, KeptLeaves, QueueOff, QueueSteps
  <2>12. CASE \E q \in Pids, l \in {0, 2} : SetLevel(c, q, l)
    <3>1. PICK q \in Pids, l \in {0, 2} : SetLevel(c, q, l)
      BY <2>12
    <3>2. Acts(c, q)
      BY <2>q, <3>1 DEF SetLevel
    <3>3. QED
      BY <2>2, <3>1, <3>2, KeptSetLevel, QueueSame, QueueSteps
  <2>13. CASE GetLoop(c)
    BY <2>2, <2>p, <2>4, <2>13, KeptLoop, QueueLoop, QueueSteps, ZenonT(60) DEF GetLoop, Resumes
  <2>14. CASE GetOk(c) \/ GetFault(c)
    BY <2>2, <2>p, <2>4, <2>14, KeptGetEnd, QueueEnd, QueueSteps
       DEF GetOk, GetFault, Resumes
  <2>15. CASE Denied(c)
    BY <2>2, <2>15, KeptDenied, QueueDenied
  <2>16. QED
    BY <2>2, <2>3, <2>5, <2>6, <2>7, <2>8, <2>9, <2>10, <2>11, <2>12, <2>13,
       <2>14, <2>15, NothingWild
<1>3. QED
  BY <1>1, <1>2

LEMMA QueueInvInit == Init => QueueInv
<1> SUFFICES ASSUME Init PROVE QueueInv
  OBVIOUS
<1>1. queue \in [Pids -> SUBSET Nat] /\ \A p \in Pids : queue[p] = {} /\ ~On(p)
  BY DEF Init, On
<1>2. QED
  BY <1>1 DEF QueueInv, QueueAt, Exact

LEMMA QueueInvariant == Spec => []QueueInv
<1>1. TypeInv /\ KeptInv /\ QueueInv /\ [Next]_vars => QueueInv'
  BY TypeStep, QueueInvStep
<1>2. QED
  BY <1>1, QueueInvInit, TypeInvariant, KeptInvariant, PTL DEF Spec

(***************************************************************************)
(* When processes call about themselves and their own children only and no *)
(* two calls about one process overlap, no interleaving of the sleeping    *)
(* calls with the hooks, which __alloc_pages runs in any of their sleeps,  *)
(* loses, repeats or reorders a record of a log that never got full while  *)
(* a get_process_log was copying from it: the ring is exactly the refused  *)
(* calls that get_process_log has not handed out yet, the oldest first.    *)
(***************************************************************************)
THEOREM FamilyKeepsTheQueue == Spec => []KeptLogIsQueue
<1>1. TypeInv /\ KeptInv /\ QueueInv => KeptLogIsQueue
  <2> SUFFICES ASSUME TypeInv, KeptInv, QueueInv, keeps # "any",
                      NEW p \in Pids, p \notin crowded, HasLog(p), Quiet(p)
               PROVE  Lists(Contents(Log(p), arrays[Log(p).array]), queue[p])
    BY DEF KeptLogIsQueue, LogExact
  <2>1. keeps = "family"
    BY SleepAssumption DEF TypeInv, BoundTypes
  <2>2. Exact(p) /\ IsAbout(Idle, p)
    BY DEF HasLog, On, Exact, IsAbout
  <2>3. RingAt(Idle, Log(p), arrays[Log(p).array], queue[p])
    BY <2>1, <2>2 DEF QueueInv, QueueAt
  <2>4. Restored(Idle, Log(p)) = Log(p)
    BY DEF Restored, Idle, Calling
  <2>5. QED
    BY <2>3, <2>4 DEF RingAt, RingLists
<1>2. QED
  BY <1>1, TypeInvariant, KeptInvariant, QueueInvariant, PTL
==============================================================================
