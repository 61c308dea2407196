----------------------------- MODULE SchedProofs -----------------------------
(***************************************************************************)
(* The run queue of kernel/sched.c agrees with itself and with the tasks   *)
(* for any number of tasks and priorities, and no step but a change of     *)
(* priority loses a preemption.                                            *)
(*                                                                         *)
(* The C functions are operators on a state s, so each has a lemma that    *)
(* says what it does to a state.  In the middle of a function a task may   *)
(* be off its queue and still point to its array: the queues are then      *)
(* consistent for the other tasks.                                         *)
(***************************************************************************)
EXTENDS Sched, FiniteSetTheorems, SequenceTheorems, WellFoundedInduction, TLAPS

Classes == {"OTHER", "FIFO", "RR"}

States == {"free", "RUNNING", "ZOMBIE"} \cup Sleeping

Procs == [state : States, array : Roles \cup {NULL}, prio : 0..MAX_PRIO,
          static_prio : MAX_RT_PRIO..(MAX_PRIO - 1),
          policy : Classes, time_slice : 0..MAX_TIMESLICE, first_time_slice : BOOLEAN,
          sleep_avg : 0..MAX_SLEEP_AVG, sleep_time : Nat,
          need_resched : BOOLEAN, alloc : BOOLEAN, parent : Tasks \cup {NULL}]

Counts == [Roles -> Int]
Bitmaps == [Roles -> SUBSET Prios]
Queues == [Roles -> [Prios -> Seq(Tasks)]]

Rqs == [curr : Tasks \cup {Idle}, nr_running : Int, nr_uninterruptible : Int,
        expired_time : Nat \cup {NULL}, nr_active : Counts, bitmap : Bitmaps,
        queue : Queues]

Machines == [task : [Tasks \cup {Idle} -> Procs], rq : Rqs]

-----------------------------------------------------------------------------
\* Numbers.
LEMMA PartBound ==
    ASSUME NEW d \in Nat, NEW n \in Nat \ {0}, NEW x \in 0..n
    PROVE  (d * x) \div n \in 0..d
<1>1. d * x \in Nat /\ d * x <= d * n
  OBVIOUS
<1>2. PICK q \in Int : q = (d * x) \div n
  BY <1>1
<1>3. n * q <= d * x /\ d * x < n * q + n
  BY <1>1, <1>2
<1>4. q <= d
  <2>1. SUFFICES ASSUME q >= d + 1 PROVE FALSE
    OBVIOUS
  <2>2. n * q >= n * (d + 1)
    BY <2>1
  <2>3. QED
    BY <1>1, <1>3, <2>2
<1>5. q >= 0
  <2>1. SUFFICES ASSUME q <= -1 PROVE FALSE
    OBVIOUS
  <2>2. n * q <= n * (-1)
    BY <2>1
  <2>3. QED
    BY <1>1, <1>3, <2>2
<1>6. QED
  BY <1>2, <1>4, <1>5

LEMMA SliceBound ==
    ASSUME NEW t \in Procs
    PROVE  TASK_TIMESLICE(t) \in 1..MAX_TIMESLICE
<1> DEFINE d == MAX_TIMESLICE - MIN_TIMESLICE
           n == MAX_USER_PRIO - 1
           x == MAX_PRIO - 1 - t.static_prio
<1>1. d \in Nat /\ n \in Nat \ {0} /\ x \in 0..n
  BY PrioAssumption DEF Procs, MAX_USER_PRIO
<1>2. (d * x) \div n \in 0..d
  BY <1>1, PartBound
<1>3. QED
  BY <1>1, <1>2, PrioAssumption DEF TASK_TIMESLICE

LEMMA EffectivePrio ==
    ASSUME NEW t \in Procs
    PROVE  effective_prio(t) \in MAX_RT_PRIO..(MAX_PRIO - 1)
<1>1. (PrioBonus * t.sleep_avg) \div MAX_SLEEP_AVG \in Int /\ PrioBonus \div 2 \in Int
  BY PrioAssumption DEF Procs
<1>2. PICK b \in Int :
         b = (PrioBonus * t.sleep_avg) \div MAX_SLEEP_AVG - PrioBonus \div 2
  BY <1>1
<1>3. t.static_prio \in Int
  BY PrioAssumption DEF Procs
<1>4. QED
  BY <1>2, <1>3, PrioAssumption DEF effective_prio, Least

-----------------------------------------------------------------------------
(***************************************************************************)
(* A run list q has exactly the tasks of S, each once.                     *)
(***************************************************************************)
Holds(q, S) == /\ q \in Seq(Tasks)
               /\ \A p : p \in S <=> \E n \in 1..Len(q) : q[n] = p
               /\ \A m, n \in 1..Len(q) : q[m] = q[n] => m = n

LEMMA HoldsNone == Holds(<< >>, {})
BY DEF Holds

LEMMA HoldsSome ==
    ASSUME NEW q, NEW S, Holds(q, S)
    PROVE  /\ q = << >> <=> S = {}
           /\ q # << >> => Head(q) \in S
BY DEF Holds

LEMMA HoldsAppend ==
    ASSUME NEW q, NEW S, Holds(q, S), NEW p \in Tasks, p \notin S
    PROVE  Holds(Append(q, p), S \cup {p}) /\ Append(q, p) # << >>
<1>1. q \in Seq(Tasks) /\ Len(q) \in Nat
  BY DEF Holds
<1>2. /\ Append(q, p) \in Seq(Tasks) /\ Len(Append(q, p)) = Len(q) + 1
      /\ \A n \in 1..Len(q) : Append(q, p)[n] = q[n]
      /\ Append(q, p)[Len(q) + 1] = p
  BY <1>1
<1>3. QED
  BY <1>1, <1>2 DEF Holds

LEMMA HoldsSecond ==
    ASSUME NEW q, NEW S, Holds(q, S), NEW p \in Tasks, p \notin S
    PROVE  Holds(AddSecond(q, p), S \cup {p}) /\ AddSecond(q, p) # << >>
<1>1. q \in Seq(Tasks) /\ Len(q) \in Nat
  BY DEF Holds
<1>2. CASE q = << >>
  BY <1>2 DEF Holds, AddSecond
<1>3. CASE q # << >>
  <2> DEFINE r == AddSecond(q, p)
  <2>1. /\ Tail(q) \in Seq(Tasks) /\ Len(Tail(q)) = Len(q) - 1 /\ Head(q) = q[1]
        /\ \A n \in 1..(Len(q) - 1) : Tail(q)[n] = q[n + 1]
        /\ Len(q) >= 1 /\ q[1] \in Tasks
    BY <1>1, <1>3
  <2>2. r = <<q[1], p>> \o Tail(q)
    BY <1>3, <2>1 DEF AddSecond
  <2>3. <<q[1], p>> \in Seq(Tasks) /\ Len(<<q[1], p>>) = 2
    BY <2>1
  <2>4. /\ r \in Seq(Tasks) /\ Len(r) = Len(q) + 1
        /\ r[1] = q[1] /\ r[2] = p
        /\ \A n \in 3..(Len(q) + 1) : r[n] = q[n - 1]
    BY <1>1, <2>1, <2>2, <2>3
  <2> HIDE DEF r
  <2>5. \A m \in 1..Len(q) : q[m] # p
    BY DEF Holds
  <2>6. \A x : x \in S \cup {p} <=> \E n \in 1..Len(r) : r[n] = x
    <3>1. ASSUME NEW x \in S PROVE \E n \in 1..Len(r) : r[n] = x
      <4>1. PICK m \in 1..Len(q) : q[m] = x
        BY <3>1 DEF Holds
      <4>2. CASE m = 1
        BY <1>1, <2>4, <4>1, <4>2
      <4>3. CASE m # 1
        <5>1. m + 1 \in 3..(Len(q) + 1) /\ (m + 1) - 1 = m
          BY <1>1, <4>3
        <5>2. r[m + 1] = x /\ m + 1 \in 1..Len(r)
          BY <1>1, <2>4, <4>1, <5>1
        <5>3. QED
          BY <5>2
      <4>4. QED
        BY <4>2, <4>3
    <3>2. ASSUME NEW n \in 1..Len(r) PROVE r[n] \in S \cup {p}
      <4>1. n = 1 \/ n = 2 \/ n \in 3..(Len(q) + 1)
        BY <1>1, <2>4
      <4>2. CASE n \in 3..(Len(q) + 1)
        <5>1. n - 1 \in 1..Len(q)
          BY <1>1, <4>2
        <5>2. QED
          BY <2>4, <4>2, <5>1 DEF Holds
      <4>3. QED
        BY <1>1, <2>1, <2>4, <4>1, <4>2 DEF Holds
    <3>3. \E n \in 1..Len(r) : r[n] = p
      BY <1>1, <2>1, <2>4
    <3>4. QED
      BY <3>1, <3>2, <3>3
  <2>7. \A m, n \in 1..Len(r) : r[m] = r[n] => m = n
    <3>1. ASSUME NEW m \in 1..Len(r), NEW n \in 1..Len(r), m < n, r[m] = r[n]
          PROVE  FALSE
      <4>1. CASE m = 1 /\ n = 2
        BY <2>1, <2>4, <2>5, <3>1, <4>1
      <4>2. CASE m = 1 /\ n # 2
        <5>1. n \in 3..(Len(q) + 1) /\ n - 1 \in 1..Len(q) /\ n - 1 # 1 /\ 1 \in 1..Len(q)
          BY <1>1, <2>4, <3>1, <4>2
        <5>2. QED
          BY <2>4, <3>1, <4>2, <5>1 DEF Holds
      <4>3. CASE m = 2
        <5>1. n \in 3..(Len(q) + 1) /\ n - 1 \in 1..Len(q)
          BY <1>1, <2>4, <3>1, <4>3
        <5>2. QED
          BY <2>4, <2>5, <3>1, <4>3, <5>1
      <4>4. CASE m > 2
        <5>1. /\ n \in 3..(Len(q) + 1) /\ n - 1 \in 1..Len(q)
              /\ m \in 3..(Len(q) + 1) /\ m - 1 \in 1..Len(q) /\ m - 1 # n - 1
          BY <1>1, <2>4, <3>1, <4>4
        <5>2. QED
          BY <2>4, <3>1, <5>1, SMTT(30) DEF Holds
      <4>5. QED
        BY <1>1, <2>4, <3>1, <4>1, <4>2, <4>3, <4>4
    <3>2. QED
      BY <1>1, <2>4, <3>1
  <2>8. r # << >>
    BY <1>1, <2>4
  <2>9. QED
    BY <2>4, <2>6, <2>7, <2>8 DEF Holds, r
<1>4. QED
  BY <1>2, <1>3

LEMMA HoldsDel ==
    ASSUME NEW q, NEW S, Holds(q, S), NEW p \in S
    PROVE  Holds(list_del(q, p), S \ {p})
<1>1. q \in Seq(Tasks) /\ Len(q) \in Nat /\ DOMAIN q = 1..Len(q)
  BY DEF Holds
<1> DEFINE r == list_del(q, p)
           N == Len(q)
           k == CHOOSE i \in DOMAIN q : q[i] = p
<1>2. k \in 1..N /\ q[k] = p
  BY <1>1 DEF Holds
<1>3. r = [i \in 1..(N - 1) |-> IF i < k THEN q[i] ELSE q[i + 1]]
  BY DEF list_del
<1> HIDE DEF r, k
<1>4. N - 1 \in Nat /\ \A i \in 1..(N - 1) : i \in 1..N /\ i + 1 \in 1..N
  BY <1>1, <1>2
<1>5. \A i \in 1..(N - 1) : r[i] = (IF i < k THEN q[i] ELSE q[i + 1]) /\ r[i] \in Tasks
  BY <1>1, <1>3, <1>4
<1>6. r \in Seq(Tasks) /\ Len(r) = N - 1
  <2>1. r \in [1..(N - 1) -> Tasks]
    BY <1>3, <1>5
  <2>2. QED
    BY <1>4, <2>1, IsASeq, LenProperties
<1>7. \A m, n \in 1..N : q[m] = q[n] => m = n
  BY DEF Holds
<1>8. ASSUME NEW x \in S \ {p} PROVE \E n \in 1..Len(r) : r[n] = x
  <2>1. PICK m \in 1..N : q[m] = x
    BY DEF Holds
  <2>2. CASE m < k
    <3>1. m \in 1..(N - 1) /\ r[m] = x
      BY <1>2, <1>4, <1>5, <2>1, <2>2
    <3>2. QED
      BY <1>6, <3>1
  <2>3. CASE m > k
    <3>1. m - 1 \in 1..(N - 1) /\ ~(m - 1 < k) /\ (m - 1) + 1 = m
      BY <1>2, <1>4, <2>3
    <3>2. r[m - 1] = x
      BY <1>5, <2>1, <3>1
    <3>3. QED
      BY <1>6, <3>1, <3>2
  <2>4. QED
    BY <1>2, <2>1, <2>2, <2>3
<1>9. ASSUME NEW n \in 1..Len(r) PROVE r[n] \in S \ {p}
  <2>1. n \in 1..(N - 1) /\ n \in 1..N /\ n + 1 \in 1..N
    BY <1>4, <1>6
  <2>2. r[n] \in S
    BY <1>5, <2>1 DEF Holds
  <2>3. r[n] # p
    BY <1>2, <1>5, <1>7, <2>1
  <2>4. QED
    BY <2>2, <2>3
<1>10. \A m, n \in 1..Len(r) : r[m] = r[n] => m = n
  <2>1. ASSUME NEW m \in 1..(N - 1), NEW n \in 1..(N - 1), r[m] = r[n]
        PROVE  m = n
    <3>1. m \in 1..N /\ m + 1 \in 1..N /\ n \in 1..N /\ n + 1 \in 1..N
      BY <1>4
    <3>2. QED
      BY <1>2, <1>5, <1>7, <2>1, <3>1
  <2>2. QED
    BY <1>6, <2>1
<1>11. QED
  BY <1>6, <1>8, <1>9, <1>10 DEF Holds, r

-----------------------------------------------------------------------------
\* The lowest bit set, by the well-foundedness of the order of the naturals.
Less == {n \in Nat \X Nat : n[1] < n[2]}

LEMMA FirstBit ==
    ASSUME NEW bits \in SUBSET Prios
    PROVE  /\ bits = {} => sched_find_first_bit(bits) = MAX_PRIO
           /\ bits # {} => /\ sched_find_first_bit(bits) \in bits
                           /\ \A j \in bits : sched_find_first_bit(bits) <= j
<1>1. ASSUME bits # {}
      PROVE  \E i \in bits : \A j \in bits : i <= j
  <2>1. IsWellFoundedOn(Less, Nat)
    BY NatLessThanWellFounded DEF OpToRel, Less
  <2>2. bits \subseteq Nat
    BY DEF Prios
  <2>3. PICK i \in bits : \A j \in bits : ~(<<j, i>> \in Less)
    BY <1>1, <2>1, <2>2, WFMin
  <2>4. \A j \in bits : ~(j < i)
    BY <2>2, <2>3 DEF Less
  <2>5. QED
    BY <2>2, <2>4
<1>2. QED
  BY <1>1 DEF sched_find_first_bit

-----------------------------------------------------------------------------
(***************************************************************************)
(* The queues, the bitmaps and the counts of the arrays say which of the   *)
(* tasks in P point to which array, at which priority.                     *)
(***************************************************************************)
Held(s, P, a, i) == {p \in P : s.task[p].array = a /\ s.task[p].prio = i}

HeldBy(s, P, a) == {p \in P : s.task[p].array = a}

Consistent(s, P) == \A a \in Roles :
    /\ s.rq.nr_active[a] = Cardinality(HeldBy(s, P, a))
    /\ \A i \in Prios : /\ Holds(s.rq.queue[a][i], Held(s, P, a, i))
                        /\ i \in s.rq.bitmap[a] <=> s.rq.queue[a][i] # << >>

LEMMA MachineParts ==
    ASSUME NEW s \in Machines
    PROVE  /\ s = [task |-> s.task, rq |-> s.rq]
           /\ s.task \in [Tasks \cup {Idle} -> Procs] /\ s.rq \in Rqs
           /\ \A T, Q : /\ [s EXCEPT !.task = T] = [task |-> T, rq |-> s.rq]
                        /\ [s EXCEPT !.rq = Q] = [task |-> s.task, rq |-> Q]
BY DEF Machines

\* A state with another task_struct for p.
LEMMA SetTask ==
    ASSUME NEW s \in Machines, NEW p \in Tasks \cup {Idle}, NEW t \in Procs
    PROVE  LET r == [s EXCEPT !.task[p] = t]
           IN  /\ r \in Machines /\ r.rq = s.rq
               /\ r.task[p] = t
               /\ \A q \in Tasks \cup {Idle} : q # p => r.task[q] = s.task[q]
<1>1. s = [task |-> s.task, rq |-> s.rq] /\ s.rq \in Rqs
      /\ s.task \in [Tasks \cup {Idle} -> Procs]
  BY DEF Machines
<1>T. PICK T : T = [s.task EXCEPT ![p] = t]
  OBVIOUS
<1>2. [s EXCEPT !.task[p] = t] = [task |-> T, rq |-> s.rq]
  BY <1>1, <1>T
<1>3. /\ T \in [Tasks \cup {Idle} -> Procs] /\ T[p] = t
      /\ \A q \in Tasks \cup {Idle} : q # p => T[q] = s.task[q]
  BY <1>1, <1>T
<1>4. QED
  BY <1>1, <1>2, <1>3 DEF Machines

\* The fields of the run queue that dequeue_task and enqueue_task leave alone.
SameCounts(r, s) == /\ r.curr = s.curr /\ r.nr_running = s.nr_running
                    /\ r.nr_uninterruptible = s.nr_uninterruptible
                    /\ r.expired_time = s.expired_time

\* A run queue with other arrays.
Arrays(q, na, qu, bm) == [q EXCEPT !.nr_active = na, !.queue = qu, !.bitmap = bm]

LEMMA SetArrays ==
    ASSUME NEW q \in Rqs, NEW na \in Counts,
           NEW bm \in Bitmaps,
           NEW qu \in Queues
    PROVE  LET r == Arrays(q, na, qu, bm)
           IN  /\ r \in Rqs /\ r.nr_active = na /\ r.bitmap = bm /\ r.queue = qu
               /\ SameCounts(r, q)
BY DEF Rqs, SameCounts, Arrays

LEMMA RqParts ==
    ASSUME NEW q \in Rqs
    PROVE  /\ q.nr_active \in Counts /\ q.bitmap \in Bitmaps
           /\ q.queue \in Queues
           /\ q.curr \in Tasks \cup {Idle} /\ q.nr_running \in Int
           /\ q.nr_uninterruptible \in Int /\ q.expired_time \in Nat \cup {NULL}
BY DEF Rqs

LEMMA BumpRole ==
    ASSUME NEW f \in Counts, NEW a \in Roles
    PROVE  /\ [f EXCEPT ![a] = @ + 1] \in Counts
           /\ [f EXCEPT ![a] = @ - 1] \in Counts
BY DEF Counts

\* What dequeue_task and enqueue_task assign, i the priority of p.
Dequeued(r, s, a, i, q) ==
    /\ r \in Machines /\ r.task = s.task /\ SameCounts(r.rq, s.rq)
    /\ r.rq.nr_active = [s.rq.nr_active EXCEPT ![a] = @ - 1]
    /\ r.rq.queue = [s.rq.queue EXCEPT ![a][i] = q]
    /\ r.rq.bitmap = [s.rq.bitmap EXCEPT ![a] = IF q = << >> THEN @ \ {i} ELSE @]

Enqueued(r, s, p, a, i) ==
    /\ r \in Machines /\ SameCounts(r.rq, s.rq)
    /\ r.task = [s.task EXCEPT ![p] = [s.task[p] EXCEPT !.array = a]]
    /\ r.rq.nr_active = [s.rq.nr_active EXCEPT ![a] = @ + 1]
    /\ r.rq.queue = [s.rq.queue EXCEPT ![a][i] = Append(@, p)]
    /\ r.rq.bitmap = [s.rq.bitmap EXCEPT ![a] = @ \cup {i}]

LEMMA DequeueShape ==
    ASSUME NEW s \in Machines, NEW p \in Tasks, NEW a \in Roles,
           NEW i \in Prios, s.task[p].prio = i,
           NEW q \in Seq(Tasks), q = list_del(s.rq.queue[a][i], p)
    PROVE  Dequeued(dequeue_task(s, p, a), s, a, i, q)
<1>Q. PICK Q : Q = [s.rq EXCEPT !.nr_active[a] = @ - 1,
                                !.queue[a][i] = q,
                                !.bitmap[a] = IF q = << >> THEN @ \ {i} ELSE @]
  OBVIOUS
<1>1. dequeue_task(s, p, a) = [task |-> s.task, rq |-> Q]
  BY <1>Q, Zenon DEF dequeue_task
<1>2. s.rq \in Rqs /\ s.task \in [Tasks \cup {Idle} -> Procs]
  BY MachineParts
<1>3. /\ s.rq.nr_active \in Counts /\ s.rq.bitmap \in Bitmaps
      /\ s.rq.queue \in Queues
  BY <1>2, RqParts
<1>n. PICK na \in Counts : na = [s.rq.nr_active EXCEPT ![a] = @ - 1]
  BY <1>3, BumpRole
<1>u. PICK qu \in Queues :
         qu = [s.rq.queue EXCEPT ![a][i] = q]
  BY <1>3 DEF Queues
<1>b. PICK bm \in Bitmaps :
         bm = [s.rq.bitmap EXCEPT ![a] = IF q = << >> THEN @ \ {i} ELSE @]
  BY <1>3 DEF Bitmaps
<1>4. Q = Arrays(s.rq, na, qu, bm)
  BY <1>Q, <1>n, <1>u, <1>b DEF Arrays
<1>5. /\ Q \in Rqs /\ Q.nr_active = na /\ Q.bitmap = bm /\ Q.queue = qu
      /\ SameCounts(Q, s.rq)
  <2>1. /\ na \in Counts /\ bm \in Bitmaps
        /\ qu \in Queues
    BY <1>n, <1>u, <1>b
  <2>2. QED
    BY <1>2, <1>4, <2>1, SetArrays
<1>6. QED
  BY <1>1, <1>2, <1>5, <1>n, <1>u, <1>b DEF Machines, Dequeued

\* A task_struct with another array.
LEMMA PutArray ==
    ASSUME NEW t \in Procs, NEW a \in Roles \cup {NULL}
    PROVE  LET u == [t EXCEPT !.array = a]
           IN  /\ u \in Procs /\ u.array = a /\ u.prio = t.prio /\ u.state = t.state
               /\ u.policy = t.policy /\ u.time_slice = t.time_slice
               /\ u.alloc = t.alloc /\ u.need_resched = t.need_resched
               /\ u.static_prio = t.static_prio
BY DEF Procs

LEMMA EnqueueShape ==
    ASSUME NEW s \in Machines, NEW p \in Tasks, NEW a \in Roles,
           NEW i \in Prios, s.task[p].prio = i
    PROVE  Enqueued(enqueue_task(s, p, a), s, p, a, i)
<1>Q. PICK Q : Q = [s.rq EXCEPT !.nr_active[a] = @ + 1,
                                !.queue[a][i] = Append(@, p),
                                !.bitmap[a] = @ \cup {i}]
  OBVIOUS
<1>t. PICK t : t = [s.task[p] EXCEPT !.array = a]
  OBVIOUS
<1>T. PICK T : T = [s.task EXCEPT ![p] = t]
  OBVIOUS
<1>1. enqueue_task(s, p, a) = [task |-> T, rq |-> Q]
  BY <1>Q, <1>t, <1>T, Zenon DEF enqueue_task
<1>2. s.rq \in Rqs /\ s.task \in [Tasks \cup {Idle} -> Procs]
  BY MachineParts
<1>3. /\ s.rq.nr_active \in Counts /\ s.rq.bitmap \in Bitmaps
      /\ s.rq.queue \in Queues
  BY <1>2, RqParts
<1>q. PICK q \in Seq(Tasks) : q = Append(s.rq.queue[a][i], p)
  <2>1. s.rq.queue[a][i] \in Seq(Tasks)
    BY <1>3 DEF Queues
  <2>2. Append(s.rq.queue[a][i], p) \in Seq(Tasks)
    BY <2>1
  <2>3. QED
    BY <2>2
<1>n. PICK na \in Counts : na = [s.rq.nr_active EXCEPT ![a] = @ + 1]
  BY <1>3, BumpRole
<1>u. PICK qu \in Queues :
         qu = [s.rq.queue EXCEPT ![a][i] = q]
  BY <1>3, <1>q DEF Queues
<1>b. PICK bm \in Bitmaps : bm = [s.rq.bitmap EXCEPT ![a] = @ \cup {i}]
  BY <1>3 DEF Bitmaps
<1>u2. qu = [s.rq.queue EXCEPT ![a][i] = Append(@, p)]
  BY <1>u, <1>q
<1>4. Q = Arrays(s.rq, na, qu, bm)
  BY <1>Q, <1>u2, <1>n, <1>b DEF Arrays
<1>5. /\ Q \in Rqs /\ Q.nr_active = na /\ Q.bitmap = bm /\ Q.queue = qu
      /\ SameCounts(Q, s.rq)
  <2>1. /\ na \in Counts /\ bm \in Bitmaps
        /\ qu \in Queues
    BY <1>n, <1>u, <1>b
  <2>2. QED
    BY <1>2, <1>4, <2>1, SetArrays
<1>6. t \in Procs
  BY <1>2, <1>t, PutArray
<1>7. T \in [Tasks \cup {Idle} -> Procs]
  BY <1>2, <1>6, <1>T
<1>8. QED
  BY <1>1, <1>5, <1>u2, <1>7, <1>n, <1>b, <1>t, <1>T DEF Machines, Enqueued

-----------------------------------------------------------------------------
\* Cardinalities of subsets of Tasks.
LEMMA CountLess ==
    ASSUME NEW S \in SUBSET Tasks, NEW p \in S
    PROVE  Cardinality(S \ {p}) = Cardinality(S) - 1
<1>1. IsFiniteSet(S)
  BY TasksAssumption, FS_Subset
<1>2. QED
  BY <1>1, FS_RemoveElement

LEMMA CountMore ==
    ASSUME NEW S \in SUBSET Tasks, NEW p \in Tasks \ S
    PROVE  Cardinality(S \cup {p}) = Cardinality(S) + 1
<1>1. IsFiniteSet(S)
  BY TasksAssumption, FS_Subset
<1>2. QED
  BY <1>1, FS_AddElement

LEMMA CountNone ==
    ASSUME NEW S \in SUBSET Tasks
    PROVE  Cardinality(S) \in Nat /\ (Cardinality(S) = 0 <=> S = {})
<1>1. IsFiniteSet(S)
  BY TasksAssumption, FS_Subset
<1>2. QED
  BY <1>1, FS_EmptySet, FS_CardinalityType

\* Consistency is about the arrays, and the array and priority of the tasks.
LEMMA ConsistentSame ==
    ASSUME NEW s, NEW r, NEW P, Consistent(s, P),
           r.rq.nr_active = s.rq.nr_active, r.rq.bitmap = s.rq.bitmap,
           r.rq.queue = s.rq.queue,
           \A p \in P : /\ r.task[p].array = s.task[p].array
                        /\ r.task[p].prio = s.task[p].prio
    PROVE  Consistent(r, P)
<1>1. \A a : HeldBy(r, P, a) = HeldBy(s, P, a)
  BY DEF HeldBy
<1>2. \A a, i : Held(r, P, a, i) = Held(s, P, a, i)
  BY DEF Held
<1>3. QED
  BY <1>1, <1>2 DEF Consistent

LEMMA ConsistentRq ==
    ASSUME NEW s, NEW r, NEW P, Consistent(s, P),
           r.task = s.task, r.rq.nr_active = s.rq.nr_active,
           r.rq.bitmap = s.rq.bitmap, r.rq.queue = s.rq.queue
    PROVE  Consistent(r, P)
BY ConsistentSame

\* A task that points to no array is on no queue.
LEMMA ConsistentOut ==
    ASSUME NEW s, NEW P, NEW p, s.task[p].array = NULL
    PROVE  Consistent(s, P) <=> Consistent(s, P \ {p})
<1>1. \A a \in Roles : HeldBy(s, P \ {p}, a) = HeldBy(s, P, a)
  BY TasksAssumption DEF HeldBy, Roles
<1>2. \A a \in Roles : \A i : Held(s, P \ {p}, a, i) = Held(s, P, a, i)
  BY TasksAssumption DEF Held, Roles
<1>3. QED
  BY <1>1, <1>2 DEF Consistent

LEMMA DequeueConsistent ==
    ASSUME NEW s \in Machines, NEW P \in SUBSET Tasks, Consistent(s, P),
           NEW p \in P, NEW a \in Roles, s.task[p].array = a,
           s.task[p].prio \in Prios
    PROVE  LET r == dequeue_task(s, p, a)
           IN  /\ r \in Machines /\ r.task = s.task /\ SameCounts(r.rq, s.rq)
               /\ Consistent(r, P \ {p})
<1>i. PICK i \in Prios : i = s.task[p].prio
  OBVIOUS
<1>1. p \in Held(s, P, a, i) /\ Holds(s.rq.queue[a][i], Held(s, P, a, i))
  BY <1>i DEF Held, Consistent
<1>q. PICK q : q = list_del(s.rq.queue[a][i], p)
  OBVIOUS
<1>2. Holds(q, Held(s, P, a, i) \ {p})
  BY <1>1, <1>q, HoldsDel
<1>3. q \in Seq(Tasks)
  BY <1>2 DEF Holds
<1>r. PICK r : r = dequeue_task(s, p, a)
  OBVIOUS
<1>4. /\ r \in Machines /\ r.task = s.task /\ SameCounts(r.rq, s.rq)
      /\ r.rq.nr_active = [s.rq.nr_active EXCEPT ![a] = @ - 1]
      /\ r.rq.queue = [s.rq.queue EXCEPT ![a][i] = q]
      /\ r.rq.bitmap = [s.rq.bitmap EXCEPT ![a] = IF q = << >> THEN @ \ {i} ELSE @]
  <2>1. Dequeued(r, s, a, i, q)
    BY <1>i, <1>q, <1>r, <1>3, DequeueShape
  <2>2. QED
    BY <2>1, SMTT(30) DEF Dequeued
<1>5. s.rq.nr_active \in Counts /\ s.rq.bitmap \in Bitmaps /\ s.rq.queue \in Queues
  BY MachineParts, RqParts
<1>6. \A b \in Roles : \A j \in Prios :
         r.rq.queue[b][j] = IF b = a /\ j = i THEN q ELSE s.rq.queue[b][j]
  BY <1>4, <1>5, <1>i DEF Queues
<1>7. \A b \in Roles : \A j \in Prios :
         j \in r.rq.bitmap[b] <=> /\ j \in s.rq.bitmap[b]
                                  /\ ~(b = a /\ j = i /\ q = << >>)
  BY <1>4, <1>5, <1>i DEF Bitmaps
<1>8. \A b \in Roles :
         r.rq.nr_active[b] = IF b = a THEN s.rq.nr_active[b] - 1 ELSE s.rq.nr_active[b]
  BY <1>4, <1>5 DEF Counts
<1>9. \A b \in Roles : HeldBy(r, P \ {p}, b) =
                          IF b = a THEN HeldBy(s, P, b) \ {p} ELSE HeldBy(s, P, b)
  BY <1>4 DEF HeldBy
<1>10. \A b \in Roles : \A j \in Prios :
          Held(r, P \ {p}, b, j) = IF b = a /\ j = i THEN Held(s, P, b, j) \ {p}
                                   ELSE Held(s, P, b, j)
  BY <1>4, <1>i DEF Held
<1>11. ASSUME NEW b \in Roles
       PROVE  r.rq.nr_active[b] = Cardinality(HeldBy(r, P \ {p}, b))
  <2>1. HeldBy(s, P, b) \in SUBSET Tasks /\ (b = a => p \in HeldBy(s, P, b))
    BY DEF HeldBy
  <2>2. s.rq.nr_active[b] = Cardinality(HeldBy(s, P, b))
    BY DEF Consistent
  <2>3. QED
    BY <1>8, <1>9, <2>1, <2>2, CountLess, ZenonT(60)
<1>12. ASSUME NEW b \in Roles, NEW j \in Prios
       PROVE  /\ Holds(r.rq.queue[b][j], Held(r, P \ {p}, b, j))
              /\ j \in r.rq.bitmap[b] <=> r.rq.queue[b][j] # << >>
  <2>1. /\ Holds(s.rq.queue[b][j], Held(s, P, b, j))
        /\ j \in s.rq.bitmap[b] <=> s.rq.queue[b][j] # << >>
    BY DEF Consistent
  <2>2. CASE b = a /\ j = i
    <3>1. s.rq.queue[a][i] # << >>
      BY <1>1, HoldsSome
    <3>2. QED
      BY <1>2, <1>6, <1>7, <1>10, <2>1, <2>2, <3>1
  <2>3. CASE ~(b = a /\ j = i)
    BY <1>6, <1>7, <1>10, <2>1, <2>3
  <2>4. QED
    BY <2>2, <2>3
<1>13. QED
  BY <1>4, <1>11, <1>12, <1>r, ZenonT(60) DEF Consistent

LEMMA EnqueueConsistent ==
    ASSUME NEW s \in Machines, NEW P \in SUBSET Tasks, Consistent(s, P),
           NEW p \in Tasks \ P, NEW a \in Roles, s.task[p].prio \in Prios
    PROVE  LET r == enqueue_task(s, p, a)
           IN  /\ r \in Machines /\ SameCounts(r.rq, s.rq)
               /\ r.task[p] = [s.task[p] EXCEPT !.array = a]
               /\ \A q \in Tasks \cup {Idle} : q # p => r.task[q] = s.task[q]
               /\ Consistent(r, P \cup {p})
<1>i. PICK i \in Prios : i = s.task[p].prio
  OBVIOUS
<1>r. PICK r : r = enqueue_task(s, p, a)
  OBVIOUS
<1>t. PICK t : t = [s.task[p] EXCEPT !.array = a]
  OBVIOUS
<1>1. Enqueued(r, s, p, a, i)
  BY <1>i, <1>r, EnqueueShape
<1>2. /\ r \in Machines /\ SameCounts(r.rq, s.rq)
      /\ r.task = [s.task EXCEPT ![p] = t]
      /\ r.rq.nr_active = [s.rq.nr_active EXCEPT ![a] = @ + 1]
      /\ r.rq.queue = [s.rq.queue EXCEPT ![a][i] = Append(@, p)]
      /\ r.rq.bitmap = [s.rq.bitmap EXCEPT ![a] = @ \cup {i}]
  BY <1>1, <1>t DEF Enqueued
<1>3. s.rq.nr_active \in Counts /\ s.rq.bitmap \in Bitmaps /\ s.rq.queue \in Queues
      /\ s.task \in [Tasks \cup {Idle} -> Procs]
  BY MachineParts, RqParts, SMTT(30)
<1>4. /\ r.task[p] = t
      /\ \A q \in Tasks \cup {Idle} : q # p => r.task[q] = s.task[q]
  BY <1>2, <1>3
<1>5. t.array = a /\ t.prio = i
  BY <1>3, <1>i, <1>t, PutArray
<1>6. \A b \in Roles : \A j \in Prios :
         r.rq.queue[b][j] = IF b = a /\ j = i THEN Append(s.rq.queue[a][i], p)
                            ELSE s.rq.queue[b][j]
  BY <1>2, <1>3, <1>i, SMTT(30) DEF Queues
<1>7. \A b \in Roles : \A j \in Prios :
         j \in r.rq.bitmap[b] <=> j \in s.rq.bitmap[b] \/ (b = a /\ j = i)
  BY <1>2, <1>3, <1>i DEF Bitmaps
<1>8. \A b \in Roles :
         r.rq.nr_active[b] = IF b = a THEN s.rq.nr_active[b] + 1 ELSE s.rq.nr_active[b]
  BY <1>2, <1>3 DEF Counts
<1>9. \A b \in Roles : HeldBy(r, P \cup {p}, b) =
                          IF b = a THEN HeldBy(s, P, b) \cup {p} ELSE HeldBy(s, P, b)
  BY <1>4, <1>5 DEF HeldBy
<1>10. \A b \in Roles : \A j \in Prios :
          Held(r, P \cup {p}, b, j) = IF b = a /\ j = i THEN Held(s, P, b, j) \cup {p}
                                      ELSE Held(s, P, b, j)
  BY <1>4, <1>5 DEF Held
<1>11. ASSUME NEW b \in Roles
       PROVE  r.rq.nr_active[b] = Cardinality(HeldBy(r, P \cup {p}, b))
  <2>1. HeldBy(s, P, b) \in SUBSET Tasks /\ p \in Tasks \ HeldBy(s, P, b)
    BY DEF HeldBy
  <2>2. s.rq.nr_active[b] = Cardinality(HeldBy(s, P, b))
    BY DEF Consistent
  <2>3. QED
    BY <1>8, <1>9, <2>1, <2>2, CountMore
<1>12. ASSUME NEW b \in Roles, NEW j \in Prios
       PROVE  /\ Holds(r.rq.queue[b][j], Held(r, P \cup {p}, b, j))
              /\ j \in r.rq.bitmap[b] <=> r.rq.queue[b][j] # << >>
  <2>1. /\ Holds(s.rq.queue[b][j], Held(s, P, b, j))
        /\ j \in s.rq.bitmap[b] <=> s.rq.queue[b][j] # << >>
    BY DEF Consistent
  <2>2. CASE b = a /\ j = i
    <3>1. p \notin Held(s, P, b, j)
      BY DEF Held
    <3>2. /\ Holds(Append(s.rq.queue[b][j], p), Held(s, P, b, j) \cup {p})
          /\ Append(s.rq.queue[b][j], p) # << >>
      BY <2>1, <3>1, HoldsAppend
    <3>3. QED
      BY <1>6, <1>7, <1>10, <2>2, <3>2
  <2>3. CASE ~(b = a /\ j = i)
    BY <1>6, <1>7, <1>10, <2>1, <2>3
  <2>4. QED
    BY <2>2, <2>3
<1>13. QED
  BY <1>2, <1>4, <1>11, <1>12, <1>r, <1>t, ZenonT(60) DEF Consistent

-----------------------------------------------------------------------------
(***************************************************************************)
(* The invariant of a state between two steps.  A task fits its policy and *)
(* has a slice; the idle task is never queued; the queues hold the tasks;  *)
(* the tasks that are queued are counted, and those that sleep             *)
(* uninterruptibly; and they are the runnable ones and current.            *)
(***************************************************************************)
Fit(t) == /\ t.prio \in Prios /\ t.time_slice >= 1
          /\ t.policy = "OTHER" <=> ~rt_task(t)

Idler(t) == t.state = "RUNNING" /\ t.array = NULL /\ ~t.alloc /\ t.prio = MAX_PRIO

Fits(s) == Idler(s.task[Idle]) /\ \A p \in Tasks : Fit(s.task[p])

OnQueue(s) == {p \in Tasks : s.task[p].array # NULL}

Uninterruptible(s) == {p \in Tasks : /\ s.task[p].state = "UNINTERRUPTIBLE"
                                     /\ s.task[p].array = NULL}

Counted(s) == /\ s.rq.nr_running = Cardinality(OnQueue(s))
              /\ s.rq.nr_uninterruptible = Cardinality(Uninterruptible(s))

Placed(s) == \A p \in Tasks : (s.task[p].array # NULL)
                                  <=> (s.task[p].state = "RUNNING" \/ p = s.rq.curr)

Sound(s) == s \in Machines /\ Consistent(s, Tasks) /\ Fits(s)

SchedInv(s) == Sound(s) /\ Counted(s) /\ Placed(s)

-----------------------------------------------------------------------------
\* The parts of a task_struct that its place in the queues depends on.
Alike(u, t) == /\ u.state = t.state /\ u.array = t.array /\ u.prio = t.prio
               /\ u.policy = t.policy /\ u.alloc = t.alloc

LEMMA PutTimeSlice ==
    ASSUME NEW t \in Procs, NEW x \in 0..MAX_TIMESLICE
    PROVE  LET u == [t EXCEPT !.time_slice = x]
           IN  /\ u \in Procs /\ Alike(u, t) /\ u.time_slice = x
               /\ u.need_resched = t.need_resched /\ u.sleep_avg = t.sleep_avg
BY DEF Procs, Alike

LEMMA PutSleepAvg ==
    ASSUME NEW t \in Procs, NEW x \in 0..MAX_SLEEP_AVG
    PROVE  LET u == [t EXCEPT !.sleep_avg = x]
           IN  /\ u \in Procs /\ Alike(u, t) /\ u.time_slice = t.time_slice
               /\ u.need_resched = t.need_resched
BY DEF Procs, Alike

LEMMA PutSleepTime ==
    ASSUME NEW t \in Procs, NEW x \in Nat
    PROVE  LET u == [t EXCEPT !.sleep_time = x]
           IN  /\ u \in Procs /\ Alike(u, t) /\ u.time_slice = t.time_slice
               /\ u.need_resched = t.need_resched
BY DEF Procs, Alike

LEMMA PutResched ==
    ASSUME NEW t \in Procs, NEW x \in BOOLEAN
    PROVE  LET u == [t EXCEPT !.need_resched = x]
           IN  /\ u \in Procs /\ Alike(u, t) /\ u.time_slice = t.time_slice
               /\ u.need_resched = x
BY DEF Procs, Alike

LEMMA PutState ==
    ASSUME NEW t \in Procs, NEW x \in States
    PROVE  LET u == [t EXCEPT !.state = x]
           IN  /\ u \in Procs /\ u.state = x /\ u.array = t.array /\ u.prio = t.prio
               /\ u.policy = t.policy /\ u.static_prio = t.static_prio
               /\ u.alloc = t.alloc /\ u.time_slice = t.time_slice
               /\ u.need_resched = t.need_resched
BY DEF Procs

LEMMA PutPrio ==
    ASSUME NEW t \in Procs, NEW x \in 0..MAX_PRIO
    PROVE  LET u == [t EXCEPT !.prio = x]
           IN  /\ u \in Procs /\ u.state = t.state /\ u.array = t.array /\ u.prio = x
               /\ u.policy = t.policy /\ u.static_prio = t.static_prio
               /\ u.alloc = t.alloc /\ u.time_slice = t.time_slice
               /\ u.need_resched = t.need_resched
BY DEF Procs

LEMMA PutWholeSlice ==
    ASSUME NEW t \in Procs, NEW x \in 0..MAX_TIMESLICE
    PROVE  LET u == [t EXCEPT !.time_slice = x,
                              !.first_time_slice = FALSE, !.need_resched = TRUE]
           IN  /\ u \in Procs /\ Alike(u, t) /\ u.time_slice = x
               /\ u.need_resched = TRUE
BY DEF Procs, Alike

LEMMA PutNewSlice ==
    ASSUME NEW t \in Procs
    PROVE  LET u == [t EXCEPT !.time_slice = TASK_TIMESLICE(t),
                              !.first_time_slice = FALSE, !.need_resched = TRUE]
           IN  /\ u \in Procs /\ Alike(u, t) /\ u.time_slice >= 1
               /\ u.need_resched = TRUE
<1>1. TASK_TIMESLICE(t) \in 0..MAX_TIMESLICE /\ TASK_TIMESLICE(t) >= 1
  BY SliceBound, PrioAssumption
<1>2. QED
  BY <1>1, PutWholeSlice

\* A state with task_struct t for p.
Put(s, p, t) == [s EXCEPT !.task[p] = t]

LEMMA PutTask ==
    ASSUME NEW s \in Machines, NEW p \in Tasks \cup {Idle}, NEW t \in Procs
    PROVE  /\ Put(s, p, t) \in Machines /\ Put(s, p, t).rq = s.rq
           /\ Put(s, p, t).task[p] = t
           /\ \A q \in Tasks \cup {Idle} : q # p => Put(s, p, t).task[q] = s.task[q]
BY SetTask DEF Put

LEMMA TaskOf ==
    ASSUME NEW s \in Machines, NEW p \in Tasks \cup {Idle}
    PROVE  s.task[p] \in Procs
BY DEF Machines

LEMMA PutConsistent ==
    ASSUME NEW s \in Machines, NEW P \in SUBSET Tasks, Consistent(s, P),
           NEW p \in Tasks \cup {Idle}, NEW t \in Procs,
           p \in P => t.array = s.task[p].array /\ t.prio = s.task[p].prio
    PROVE  Consistent(Put(s, p, t), P)
<1>1. \A q \in P : /\ Put(s, p, t).task[q].array = s.task[q].array
                   /\ Put(s, p, t).task[q].prio = s.task[q].prio
  BY PutTask
<1>2. Put(s, p, t).rq = s.rq
  BY PutTask
<1>3. QED
  BY <1>1, <1>2, ConsistentSame

\* A state with another run queue.
PutQ(s, Q) == [s EXCEPT !.rq = Q]

SameArrays(r, s) == /\ r.nr_active = s.nr_active /\ r.bitmap = s.bitmap
                    /\ r.queue = s.queue

LEMMA PutQueue ==
    ASSUME NEW s \in Machines, NEW Q \in Rqs
    PROVE  /\ PutQ(s, Q) \in Machines /\ PutQ(s, Q).task = s.task /\ PutQ(s, Q).rq = Q
           /\ SameArrays(Q, s.rq) =>
                 \A P : Consistent(s, P) => Consistent(PutQ(s, Q), P)
<1>r. PICK r : r = PutQ(s, Q)
  OBVIOUS
<1>1. s.rq \in Rqs /\ s.task \in [Tasks \cup {Idle} -> Procs]
  BY MachineParts
<1>2. r = [task |-> s.task, rq |-> Q]
  BY <1>r, MachineParts DEF PutQ
<1>3. r \in Machines /\ r.task = s.task /\ r.rq = Q
  BY <1>1, <1>2 DEF Machines
<1>4. SameArrays(Q, s.rq) => \A P : Consistent(s, P) => Consistent(r, P)
  BY <1>3, ConsistentRq DEF SameArrays
<1>5. QED
  BY <1>3, <1>4, <1>r

LEMMA RqExpired ==
    ASSUME NEW q \in Rqs, NEW x \in Nat \cup {NULL}
    PROVE  LET r == [q EXCEPT !.expired_time = x]
           IN  /\ r \in Rqs /\ SameArrays(r, q) /\ r.curr = q.curr
               /\ r.nr_running = q.nr_running
               /\ r.nr_uninterruptible = q.nr_uninterruptible
BY DEF Rqs, SameArrays

LEMMA RqRunning ==
    ASSUME NEW q \in Rqs, NEW x \in Int
    PROVE  LET r == [q EXCEPT !.nr_running = x]
           IN  /\ r \in Rqs /\ SameArrays(r, q) /\ r.curr = q.curr
               /\ r.nr_running = x
               /\ r.nr_uninterruptible = q.nr_uninterruptible
BY DEF Rqs, SameArrays

LEMMA RqUninterruptible ==
    ASSUME NEW q \in Rqs, NEW x \in Int
    PROVE  LET r == [q EXCEPT !.nr_uninterruptible = x]
           IN  /\ r \in Rqs /\ SameArrays(r, q) /\ r.curr = q.curr
               /\ r.nr_running = q.nr_running /\ r.nr_uninterruptible = x
BY DEF Rqs, SameArrays

LEMMA RqCurr ==
    ASSUME NEW q \in Rqs, NEW x \in Tasks \cup {Idle}
    PROVE  LET r == [q EXCEPT !.curr = x]
           IN  /\ r \in Rqs /\ SameArrays(r, q) /\ r.curr = x
               /\ r.nr_running = q.nr_running
               /\ r.nr_uninterruptible = q.nr_uninterruptible
BY DEF Rqs, SameArrays

-----------------------------------------------------------------------------
(***************************************************************************)
(* A step that moves p, and only p, between queues or changes its slice.   *)
(***************************************************************************)
Classed(t) == t.prio \in Prios /\ (t.policy = "OTHER" <=> ~rt_task(t))

Keeps(r, s, p) ==
    /\ r \in Machines /\ Consistent(r, Tasks)
    /\ r.rq.curr = s.rq.curr /\ r.rq.nr_running = s.rq.nr_running
    /\ r.rq.nr_uninterruptible = s.rq.nr_uninterruptible
    /\ \A q \in Tasks \cup {Idle} : q # p => r.task[q] = s.task[q]
    /\ r.task[p].state = s.task[p].state
    /\ r.task[p].array = NULL <=> s.task[p].array = NULL
    /\ Fit(r.task[p])

LEMMA KeepsInv ==
    ASSUME NEW s, NEW r, NEW p \in Tasks, SchedInv(s), Keeps(r, s, p)
    PROVE  SchedInv(r)
<1>1. OnQueue(r) = OnQueue(s) /\ Uninterruptible(r) = Uninterruptible(s)
  BY DEF OnQueue, Uninterruptible, Keeps
<1>2. Counted(r)
  BY <1>1 DEF SchedInv, Counted, Keeps
<1>3. Placed(r)
  BY DEF SchedInv, Placed, Keeps
<1>4. Fits(r)
  BY TasksAssumption DEF SchedInv, Sound, Fits, Keeps
<1>5. QED
  BY <1>2, <1>3, <1>4 DEF SchedInv, Sound, Keeps

LEMMA NewSlicePuts ==
    ASSUME NEW s \in Machines, NEW p \in Tasks
    PROVE  \E t \in Procs : /\ NewSlice(s, p) = Put(s, p, t) /\ Alike(t, s.task[p])
                            /\ t.time_slice >= 1 /\ t.need_resched = TRUE
<1>t. PICK t : t = [s.task[p] EXCEPT !.time_slice = TASK_TIMESLICE(s.task[p]),
                                     !.first_time_slice = FALSE,
                                     !.need_resched = TRUE]
  OBVIOUS
<1>1. s.task[p] \in Procs
  BY TaskOf
<1>2. t \in Procs /\ Alike(t, s.task[p]) /\ t.time_slice >= 1 /\ t.need_resched = TRUE
  BY <1>1, <1>t, PutNewSlice
<1>3. NewSlice(s, p) = Put(s, p, t)
  BY <1>t DEF NewSlice, Put
<1>4. QED
  BY <1>2, <1>3

\* p, off its queue and changed, is put on one again.
LEMMA PutBack ==
    ASSUME NEW s \in Machines, NEW d \in Machines, NEW p \in Tasks, NEW a \in Roles,
           Consistent(d, Tasks \ {p}),
           d.rq.curr = s.rq.curr, d.rq.nr_running = s.rq.nr_running,
           d.rq.nr_uninterruptible = s.rq.nr_uninterruptible,
           \A q \in Tasks \cup {Idle} : q # p => d.task[q] = s.task[q],
           d.task[p].state = s.task[p].state, s.task[p].array # NULL, Fit(d.task[p])
    PROVE  LET r == enqueue_task(d, p, a)
           IN  /\ Keeps(r, s, p) /\ r.task[p].array = a
               /\ r.task[p].prio = d.task[p].prio
               /\ r.task[p].static_prio = d.task[p].static_prio
               /\ r.task[p].need_resched = d.task[p].need_resched
<1>r. PICK r : r = enqueue_task(d, p, a)
  OBVIOUS
<1>5. /\ r \in Machines /\ SameCounts(r.rq, d.rq)
      /\ r.task[p] = [d.task[p] EXCEPT !.array = a]
      /\ \A q \in Tasks \cup {Idle} : q # p => r.task[q] = d.task[q]
      /\ Consistent(r, (Tasks \ {p}) \cup {p})
  <2>1. d.task[p].prio \in Prios /\ p \in Tasks \ (Tasks \ {p})
    BY DEF Fit
  <2>2. QED
    BY <1>r, <2>1, EnqueueConsistent, SMTT(30)
<1>6. (Tasks \ {p}) \cup {p} = Tasks
  OBVIOUS
<1>7. d.task[p] \in Procs
  BY TaskOf
<1>8. /\ r.task[p].array = a /\ r.task[p].prio = d.task[p].prio
      /\ r.task[p].state = d.task[p].state /\ r.task[p].policy = d.task[p].policy
      /\ r.task[p].time_slice = d.task[p].time_slice
      /\ r.task[p].alloc = d.task[p].alloc
      /\ r.task[p].static_prio = d.task[p].static_prio
      /\ r.task[p].need_resched = d.task[p].need_resched
  BY <1>5, <1>7, PutArray
<1>9. Fit(r.task[p])
  BY <1>8 DEF Fit, rt_task
<1>10. a # NULL
  BY TasksAssumption DEF Roles
<1>11. Keeps(r, s, p)
  BY <1>5, <1>6, <1>8, <1>9, <1>10 DEF Keeps, SameCounts
<1>12. QED
  BY <1>8, <1>11, <1>r

LEMMA RequeueRRKeeps ==
    ASSUME NEW s \in Machines, Consistent(s, Tasks), NEW p \in Tasks,
           s.task[p].array = "active", Classed(s.task[p])
    PROVE  LET r == RequeueRR(s, p)
           IN  Keeps(r, s, p) /\ r.task[p].need_resched = TRUE
<1>t. PICK t \in Procs : /\ NewSlice(s, p) = Put(s, p, t) /\ Alike(t, s.task[p])
                         /\ t.time_slice >= 1 /\ t.need_resched = TRUE
  BY NewSlicePuts
<1>e. PICK e : e = Put(s, p, t)
  OBVIOUS
<1>1. /\ e \in Machines /\ e.rq = s.rq /\ e.task[p] = t
      /\ \A q \in Tasks \cup {Idle} : q # p => e.task[q] = s.task[q]
  BY <1>e, PutTask
<1>2. Consistent(e, Tasks)
  BY <1>e, <1>t, PutConsistent DEF Alike
<1>3. e.task[p].array = "active" /\ e.task[p].prio \in Prios
  BY <1>1, <1>t DEF Alike, Classed
<1>d. PICK d : d = dequeue_task(e, p, "active")
  OBVIOUS
<1>4. /\ d \in Machines /\ d.task = e.task /\ SameCounts(d.rq, e.rq)
      /\ Consistent(d, Tasks \ {p})
  BY <1>1, <1>2, <1>3, <1>d, DequeueConsistent DEF Roles
<1>5. /\ d.rq.curr = s.rq.curr /\ d.rq.nr_running = s.rq.nr_running
      /\ d.rq.nr_uninterruptible = s.rq.nr_uninterruptible
  BY <1>1, <1>4 DEF SameCounts
<1>6. /\ \A q \in Tasks \cup {Idle} : q # p => d.task[q] = s.task[q]
      /\ d.task[p].state = s.task[p].state /\ d.task[p].alloc = s.task[p].alloc
      /\ s.task[p].array # NULL /\ d.task[p].need_resched = TRUE
  BY <1>1, <1>4, <1>t, TasksAssumption DEF Alike
<1>7. Fit(d.task[p])
  BY <1>1, <1>4, <1>t DEF Fit, Alike, Classed, rt_task
<1>8. RequeueRR(s, p) = enqueue_task(d, p, "active")
  BY <1>t, <1>e, <1>d DEF RequeueRR
<1>9. "active" \in Roles
  BY DEF Roles
<1>10. QED
  BY <1>4, <1>5, <1>6, <1>7, <1>8, <1>9, PutBack

LEMMA ExpireSliceKeeps ==
    ASSUME NEW s \in Machines, Consistent(s, Tasks), NEW p \in Tasks,
           s.task[p].array = "active", Classed(s.task[p]), ~rt_task(s.task[p])
    PROVE  LET r == ExpireSlice(s, p)
           IN  Keeps(r, s, p) /\ r.task[p].need_resched = TRUE
<1>d. PICK d : d = dequeue_task(s, p, "active")
  OBVIOUS
<1>1. /\ d \in Machines /\ d.task = s.task /\ SameCounts(d.rq, s.rq)
      /\ Consistent(d, Tasks \ {p})
  BY <1>d, DequeueConsistent DEF Roles, Classed
<1>u. PICK u : u = [d.task[p] EXCEPT !.prio = effective_prio(d.task[p])]
  OBVIOUS
<1>2. d.task[p] \in Procs
  BY <1>1, TaskOf
<1>3. effective_prio(d.task[p]) \in MAX_RT_PRIO..(MAX_PRIO - 1)
  BY <1>2, EffectivePrio
<1>4. effective_prio(d.task[p]) \in 0..MAX_PRIO
  BY <1>3, PrioAssumption
<1>5. /\ u \in Procs /\ u.state = d.task[p].state /\ u.policy = d.task[p].policy
      /\ u.prio = effective_prio(d.task[p]) /\ u.alloc = d.task[p].alloc
  BY <1>2, <1>4, <1>u, PutPrio
<1>f. PICK f : f = Put(d, p, u)
  OBVIOUS
<1>6. /\ f \in Machines /\ f.rq = d.rq /\ f.task[p] = u
      /\ \A q \in Tasks \cup {Idle} : q # p => f.task[q] = d.task[q]
  BY <1>1, <1>5, <1>f, PutTask
<1>7. Consistent(f, Tasks \ {p})
  BY <1>1, <1>5, <1>f, PutConsistent
<1>t. PICK t \in Procs : /\ NewSlice(f, p) = Put(f, p, t) /\ Alike(t, f.task[p])
                         /\ t.time_slice >= 1 /\ t.need_resched = TRUE
  BY <1>6, NewSlicePuts
<1>e. PICK e : e = Put(f, p, t)
  OBVIOUS
<1>8. /\ e \in Machines /\ e.rq = f.rq /\ e.task[p] = t
      /\ \A q \in Tasks \cup {Idle} : q # p => e.task[q] = f.task[q]
  BY <1>6, <1>e, PutTask
<1>9. Consistent(e, Tasks \ {p})
  BY <1>6, <1>7, <1>e, PutConsistent
<1>10. /\ e.rq.curr = s.rq.curr /\ e.rq.nr_running = s.rq.nr_running
       /\ e.rq.nr_uninterruptible = s.rq.nr_uninterruptible
  BY <1>1, <1>6, <1>8 DEF SameCounts
<1>11. /\ \A q \in Tasks \cup {Idle} : q # p => e.task[q] = s.task[q]
       /\ e.task[p].state = s.task[p].state /\ e.task[p].alloc = s.task[p].alloc
       /\ s.task[p].array # NULL /\ e.task[p].need_resched = TRUE
  BY <1>1, <1>5, <1>6, <1>8, <1>t, TasksAssumption DEF Alike
<1>12. Fit(e.task[p])
  <2>1. e.task[p].prio \in MAX_RT_PRIO..(MAX_PRIO - 1) /\ e.task[p].policy = s.task[p].policy
    BY <1>1, <1>3, <1>5, <1>6, <1>8, <1>t DEF Alike
  <2>2. e.task[p].time_slice >= 1
    BY <1>8, <1>t
  <2>3. e.task[p].prio \in Prios /\ ~rt_task(e.task[p])
    BY <2>1, PrioAssumption DEF Prios, rt_task
  <2>4. QED
    BY <2>1, <2>2, <2>3 DEF Fit, Classed
<1>Q. PICK Q : Q = [e.rq EXCEPT !.expired_time = IF @ = NULL THEN 0 ELSE @]
  OBVIOUS
<1>13. /\ Q \in Rqs /\ SameArrays(Q, e.rq) /\ Q.curr = e.rq.curr
       /\ Q.nr_running = e.rq.nr_running
       /\ Q.nr_uninterruptible = e.rq.nr_uninterruptible
  <2>1. e.rq \in Rqs
    BY <1>8, MachineParts
  <2>2. (IF e.rq.expired_time = NULL THEN 0 ELSE e.rq.expired_time) \in Nat \cup {NULL}
    BY <2>1, RqParts
  <2>3. QED
    BY <1>Q, <2>1, <2>2, RqExpired
<1>g. PICK g : g = PutQ(e, Q)
  OBVIOUS
<1>14. /\ g \in Machines /\ g.task = e.task /\ g.rq = Q
       /\ Consistent(g, Tasks \ {p})
  BY <1>8, <1>9, <1>13, <1>g, PutQueue
<1>15. ExpireSlice(s, p) = IF ~TASK_INTERACTIVE(e.task[p]) \/ EXPIRED_STARVING(e.rq)
                           THEN enqueue_task(g, p, "expired")
                           ELSE enqueue_task(e, p, "active")
  <2>1. e = NewSlice([d EXCEPT !.task[p].prio = effective_prio(d.task[p])], p)
    BY <1>u, <1>f, <1>t, <1>e DEF Put
  <2>2. g = [e EXCEPT !.rq.expired_time = IF @ = NULL THEN 0 ELSE @]
    BY <1>g, <1>Q DEF PutQ
  <2>3. QED
    BY <1>d, <2>1, <2>2, Zenon DEF ExpireSlice
<1>16. Keeps(enqueue_task(e, p, "active"), s, p)
       /\ enqueue_task(e, p, "active").task[p].need_resched = TRUE
  <2>1. "active" \in Roles
    BY DEF Roles
  <2>2. QED
    BY <1>8, <1>9, <1>10, <1>11, <1>12, <2>1, PutBack
<1>17. Keeps(enqueue_task(g, p, "expired"), s, p)
       /\ enqueue_task(g, p, "expired").task[p].need_resched = TRUE
  <2>1. "expired" \in Roles
    BY DEF Roles
  <2>2. QED
    BY <1>10, <1>11, <1>12, <1>13, <1>14, <2>1, PutBack
<1>18. QED
  BY <1>15, <1>16, <1>17

\* A task_struct changed where the queues do not see it.
LEMMA PutKeeps ==
    ASSUME NEW s \in Machines, Consistent(s, Tasks), NEW p \in Tasks, NEW t \in Procs,
           Alike(t, s.task[p]), Fit(t)
    PROVE  Keeps(Put(s, p, t), s, p)
<1>1. Consistent(Put(s, p, t), Tasks)
  BY PutConsistent DEF Alike
<1>2. QED
  BY <1>1, PutTask DEF Keeps, Alike

LEMMA KeepsAfterPut ==
    ASSUME NEW s \in Machines, NEW p \in Tasks, NEW t \in Procs, Alike(t, s.task[p]),
           NEW r, Keeps(r, Put(s, p, t), p)
    PROVE  Keeps(r, s, p)
BY PutTask DEF Keeps, Alike

\* Current is marked, or stays what it was for the choice of the next task.
Marks(r, s, p) == \/ r.task[p].need_resched = TRUE
                  \/ /\ r.task[p].need_resched = s.task[p].need_resched
                     /\ r.task[p].prio = s.task[p].prio
                     /\ r.task[p].array = s.task[p].array

LEMMA TickKeeps ==
    ASSUME NEW s \in Machines, Consistent(s, Tasks), NEW c \in Tasks, c = s.rq.curr,
           Fit(s.task[c])
    PROVE  Keeps(scheduler_tick(s), s, c) /\ Marks(scheduler_tick(s), s, c)
<1>t. PICK t \in Procs : t = s.task[c]
  BY TaskOf
<1>v. PICK v : v = [t EXCEPT !.time_slice = @ - 1]
  OBVIOUS
<1>w. PICK w : w = [v EXCEPT !.sleep_avg = IF @ # 0 THEN @ - 1 ELSE @]
  OBVIOUS
<1>f. Fit(t)
  BY <1>t
<1>s. t.time_slice \in 1..MAX_TIMESLICE /\ t.sleep_avg \in 0..MAX_SLEEP_AVG
  BY <1>f DEF Procs, Fit
<1>1. /\ v \in Procs /\ Alike(v, t) /\ v.time_slice = t.time_slice - 1
      /\ v.need_resched = t.need_resched /\ v.sleep_avg = t.sleep_avg
  <2>1. t.time_slice - 1 \in 0..MAX_TIMESLICE
    BY <1>s, PrioAssumption
  <2>2. QED
    BY <1>v, <2>1, PutTimeSlice
<1>2. /\ w \in Procs /\ Alike(w, v) /\ w.time_slice = v.time_slice
      /\ w.need_resched = v.need_resched
  <2>1. (IF v.sleep_avg # 0 THEN v.sleep_avg - 1 ELSE v.sleep_avg) \in 0..MAX_SLEEP_AVG
    BY <1>s, <1>1, PrioAssumption
  <2>2. QED
    BY <1>1, <1>w, <2>1, PutSleepAvg
<1>u. PICK u : u = Put(s, c, v)
  OBVIOUS
<1>3. u \in Machines /\ u.task[c] = v /\ u.rq = s.rq
  BY <1>1, <1>u, PutTask
<1>4. Consistent(u, Tasks)
  BY <1>1, <1>t, <1>u, PutConsistent DEF Alike
<1>r. PICK r : r = Put(u, c, w)
  OBVIOUS
<1>5. r \in Machines /\ r.task[c] = w /\ r.rq = s.rq
  BY <1>2, <1>3, <1>r, PutTask
<1>6. Consistent(r, Tasks)
  BY <1>2, <1>3, <1>4, <1>r, PutConsistent DEF Alike
<1>7. c # Idle
  BY TasksAssumption
<1>d. scheduler_tick(s) =
         IF t.array # "active" THEN resched_task(s, c)
         ELSE IF rt_task(t) THEN
             IF t.policy # "RR" THEN s
             ELSE IF t.time_slice = 1 THEN RequeueRR(u, c) ELSE u
         ELSE IF t.time_slice = 1 THEN ExpireSlice(r, c) ELSE r
  <2>1. u = [s EXCEPT !.task[c].time_slice = @ - 1]
    BY <1>u, <1>v, <1>t DEF Put
  <2>2. r = [u EXCEPT !.task[c].sleep_avg = IF @ # 0 THEN @ - 1 ELSE @]
    BY <1>r, <1>w, <1>3 DEF Put
  <2>3. /\ u = [s EXCEPT !.task[s.rq.curr].time_slice = @ - 1]
        /\ r = [u EXCEPT !.task[s.rq.curr].sleep_avg = IF @ # 0 THEN @ - 1 ELSE @]
        /\ t = s.task[s.rq.curr]
    BY <1>t, <2>1, <2>2
  <2>4. scheduler_tick(s) =
         IF s.rq.curr = Idle THEN s
         ELSE IF t.array # "active" THEN resched_task(s, s.rq.curr)
         ELSE IF rt_task(t) THEN
             IF t.policy # "RR" THEN s
             ELSE IF t.time_slice = 1 THEN RequeueRR(u, s.rq.curr) ELSE u
         ELSE IF t.time_slice = 1 THEN ExpireSlice(r, s.rq.curr) ELSE r
    BY <2>3 DEF scheduler_tick
  <2>5. QED
    BY <1>7, <2>4
<1>8. CASE t.array # "active"
  <2>z. PICK z : z = [t EXCEPT !.need_resched = TRUE]
    OBVIOUS
  <2>1. z \in Procs /\ Alike(z, t) /\ z.time_slice = t.time_slice /\ z.need_resched = TRUE
    BY <2>z, PutResched
  <2>2. Fit(z)
    BY <1>f, <2>1 DEF Fit, Alike, rt_task
  <2>3. resched_task(s, c) = Put(s, c, z)
    BY <1>t, <2>z DEF resched_task, Put
  <2>4. Keeps(Put(s, c, z), s, c)
    BY <1>t, <2>1, <2>2, PutKeeps
  <2>5. Put(s, c, z).task[c].need_resched = TRUE
    BY <2>1, PutTask
  <2>6. QED
    BY <1>8, <1>d, <2>3, <2>4, <2>5 DEF Marks
<1>9. ASSUME t.time_slice # 1
      PROVE  /\ Keeps(u, s, c) /\ Marks(u, s, c)
             /\ Keeps(r, s, c) /\ Marks(r, s, c)
  <2>1. Fit(v)
    BY <1>f, <1>s, <1>1, <1>9 DEF Fit, Alike, rt_task
  <2>2. Fit(w)
    BY <2>1, <1>2 DEF Fit, Alike, rt_task
  <2>3. Keeps(u, s, c)
    BY <1>t, <1>u, <1>1, <2>1, PutKeeps
  <2>4. Keeps(r, s, c)
    <3>1. Keeps(r, u, c)
      BY <1>r, <1>2, <1>3, <1>4, <2>2, PutKeeps
    <3>2. QED
      BY <1>1, <1>t, <1>u, <3>1, KeepsAfterPut
  <2>5. Marks(u, s, c) /\ Marks(r, s, c)
    BY <1>1, <1>2, <1>3, <1>5, <1>t DEF Marks, Alike
  <2>6. QED
    BY <2>3, <2>4, <2>5
<1>10. CASE t.array = "active" /\ rt_task(t)
  <2>1. CASE t.policy # "RR"
    <3>1. Keeps(s, s, c) /\ Marks(s, s, c)
      BY DEF Keeps, Marks
    <3>2. QED
      BY <1>10, <1>d, <2>1, <3>1
  <2>2. CASE t.policy = "RR" /\ t.time_slice = 1
    <3>1. u.task[c].array = "active" /\ Classed(u.task[c])
      BY <1>1, <1>3, <1>10, <1>f DEF Alike, Classed, Fit, rt_task
    <3>2. Keeps(RequeueRR(u, c), u, c) /\ RequeueRR(u, c).task[c].need_resched = TRUE
      BY <1>3, <1>4, <3>1, RequeueRRKeeps
    <3>3. Keeps(RequeueRR(u, c), s, c)
      BY <1>1, <1>t, <1>u, <3>2, KeepsAfterPut
    <3>4. QED
      BY <1>10, <1>d, <2>2, <3>2, <3>3 DEF Marks
  <2>3. CASE t.policy = "RR" /\ t.time_slice # 1
    BY <1>9, <1>10, <1>d, <2>3
  <2>4. QED
    BY <2>1, <2>2, <2>3
<1>11. CASE t.array = "active" /\ ~rt_task(t)
  <2>1. CASE t.time_slice = 1
    <3>1. /\ r.task[c].array = "active" /\ Classed(r.task[c])
          /\ ~rt_task(r.task[c])
      BY <1>1, <1>2, <1>5, <1>11, <1>f DEF Alike, Classed, Fit, rt_task
    <3>2. Keeps(ExpireSlice(r, c), r, c) /\ ExpireSlice(r, c).task[c].need_resched = TRUE
      BY <1>5, <1>6, <3>1, ExpireSliceKeeps
    <3>3. Keeps(ExpireSlice(r, c), u, c)
      BY <1>2, <1>3, <1>r, <3>2, KeepsAfterPut
    <3>4. Keeps(ExpireSlice(r, c), s, c)
      BY <1>1, <1>t, <1>u, <3>3, KeepsAfterPut
    <3>5. QED
      BY <1>11, <1>d, <2>1, <3>2, <3>4 DEF Marks
  <2>2. CASE t.time_slice # 1
    BY <1>9, <1>11, <1>d, <2>2
  <2>3. QED
    BY <2>1, <2>2
<1>12. QED
  BY <1>8, <1>10, <1>11

-----------------------------------------------------------------------------
\* The fields of a task_struct that coming on or off a queue leaves alone.
Kin(u, t) == /\ u.state = t.state /\ u.policy = t.policy
             /\ u.time_slice = t.time_slice /\ u.alloc = t.alloc
             /\ u.need_resched = t.need_resched

LEMMA RestedKin ==
    ASSUME NEW t \in Procs, Classed(t)
    PROVE  Rested(t) \in Procs /\ Kin(Rested(t), t) /\ Classed(Rested(t))
<1>x. PICK x : x = Least(t.sleep_avg + t.sleep_time, MAX_SLEEP_AVG)
  OBVIOUS
<1>1. x \in 0..MAX_SLEEP_AVG
  <2>1. t.sleep_avg \in 0..MAX_SLEEP_AVG /\ t.sleep_time \in Nat
    BY DEF Procs
  <2>2. QED
    BY <1>x, <2>1, PrioAssumption DEF Least
<1>u. PICK u : u = [t EXCEPT !.sleep_avg = x]
  OBVIOUS
<1>2. /\ u \in Procs /\ Alike(u, t) /\ u.time_slice = t.time_slice
      /\ u.need_resched = t.need_resched
  BY <1>1, <1>u, PutSleepAvg
<1>3. effective_prio(u) \in MAX_RT_PRIO..(MAX_PRIO - 1)
  BY <1>2, EffectivePrio
<1>4. effective_prio(u) \in 0..MAX_PRIO
  BY <1>3, PrioAssumption
<1>w. PICK w : w = [u EXCEPT !.prio = effective_prio(u)]
  OBVIOUS
<1>5. /\ w \in Procs /\ w.state = u.state /\ w.array = u.array
      /\ w.prio = effective_prio(u) /\ w.policy = u.policy
      /\ w.static_prio = u.static_prio /\ w.alloc = u.alloc
      /\ w.time_slice = u.time_slice /\ w.need_resched = u.need_resched
  BY <1>2, <1>4, <1>w, PutPrio
<1>6. Rested(t) = IF ~rt_task(t) /\ t.sleep_time # 0 THEN w ELSE t
  BY <1>x, <1>u, <1>w DEF Rested
<1>7. Kin(w, t)
  BY <1>2, <1>5 DEF Kin, Alike
<1>8. ~rt_task(t) => Classed(w)
  <2>1. w.prio \in Prios /\ ~rt_task(w)
    BY <1>3, <1>5, PrioAssumption DEF Prios, rt_task
  <2>2. QED
    BY <1>2, <1>5, <2>1 DEF Classed, Alike
<1>9. Kin(t, t)
  BY DEF Kin
<1>10. QED
  BY <1>5, <1>6, <1>7, <1>8, <1>9

\* p comes on the active array.
Activated(r, s, p) ==
    /\ r \in Machines /\ Consistent(r, Tasks) /\ r.rq.curr = s.rq.curr
    /\ r.rq.nr_running = s.rq.nr_running + 1
    /\ r.rq.nr_uninterruptible = s.rq.nr_uninterruptible
    /\ \A q \in Tasks \cup {Idle} : q # p => r.task[q] = s.task[q]
    /\ r.task[p].array = "active" /\ Kin(r.task[p], s.task[p]) /\ Classed(r.task[p])

LEMMA ActivateTask ==
    ASSUME NEW s \in Machines, NEW p \in Tasks, Consistent(s, Tasks \ {p}),
           Classed(s.task[p])
    PROVE  Activated(activate_task(s, p), s, p)
<1>t. PICK t : t = Rested(s.task[p])
  OBVIOUS
<1>1. s.task[p] \in Procs
  BY TaskOf
<1>2. t \in Procs /\ Kin(t, s.task[p]) /\ Classed(t)
  BY <1>1, <1>t, RestedKin
<1>d. PICK d : d = Put(s, p, t)
  OBVIOUS
<1>3. /\ d \in Machines /\ d.rq = s.rq /\ d.task[p] = t
      /\ \A q \in Tasks \cup {Idle} : q # p => d.task[q] = s.task[q]
  BY <1>2, <1>d, PutTask
<1>4. Consistent(d, Tasks \ {p})
  BY <1>2, <1>d, PutConsistent
<1>e. PICK e : e = enqueue_task(d, p, "active")
  OBVIOUS
<1>5. /\ e \in Machines /\ SameCounts(e.rq, d.rq)
      /\ e.task[p] = [d.task[p] EXCEPT !.array = "active"]
      /\ \A q \in Tasks \cup {Idle} : q # p => e.task[q] = d.task[q]
      /\ Consistent(e, (Tasks \ {p}) \cup {p})
  <2>1. "active" \in Roles /\ p \in Tasks \ (Tasks \ {p}) /\ d.task[p].prio \in Prios
    BY <1>2, <1>3 DEF Roles, Classed
  <2>2. QED
    BY <1>3, <1>4, <1>e, <2>1, EnqueueConsistent, SMTT(30)
<1>6. Consistent(e, Tasks)
  <2>1. (Tasks \ {p}) \cup {p} = Tasks
    OBVIOUS
  <2>2. QED
    BY <1>5, <2>1
<1>7. e.task[p] = [t EXCEPT !.array = "active"]
  BY <1>3, <1>5
<1>8. /\ e.task[p].array = "active" /\ Kin(e.task[p], t)
      /\ e.task[p].prio = t.prio /\ e.task[p].policy = t.policy
  <2>1. "active" \in Roles \cup {NULL}
    BY DEF Roles
  <2>2. QED
    BY <1>2, <1>7, <2>1, PutArray DEF Kin
<1>9. Kin(e.task[p], s.task[p]) /\ Classed(e.task[p])
  BY <1>2, <1>8 DEF Kin, Classed, rt_task
<1>10. e.rq \in Rqs /\ e.rq.nr_running \in Int
  BY <1>5, MachineParts, RqParts
<1>Q. PICK Q : Q = [e.rq EXCEPT !.nr_running = e.rq.nr_running + 1]
  OBVIOUS
<1>11. /\ Q \in Rqs /\ SameArrays(Q, e.rq) /\ Q.curr = e.rq.curr
       /\ Q.nr_running = e.rq.nr_running + 1
       /\ Q.nr_uninterruptible = e.rq.nr_uninterruptible
  BY <1>10, <1>Q, RqRunning
<1>r. PICK r : r = PutQ(e, Q)
  OBVIOUS
<1>12. /\ r \in Machines /\ r.task = e.task /\ r.rq = Q /\ Consistent(r, Tasks)
  BY <1>5, <1>6, <1>11, <1>r, PutQueue
<1>13. activate_task(s, p) = r
  <2>1. d = [s EXCEPT !.task[p] = Rested(@)]
    BY <1>d, <1>t DEF Put
  <2>2. r = [e EXCEPT !.rq.nr_running = @ + 1]
    BY <1>r, <1>Q DEF PutQ
  <2>3. QED
    BY <1>e, <2>1, <2>2 DEF activate_task
<1>14. QED
  BY <1>3, <1>5, <1>8, <1>9, <1>11, <1>12, <1>13 DEF Activated, SameCounts

\* p comes off its array.
Deactivated(r, s, p) ==
    /\ r \in Machines /\ Consistent(r, Tasks) /\ r.rq.curr = s.rq.curr
    /\ r.rq.nr_running = s.rq.nr_running - 1
    /\ r.rq.nr_uninterruptible = IF s.task[p].state = "UNINTERRUPTIBLE"
                                 THEN s.rq.nr_uninterruptible + 1
                                 ELSE s.rq.nr_uninterruptible
    /\ \A q \in Tasks \cup {Idle} : q # p => r.task[q] = s.task[q]
    /\ r.task[p].array = NULL /\ Kin(r.task[p], s.task[p])
    /\ r.task[p].prio = s.task[p].prio

LEMMA DeactivateTask ==
    ASSUME NEW s \in Machines, NEW p \in Tasks, Consistent(s, Tasks),
           s.task[p].array \in Roles, s.task[p].prio \in Prios
    PROVE  Deactivated(deactivate_task(s, p), s, p)
<1>a. PICK a \in Roles : a = s.task[p].array
  OBVIOUS
<1>d. PICK d : d = dequeue_task(s, p, a)
  OBVIOUS
<1>1. /\ d \in Machines /\ d.task = s.task /\ SameCounts(d.rq, s.rq)
      /\ Consistent(d, Tasks \ {p})
  BY <1>a, <1>d, DequeueConsistent
<1>t. PICK t : t = [d.task[p] EXCEPT !.array = NULL]
  OBVIOUS
<1>2. d.task[p] \in Procs
  BY <1>1, TaskOf
<1>3. t \in Procs /\ t.array = NULL /\ Kin(t, d.task[p]) /\ t.prio = d.task[p].prio
  BY <1>2, <1>t, PutArray DEF Kin
<1>e. PICK e : e = Put(d, p, t)
  OBVIOUS
<1>4. /\ e \in Machines /\ e.rq = d.rq /\ e.task[p] = t
      /\ \A q \in Tasks \cup {Idle} : q # p => e.task[q] = d.task[q]
  BY <1>1, <1>3, <1>e, PutTask
<1>5. Consistent(e, Tasks)
  <2>1. Consistent(e, Tasks \ {p})
    BY <1>1, <1>3, <1>e, PutConsistent
  <2>2. QED
    BY <1>3, <1>4, <2>1, ConsistentOut
<1>n. PICK n \in Int : n = e.rq.nr_running - 1
  BY <1>4, MachineParts, RqParts
<1>u. PICK u \in Int : u = IF s.task[p].state = "UNINTERRUPTIBLE"
                           THEN e.rq.nr_uninterruptible + 1 ELSE e.rq.nr_uninterruptible
  BY <1>4, MachineParts, RqParts
<1>Q. PICK Q : Q = [d.rq EXCEPT !.nr_running = n, !.nr_uninterruptible = u]
  OBVIOUS
<1>6. /\ Q \in Rqs /\ SameArrays(Q, e.rq) /\ Q.curr = e.rq.curr
      /\ Q.nr_running = n /\ Q.nr_uninterruptible = u
  <2>1. d.rq \in Rqs
    BY <1>1, MachineParts
  <2>2. QED
    BY <1>4, <1>Q, <2>1 DEF Rqs, SameArrays
<1>r. PICK r : r = PutQ(e, Q)
  OBVIOUS
<1>7. /\ r \in Machines /\ r.task = e.task /\ r.rq = Q /\ Consistent(r, Tasks)
  BY <1>4, <1>5, <1>6, <1>r, PutQueue
<1>8. deactivate_task(s, p) = r
  <2>1. r = [task |-> e.task, rq |-> Q]
    BY <1>4, <1>r, MachineParts DEF PutQ
  <2>2. e.task = [d.task EXCEPT ![p].array = NULL]
    <3>1. Put(d, p, t) = [task |-> [d.task EXCEPT ![p] = t], rq |-> d.rq]
      BY <1>1, MachineParts DEF Put
    <3>2. e.task = [d.task EXCEPT ![p] = t]
      BY <1>e, <3>1
    <3>3. QED
      BY <1>t, <3>2
  <2>3. Q = [d.rq EXCEPT !.nr_running = @ - 1,
                         !.nr_uninterruptible =
                            IF s.task[p].state = "UNINTERRUPTIBLE" THEN @ + 1 ELSE @]
    BY <1>Q, <1>n, <1>u, <1>4
  <2>4. d = dequeue_task(s, p, s.task[p].array)
    BY <1>a, <1>d
  <2>5. QED
    BY <2>1, <2>2, <2>3, <2>4 DEF deactivate_task
<1>9. QED
  BY <1>1, <1>3, <1>4, <1>6, <1>7, <1>8, <1>n, <1>u DEF Deactivated, SameCounts

-----------------------------------------------------------------------------
\* No task of the active array is better than current.
NoBetter(s) == \A p \in Tasks :
    ~ /\ p # s.rq.curr /\ s.task[p].array = "active"
      /\ s.task[p].prio < s.task[s.rq.curr].prio

Pending(s) == s.task[s.rq.curr].need_resched \/ NoBetter(s)

\* A state in which current may be on its queue or off it: schedule() runs.
Ready(s) == /\ Sound(s) /\ Counted(s)
            /\ \A p \in Tasks : s.task[p].array # NULL <=> s.task[p].state = "RUNNING"

\* A step that the queues do not see.
Neutral(r, s) ==
    /\ r \in Machines /\ SameArrays(r.rq, s.rq) /\ r.rq.curr = s.rq.curr
    /\ r.rq.nr_running = s.rq.nr_running
    /\ r.rq.nr_uninterruptible = s.rq.nr_uninterruptible
    /\ \A p \in Tasks \cup {Idle} : Alike(r.task[p], s.task[p])
    /\ \A p \in Tasks : r.task[p].time_slice >= 1

LEMMA NeutralKeeps ==
    ASSUME NEW s, NEW r, Neutral(r, s), Sound(s)
    PROVE  /\ Sound(r) /\ (Counted(s) => Counted(r)) /\ (Placed(s) => Placed(r))
           /\ (Ready(s) => Ready(r)) /\ (SchedInv(s) => SchedInv(r))
           /\ (NoBetter(s) => NoBetter(r))
<1>1. \A p \in Tasks \cup {Idle} : /\ r.task[p].state = s.task[p].state
                                   /\ r.task[p].array = s.task[p].array
                                   /\ r.task[p].prio = s.task[p].prio
                                   /\ r.task[p].policy = s.task[p].policy
                                   /\ r.task[p].alloc = s.task[p].alloc
  BY DEF Neutral, Alike
<1>2. Consistent(r, Tasks)
  BY <1>1, ConsistentSame DEF Neutral, SameArrays, Sound
<1>3. \A p \in Tasks : Fit(r.task[p])
  BY <1>1 DEF Neutral, Sound, Fits, Fit, rt_task
<1>4. Idler(r.task[Idle])
  BY <1>1 DEF Sound, Fits, Idler
<1>5. Sound(r)
  BY <1>2, <1>3, <1>4 DEF Sound, Fits, Neutral
<1>6. OnQueue(r) = OnQueue(s) /\ Uninterruptible(r) = Uninterruptible(s)
  BY <1>1 DEF OnQueue, Uninterruptible
<1>7. Counted(s) => Counted(r)
  BY <1>6 DEF Counted, Neutral
<1>8. Placed(s) => Placed(r)
  BY <1>1 DEF Placed, Neutral
<1>9. Ready(s) => Ready(r)
  BY <1>1, <1>5, <1>7 DEF Ready
<1>10. NoBetter(s) => NoBetter(r)
  <2>1. r.rq.curr = s.rq.curr /\ s.rq.curr \in Tasks \cup {Idle}
    BY MachineParts, RqParts DEF Neutral, Sound
  <2>2. QED
    BY <1>1, <2>1 DEF NoBetter
<1>11. QED
  BY <1>5, <1>7, <1>8, <1>9, <1>10 DEF SchedInv

LEMMA PutNeutral ==
    ASSUME NEW s \in Machines, Fits(s), NEW p \in Tasks \cup {Idle}, NEW t \in Procs,
           Alike(t, s.task[p]), t.time_slice >= 1 \/ p = Idle
    PROVE  Neutral(Put(s, p, t), s)
<1>1. \A q \in Tasks \cup {Idle} : Alike(Put(s, p, t).task[q], s.task[q])
  BY PutTask DEF Alike
<1>2. \A q \in Tasks : Put(s, p, t).task[q].time_slice >= 1
  <2>1. ASSUME NEW q \in Tasks, q # p
        PROVE  Put(s, p, t).task[q].time_slice >= 1
    <3>1. Put(s, p, t).task[q] = s.task[q]
      BY <2>1, PutTask
    <3>2. QED
      BY <3>1 DEF Fits, Fit
  <2>2. Put(s, p, t).task[p] = t
    BY PutTask
  <2>3. QED
    BY <2>1, <2>2, TasksAssumption
<1>3. QED
  BY <1>1, <1>2, PutTask DEF Neutral, SameArrays

-----------------------------------------------------------------------------
LEMMA Others ==
    /\ Other("active") = "expired" /\ Other("expired") = "active" /\ Other(NULL) = NULL
    /\ \A a \in Roles : Other(a) \in Roles /\ Other(Other(a)) = a
    /\ \A x \in Roles \cup {NULL} : /\ Other(x) \in Roles \cup {NULL}
                                    /\ Other(x) = NULL <=> x = NULL
                                    /\ \A a \in Roles : Other(x) = a <=> x = Other(a)
<1>1. /\ Other("active") = "expired" /\ Other("expired") = "active"
      /\ Other(NULL) = NULL
  BY TasksAssumption DEF Other
<1>2. QED
  BY <1>1, TasksAssumption DEF Roles

\* The two arrays trade places.
Switched(r, s) ==
    /\ r \in Machines /\ r.rq.curr = s.rq.curr
    /\ r.rq.nr_running = s.rq.nr_running
    /\ r.rq.nr_uninterruptible = s.rq.nr_uninterruptible
    /\ \A p \in Tasks \cup {Idle} : /\ Kin(r.task[p], s.task[p])
                                    /\ r.task[p].prio = s.task[p].prio
                                    /\ r.task[p].array = Other(s.task[p].array)
    /\ \A a \in Roles : /\ r.rq.queue[a] = s.rq.queue[Other(a)]
                        /\ r.rq.bitmap[a] = s.rq.bitmap[Other(a)]
                        /\ r.rq.nr_active[a] = s.rq.nr_active[Other(a)]

LEMMA SwitchShape ==
    ASSUME NEW s \in Machines
    PROVE  Switched(SwitchArrays(s), s)
<1>1. s.rq \in Rqs /\ s.task \in [Tasks \cup {Idle} -> Procs]
  BY MachineParts
<1>2. /\ s.rq.nr_active \in Counts /\ s.rq.bitmap \in Bitmaps
      /\ s.rq.queue \in Queues
  BY <1>1, RqParts
<1>T. PICK T : T = [p \in DOMAIN s.task |-> [s.task[p] EXCEPT !.array = Other(@)]]
  OBVIOUS
<1>3. \A p \in Tasks \cup {Idle} : T[p] = [s.task[p] EXCEPT !.array = Other(s.task[p].array)]
  BY <1>1, <1>T
<1>4. ASSUME NEW p \in Tasks \cup {Idle}
      PROVE  /\ T[p] \in Procs /\ Kin(T[p], s.task[p]) /\ T[p].prio = s.task[p].prio
             /\ T[p].array = Other(s.task[p].array)
  <2>1. s.task[p] \in Procs
    BY <1>1
  <2>2. s.task[p].array \in Roles \cup {NULL}
    BY <2>1 DEF Procs
  <2>3. Other(s.task[p].array) \in Roles \cup {NULL}
    BY <2>2, Others
  <2>x. PICK x \in Roles \cup {NULL} : x = Other(s.task[p].array)
    BY <2>3
  <2>4. T[p] = [s.task[p] EXCEPT !.array = x]
    BY <1>3, <2>x
  <2>5. T[p] \in Procs /\ T[p].array = x /\ Kin(T[p], s.task[p]) /\ T[p].prio = s.task[p].prio
    BY <2>1, <2>4, PutArray DEF Kin
  <2>6. QED
    BY <2>5, <2>x
<1>5. T \in [Tasks \cup {Idle} -> Procs]
  BY <1>1, <1>4, <1>T
<1>q. PICK q : q = [a \in Roles |-> s.rq.queue[Other(a)]]
  OBVIOUS
<1>b. PICK b : b = [a \in Roles |-> s.rq.bitmap[Other(a)]]
  OBVIOUS
<1>n. PICK n : n = [a \in Roles |-> s.rq.nr_active[Other(a)]]
  OBVIOUS
<1>6. q \in Queues /\ b \in Bitmaps /\ n \in Counts
  BY <1>2, <1>q, <1>b, <1>n, Others DEF Queues, Bitmaps, Counts
<1>Q. PICK Q : Q = [s.rq EXCEPT !.queue = q, !.bitmap = b, !.nr_active = n,
                                !.expired_time = NULL]
  OBVIOUS
<1>7. /\ Q \in Rqs /\ Q.queue = q /\ Q.bitmap = b /\ Q.nr_active = n
      /\ Q.curr = s.rq.curr /\ Q.nr_running = s.rq.nr_running
      /\ Q.nr_uninterruptible = s.rq.nr_uninterruptible
  BY <1>1, <1>6, <1>Q DEF Rqs
<1>8. SwitchArrays(s) = [task |-> T, rq |-> Q]
  BY <1>T, <1>q, <1>b, <1>n, <1>Q DEF SwitchArrays
<1>r. PICK r : r = SwitchArrays(s)
  OBVIOUS
<1>9. r \in Machines /\ r.task = T /\ r.rq = Q
  BY <1>5, <1>7, <1>8, <1>r DEF Machines
<1>10. \A a \in Roles : /\ Q.queue[a] = s.rq.queue[Other(a)]
                        /\ Q.bitmap[a] = s.rq.bitmap[Other(a)]
                        /\ Q.nr_active[a] = s.rq.nr_active[Other(a)]
  BY <1>7, <1>q, <1>b, <1>n
<1>11. QED
  BY <1>4, <1>7, <1>9, <1>10, <1>r DEF Switched

LEMMA SwitchReady ==
    ASSUME NEW s, NEW r, Switched(r, s), Ready(s)
    PROVE  Ready(r) /\ \A a \in Roles : HeldBy(r, Tasks, a) = HeldBy(s, Tasks, Other(a))
<1>1. \A p \in Tasks \cup {Idle} :
         /\ r.task[p].state = s.task[p].state /\ r.task[p].prio = s.task[p].prio
         /\ r.task[p].policy = s.task[p].policy /\ r.task[p].alloc = s.task[p].alloc
         /\ r.task[p].time_slice = s.task[p].time_slice
         /\ r.task[p].array = Other(s.task[p].array)
         /\ s.task[p].array \in Roles \cup {NULL}
  <2>1. \A p \in Tasks \cup {Idle} : s.task[p] \in Procs
    BY TaskOf DEF Ready, Sound
  <2>2. \A p \in Tasks \cup {Idle} : s.task[p].array \in Roles \cup {NULL}
    BY <2>1 DEF Procs
  <2>3. QED
    BY <2>2 DEF Switched, Kin
<1>2. \A a \in Roles : HeldBy(r, Tasks, a) = HeldBy(s, Tasks, Other(a))
  BY <1>1, Others DEF HeldBy
<1>3. \A a \in Roles : \A i : Held(r, Tasks, a, i) = Held(s, Tasks, Other(a), i)
  BY <1>1, Others DEF Held
<1>4. Consistent(r, Tasks)
  <2>1. ASSUME NEW a \in Roles
        PROVE  /\ r.rq.nr_active[a] = Cardinality(HeldBy(r, Tasks, a))
               /\ \A i \in Prios : /\ Holds(r.rq.queue[a][i], Held(r, Tasks, a, i))
                                   /\ i \in r.rq.bitmap[a] <=> r.rq.queue[a][i] # << >>
    <3>1. Other(a) \in Roles
      BY Others
    <3>2. /\ r.rq.queue[a] = s.rq.queue[Other(a)]
          /\ r.rq.bitmap[a] = s.rq.bitmap[Other(a)]
          /\ r.rq.nr_active[a] = s.rq.nr_active[Other(a)]
      BY DEF Switched
    <3>3. QED
      BY <1>2, <1>3, <3>1, <3>2 DEF Ready, Sound, Consistent
  <2>2. QED
    BY <2>1 DEF Consistent
<1>5. Fits(r)
  <2>1. \A p \in Tasks : Fit(r.task[p])
    BY <1>1 DEF Ready, Sound, Fits, Fit, rt_task
  <2>2. Idler(r.task[Idle])
    BY <1>1, Others DEF Ready, Sound, Fits, Idler
  <2>3. QED
    BY <2>1, <2>2 DEF Fits
<1>6. OnQueue(r) = OnQueue(s) /\ Uninterruptible(r) = Uninterruptible(s)
  BY <1>1, Others DEF OnQueue, Uninterruptible
<1>7. Counted(r)
  BY <1>6 DEF Ready, Counted, Switched
<1>8. \A p \in Tasks : r.task[p].array # NULL <=> r.task[p].state = "RUNNING"
  BY <1>1, Others DEF Ready
<1>9. QED
  BY <1>2, <1>4, <1>5, <1>7, <1>8 DEF Ready, Sound, Switched

LEMMA PickIdle ==
    ASSUME NEW s, Ready(s), s.rq.nr_running = 0
    PROVE  SchedInv(PickNext(s)) /\ NoBetter(PickNext(s))
<1>Q. PICK Q : Q = [s.rq EXCEPT !.curr = Idle, !.expired_time = NULL]
  OBVIOUS
<1>m. s \in Machines
  BY DEF Ready, Sound
<1>1. s.rq \in Rqs
  BY <1>m, MachineParts
<1>2. /\ Q \in Rqs /\ SameArrays(Q, s.rq) /\ Q.curr = Idle
      /\ Q.nr_running = s.rq.nr_running
      /\ Q.nr_uninterruptible = s.rq.nr_uninterruptible
  BY <1>1, <1>Q DEF Rqs, SameArrays
<1>r. PICK r : r = PutQ(s, Q)
  OBVIOUS
<1>3. r \in Machines /\ r.task = s.task /\ r.rq = Q /\ Consistent(r, Tasks)
  BY <1>m, <1>2, <1>r, PutQueue DEF Ready, Sound
<1>4. PickNext(s) = r
  BY <1>r, <1>Q DEF PickNext, PutQ
<1>5. Sound(r) /\ Counted(r)
  BY <1>2, <1>3 DEF Ready, Sound, Fits, Counted, OnQueue, Uninterruptible
<1>6. OnQueue(s) = {}
  <2>1. OnQueue(s) \in SUBSET Tasks
    BY DEF OnQueue
  <2>2. QED
    BY <2>1, CountNone DEF Ready, Counted
<1>7. \A p \in Tasks : s.task[p].array = NULL
  BY <1>6 DEF OnQueue
<1>8. Placed(r)
  BY <1>2, <1>3, TasksAssumption DEF Placed, Ready
<1>9. NoBetter(r)
  BY <1>3, <1>7, TasksAssumption DEF NoBetter
<1>10. QED
  BY <1>4, <1>5, <1>8, <1>9 DEF SchedInv

LEMMA PickTask ==
    ASSUME NEW s, Ready(s), s.rq.nr_running # 0
    PROVE  SchedInv(PickNext(s)) /\ NoBetter(PickNext(s))
<1>r. PICK r : r = IF s.rq.nr_active["active"] = 0 THEN SwitchArrays(s) ELSE s
  OBVIOUS
<1>1. Ready(r) /\ HeldBy(r, Tasks, "active") # {}
  <2>1. s \in Machines /\ "active" \in Roles /\ "expired" \in Roles
    BY DEF Ready, Sound, Roles
  <2>2. s.rq.nr_active["active"] = Cardinality(HeldBy(s, Tasks, "active"))
    BY <2>1 DEF Ready, Sound, Consistent
  <2>3. HeldBy(s, Tasks, "active") \in SUBSET Tasks
    BY DEF HeldBy
  <2>4. s.rq.nr_active["active"] = 0 <=> HeldBy(s, Tasks, "active") = {}
    BY <2>2, <2>3, CountNone
  <2>5. PICK p \in Tasks : s.task[p].array # NULL
    <3>1. OnQueue(s) \in SUBSET Tasks
      BY DEF OnQueue
    <3>2. OnQueue(s) # {}
      BY <3>1, CountNone DEF Ready, Counted
    <3>3. QED
      BY <3>2 DEF OnQueue
  <2>6. s.task[p].array \in {"active", "expired"}
    <3>1. s.task[p] \in Procs
      BY <2>1, TaskOf
    <3>2. s.task[p].array \in Roles \cup {NULL}
      BY <3>1 DEF Procs
    <3>3. QED
      BY <2>5, <3>2 DEF Roles
  <2>7. CASE HeldBy(s, Tasks, "active") = {}
    <3>1. s.task[p].array = "expired"
      BY <2>6, <2>7 DEF HeldBy
    <3>2. HeldBy(s, Tasks, Other("active")) # {}
      BY <3>1, Others DEF HeldBy
    <3>3. r = SwitchArrays(s)
      BY <1>r, <2>4, <2>7
    <3>4. Switched(r, s)
      BY <2>1, <3>3, SwitchShape
    <3>5. QED
      BY <2>1, <3>2, <3>4, SwitchReady
  <2>8. CASE HeldBy(s, Tasks, "active") # {}
    BY <1>r, <2>4, <2>8
  <2>9. QED
    BY <2>7, <2>8
<1>m. r \in Machines /\ Consistent(r, Tasks) /\ "active" \in Roles
  BY <1>1 DEF Ready, Sound, Roles
<1>b. PICK b : b = r.rq.bitmap["active"]
  OBVIOUS
<1>2. b \in SUBSET Prios
  <2>1. r.rq.bitmap \in Bitmaps
    BY <1>m, MachineParts, RqParts
  <2>2. QED
    BY <1>b, <1>m, <2>1 DEF Bitmaps
<1>3. \A p \in HeldBy(r, Tasks, "active") : r.task[p].prio \in b
  <2>1. ASSUME NEW p \in HeldBy(r, Tasks, "active")
        PROVE  r.task[p].prio \in b
    <3>i. PICK i \in Prios : i = r.task[p].prio
      BY <1>1 DEF HeldBy, Ready, Sound, Fits, Fit
    <3>1. p \in Held(r, Tasks, "active", i)
      BY <3>i DEF HeldBy, Held
    <3>2. /\ Holds(r.rq.queue["active"][i], Held(r, Tasks, "active", i))
          /\ i \in b <=> r.rq.queue["active"][i] # << >>
      BY <1>m, <1>b DEF Consistent
    <3>3. QED
      BY <3>i, <3>1, <3>2, HoldsSome
  <2>2. QED
    BY <2>1
<1>i. PICK i : i = sched_find_first_bit(b)
  OBVIOUS
<1>4. i \in b /\ \A j \in b : i <= j
  BY <1>1, <1>2, <1>3, <1>i, FirstBit
<1>h. PICK h : h = Head(r.rq.queue["active"][i])
  OBVIOUS
<1>5. h \in Held(r, Tasks, "active", i)
  <2>1. i \in Prios
    BY <1>2, <1>4
  <2>2. /\ Holds(r.rq.queue["active"][i], Held(r, Tasks, "active", i))
        /\ r.rq.queue["active"][i] # << >>
    BY <1>m, <1>b, <1>4, <2>1 DEF Consistent
  <2>3. QED
    BY <1>h, <2>2, HoldsSome
<1>6. /\ h \in Tasks /\ r.task[h].array = "active" /\ r.task[h].prio = i
      /\ r.task[h].state = "RUNNING"
  <2>1. h \in Tasks /\ r.task[h].array = "active" /\ r.task[h].prio = i
    BY <1>5 DEF Held
  <2>2. QED
    BY <1>1, <2>1, TasksAssumption DEF Ready
<1>Q. PICK Q : Q = [r.rq EXCEPT !.curr = h]
  OBVIOUS
<1>7. /\ Q \in Rqs /\ SameArrays(Q, r.rq) /\ Q.curr = h
      /\ Q.nr_running = r.rq.nr_running
      /\ Q.nr_uninterruptible = r.rq.nr_uninterruptible
  <2>1. r.rq \in Rqs /\ h \in Tasks \cup {Idle}
    BY <1>m, <1>6, MachineParts
  <2>2. QED
    BY <1>Q, <2>1, RqCurr
<1>n. PICK n : n = PutQ(r, Q)
  OBVIOUS
<1>8. n \in Machines /\ n.task = r.task /\ n.rq = Q /\ Consistent(n, Tasks)
  BY <1>m, <1>7, <1>n, PutQueue
<1>9. PickNext(s) = n
  <2>1. n = [r EXCEPT !.rq.curr = Head(r.rq.queue["active"][i])]
    BY <1>n, <1>Q, <1>h DEF PutQ
  <2>2. i = sched_find_first_bit(r.rq.bitmap["active"])
    BY <1>i, <1>b
  <2>3. QED
    BY <1>r, <2>1, <2>2 DEF PickNext
<1>10. Sound(n) /\ Counted(n)
  BY <1>1, <1>7, <1>8 DEF Ready, Sound, Fits, Counted, OnQueue, Uninterruptible
<1>11. Placed(n)
  BY <1>1, <1>6, <1>7, <1>8 DEF Placed, Ready
<1>12. NoBetter(n)
  <2>1. ASSUME NEW p \in Tasks, n.task[p].array = "active"
        PROVE  ~(n.task[p].prio < n.task[n.rq.curr].prio)
    <3>1. p \in HeldBy(r, Tasks, "active")
      BY <1>8, <2>1 DEF HeldBy
    <3>2. r.task[p].prio \in b
      BY <1>3, <3>1
    <3>x. PICK x \in b : x = r.task[p].prio
      BY <3>2
    <3>5. i <= x /\ i \in Int /\ x \in Int
      BY <1>2, <1>4, <3>x DEF Prios
    <3>3. n.task[n.rq.curr].prio = i /\ n.task[p].prio = r.task[p].prio
      BY <1>6, <1>7, <1>8, SMTT(30)
    <3>4. QED
      BY <3>3, <3>x, <3>5
  <2>2. QED
    BY <2>1 DEF NoBetter
<1>13. QED
  BY <1>9, <1>10, <1>11, <1>12 DEF SchedInv

\* prev, which does not run any more, leaves its queue.
LEMMA LeaveReady ==
    ASSUME NEW s, SchedInv(s), NEW p \in Tasks, p = s.rq.curr,
           s.task[p].state # "RUNNING"
    PROVE  Ready(deactivate_task(s, p))
<1>r. PICK r : r = deactivate_task(s, p)
  OBVIOUS
<1>1. s \in Machines /\ Consistent(s, Tasks) /\ Fit(s.task[p]) /\ s.task[p] \in Procs
  BY TaskOf DEF SchedInv, Sound, Fits
<1>2. s.task[p].array \in Roles
  <2>1. s.task[p].array # NULL
    BY DEF SchedInv, Placed
  <2>2. QED
    BY <1>1, <2>1 DEF Procs
<1>3. Deactivated(r, s, p)
  BY <1>1, <1>2, <1>r, DeactivateTask DEF Fit
<1>4. /\ r \in Machines /\ Consistent(r, Tasks)
      /\ \A q \in Tasks \cup {Idle} : q # p => r.task[q] = s.task[q]
      /\ r.task[p].array = NULL /\ r.task[p].state = s.task[p].state
      /\ Fit(r.task[p])
  BY <1>1, <1>3 DEF Deactivated, Kin, Fit, rt_task
<1>5. Fits(r)
  BY <1>4, TasksAssumption DEF SchedInv, Sound, Fits
<1>6. OnQueue(r) = OnQueue(s) \ {p} /\ p \in OnQueue(s) /\ OnQueue(s) \in SUBSET Tasks
  BY <1>2, <1>4, TasksAssumption DEF OnQueue, Roles
<1>7. r.rq.nr_running = Cardinality(OnQueue(r))
  BY <1>3, <1>6, CountLess DEF Deactivated, SchedInv, Counted
<1>8. r.rq.nr_uninterruptible = Cardinality(Uninterruptible(r))
  <2>1. Uninterruptible(s) \in SUBSET Tasks /\ p \in Tasks \ Uninterruptible(s)
    BY <1>2, TasksAssumption DEF Uninterruptible, Roles
  <2>2. s.rq.nr_uninterruptible = Cardinality(Uninterruptible(s))
    BY DEF SchedInv, Counted
  <2>3. CASE s.task[p].state = "UNINTERRUPTIBLE"
    <3>1. Uninterruptible(r) = Uninterruptible(s) \cup {p}
      BY <1>4, <2>3 DEF Uninterruptible
    <3>2. r.rq.nr_uninterruptible = s.rq.nr_uninterruptible + 1
      BY <1>3, <2>3 DEF Deactivated
    <3>3. QED
      BY <2>1, <2>2, <3>1, <3>2, CountMore
  <2>4. CASE s.task[p].state # "UNINTERRUPTIBLE"
    <3>1. Uninterruptible(r) = Uninterruptible(s)
      BY <1>4, <2>1, <2>4 DEF Uninterruptible
    <3>2. r.rq.nr_uninterruptible = s.rq.nr_uninterruptible
      BY <1>3, <2>4 DEF Deactivated
    <3>3. QED
      BY <2>2, <3>1, <3>2
  <2>5. QED
    BY <2>3, <2>4
<1>9. \A q \in Tasks : r.task[q].array # NULL <=> r.task[q].state = "RUNNING"
  BY <1>4 DEF SchedInv, Placed
<1>10. QED
  BY <1>4, <1>5, <1>7, <1>8, <1>9, <1>r DEF Ready, Sound, Counted

LEMMA ScheduleInv ==
    ASSUME NEW s, SchedInv(s), NEW signalled \in BOOLEAN
    PROVE  SchedInv(schedule(s, signalled)) /\ NoBetter(schedule(s, signalled))
<1>p. PICK prev : prev = s.rq.curr
  OBVIOUS
<1>1. s \in Machines /\ Sound(s) /\ Fits(s) /\ prev \in Tasks \cup {Idle}
  BY <1>p, MachineParts, RqParts DEF SchedInv, Sound
<1>t. PICK t \in Procs : t = s.task[prev]
  BY <1>1, TaskOf
<1>v. PICK v : v = [t EXCEPT !.sleep_time = 0]
  OBVIOUS
<1>2. v \in Procs /\ Alike(v, t) /\ v.time_slice = t.time_slice
  BY <1>v, PutSleepTime
<1>r. PICK r : r = Put(s, prev, v)
  OBVIOUS
<1>3. r \in Machines /\ r.rq = s.rq /\ r.task[prev] = v
  BY <1>1, <1>2, <1>r, PutTask
<1>4. Neutral(r, s)
  <2>1. v.time_slice >= 1 \/ prev = Idle
    BY <1>1, <1>2, <1>t DEF Fits, Fit
  <2>2. QED
    BY <1>1, <1>2, <1>r, <1>t, <2>1, PutNeutral
<1>5. SchedInv(r) /\ Sound(r)
  BY <1>1, <1>4, NeutralKeeps
<1>w. PICK w : w = [v EXCEPT !.state = "RUNNING"]
  OBVIOUS
<1>6. /\ w \in Procs /\ w.state = "RUNNING" /\ w.array = v.array /\ w.prio = v.prio
      /\ w.policy = v.policy /\ w.alloc = v.alloc /\ w.time_slice = v.time_slice
  BY <1>2, <1>w, PutState DEF States
<1>u. PICK u : u = IF signalled /\ t.state = "INTERRUPTIBLE" THEN Put(r, prev, w)
                   ELSE IF t.state = "RUNNING" THEN r
                   ELSE deactivate_task(r, prev)
  OBVIOUS
<1>7. v.state = t.state /\ (prev = Idle => t.state = "RUNNING")
  BY <1>1, <1>2, <1>t DEF Alike, Fits, Idler
<1>8. Ready(u)
  <2>1. CASE signalled /\ t.state = "INTERRUPTIBLE"
    <3>1. prev \in Tasks
      BY <1>1, <1>7, <2>1
    <3>2. u = Put(r, prev, w)
      BY <1>u, <2>1
    <3>3. /\ u \in Machines /\ u.rq = r.rq /\ u.task[prev] = w
          /\ \A q \in Tasks \cup {Idle} : q # prev => u.task[q] = r.task[q]
      BY <1>1, <1>3, <1>6, <3>2, PutTask
    <3>4. Consistent(u, Tasks)
      <4>1. Consistent(r, Tasks) /\ w.array = r.task[prev].array /\ w.prio = r.task[prev].prio
        BY <1>3, <1>5, <1>6 DEF Sound
      <4>2. QED
        BY <1>1, <1>3, <1>6, <3>2, <4>1, PutConsistent
    <3>5. Fits(u)
      <4>1. Fit(v) /\ Fits(r)
        BY <1>3, <1>5, <3>1 DEF Sound, Fits
      <4>2. Fit(w)
        BY <1>6, <4>1 DEF Fit, rt_task
      <4>3. QED
        BY <3>1, <3>3, <4>1, <4>2, TasksAssumption DEF Fits
    <3>6. r.task[prev].array # NULL
      BY <1>3, <1>5, <1>p, <3>1 DEF SchedInv, Placed
    <3>7. OnQueue(u) = OnQueue(r) /\ Uninterruptible(u) = Uninterruptible(r)
      BY <1>3, <1>6, <3>3, <3>6 DEF OnQueue, Uninterruptible
    <3>8. Counted(u)
      BY <1>5, <3>3, <3>7 DEF Counted, SchedInv
    <3>9. \A q \in Tasks : u.task[q].array # NULL <=> u.task[q].state = "RUNNING"
      BY <1>3, <1>5, <1>6, <1>p, <3>3, <3>6 DEF SchedInv, Placed
    <3>10. QED
      BY <3>3, <3>4, <3>5, <3>8, <3>9 DEF Ready, Sound
  <2>2. CASE ~(signalled /\ t.state = "INTERRUPTIBLE") /\ t.state = "RUNNING"
    <3>1. u = r
      BY <1>u, <2>2
    <3>2. \A q \in Tasks : r.task[q].array # NULL <=> r.task[q].state = "RUNNING"
      BY <1>3, <1>5, <1>7, <1>p, <2>2 DEF SchedInv, Placed
    <3>3. QED
      BY <1>5, <3>1, <3>2 DEF Ready, SchedInv
  <2>3. CASE ~(signalled /\ t.state = "INTERRUPTIBLE") /\ t.state # "RUNNING"
    <3>1. u = deactivate_task(r, prev)
      BY <1>u, <2>3
    <3>2. prev \in Tasks /\ prev = r.rq.curr /\ r.task[prev].state # "RUNNING"
      BY <1>1, <1>3, <1>7, <1>p, <2>3
    <3>3. QED
      BY <1>5, <3>1, <3>2, LeaveReady
  <2>4. QED
    BY <2>1, <2>2, <2>3
<1>n. PICK n : n = PickNext(u)
  OBVIOUS
<1>9. SchedInv(n) /\ NoBetter(n)
  BY <1>8, <1>n, PickIdle, PickTask
<1>10. n \in Machines /\ Sound(n) /\ Fits(n)
  BY <1>9 DEF SchedInv, Sound
<1>x. PICK x \in Procs : x = n.task[prev]
  BY <1>1, <1>10, TaskOf
<1>y. PICK y : y = [x EXCEPT !.need_resched = FALSE]
  OBVIOUS
<1>11. y \in Procs /\ Alike(y, x) /\ y.time_slice = x.time_slice
  BY <1>y, PutResched
<1>12. Neutral(Put(n, prev, y), n)
  <2>1. y.time_slice >= 1 \/ prev = Idle
    BY <1>1, <1>10, <1>11, <1>x DEF Fits, Fit
  <2>2. QED
    BY <1>1, <1>10, <1>11, <1>x, <2>1, PutNeutral
<1>13. SchedInv(Put(n, prev, y)) /\ NoBetter(Put(n, prev, y))
  BY <1>9, <1>10, <1>12, NeutralKeeps
<1>14. schedule(s, signalled) = Put(n, prev, y)
  <2>1. r = [s EXCEPT !.task[s.rq.curr].sleep_time = 0]
    BY <1>r, <1>v, <1>t, <1>p DEF Put
  <2>2. Put(r, prev, w) = [r EXCEPT !.task[s.rq.curr].state = "RUNNING"]
    BY <1>w, <1>3, <1>p DEF Put
  <2>3. Put(n, prev, y) = [n EXCEPT !.task[s.rq.curr].need_resched = FALSE]
    BY <1>x, <1>y, <1>p DEF Put
  <2>4. u = IF signalled /\ s.task[s.rq.curr].state = "INTERRUPTIBLE"
            THEN [r EXCEPT !.task[s.rq.curr].state = "RUNNING"]
            ELSE IF s.task[s.rq.curr].state = "RUNNING" THEN r
            ELSE deactivate_task(r, s.rq.curr)
    BY <1>u, <1>t, <1>p, <2>2
  <2>5. schedule(s, signalled) = [PickNext(u) EXCEPT !.task[s.rq.curr].need_resched = FALSE]
    BY <2>1, <2>4, ZenonT(60) DEF schedule
  <2>6. QED
    BY <1>n, <2>3, <2>5
<1>15. QED
  BY <1>13, <1>14

-----------------------------------------------------------------------------
\* sys_sched_yield.  The queue of current is put in another order ...
PutList(s, a, i, q) == [s EXCEPT !.rq.queue[a][i] = q]

LEMMA PutListShape ==
    ASSUME NEW s \in Machines, NEW a \in Roles, NEW i \in Prios, NEW q \in Seq(Tasks)
    PROVE  LET r == PutList(s, a, i, q)
           IN  /\ r \in Machines /\ r.task = s.task /\ SameCounts(r.rq, s.rq)
               /\ r.rq.nr_active = s.rq.nr_active /\ r.rq.bitmap = s.rq.bitmap
               /\ \A b \in Roles : \A j \in Prios :
                     r.rq.queue[b][j] = IF b = a /\ j = i THEN q ELSE s.rq.queue[b][j]
<1>1. s.rq \in Rqs /\ s.rq.queue \in Queues
  BY MachineParts, RqParts
<1>u. PICK u : u = [s.rq.queue EXCEPT ![a][i] = q]
  OBVIOUS
<1>2. /\ u \in Queues
      /\ \A b \in Roles : \A j \in Prios :
            u[b][j] = IF b = a /\ j = i THEN q ELSE s.rq.queue[b][j]
  BY <1>1, <1>u DEF Queues
<1>Q. PICK Q : Q = [s.rq EXCEPT !.queue = u]
  OBVIOUS
<1>3. /\ Q \in Rqs /\ SameCounts(Q, s.rq) /\ Q.queue = u
      /\ Q.nr_active = s.rq.nr_active /\ Q.bitmap = s.rq.bitmap
  BY <1>1, <1>2, <1>Q DEF Rqs, SameCounts
<1>r. PICK r : r = PutQ(s, Q)
  OBVIOUS
<1>4. r \in Machines /\ r.task = s.task /\ r.rq = Q
  BY <1>3, <1>r, PutQueue
<1>5. PutList(s, a, i, q) = r
  BY <1>r, <1>Q, <1>u DEF PutList, PutQ
<1>6. QED
  BY <1>2, <1>3, <1>4, <1>5

LEMMA PutListKeeps ==
    ASSUME NEW s, SchedInv(s), NEW c \in Tasks, NEW a \in Roles, NEW i \in Prios,
           NEW q, q # << >>, Holds(q, Held(s, Tasks, a, i)), Held(s, Tasks, a, i) # {}
    PROVE  Keeps(PutList(s, a, i, q), s, c)
<1>1. s \in Machines /\ Consistent(s, Tasks) /\ Fit(s.task[c])
  BY DEF SchedInv, Sound, Fits
<1>2. q \in Seq(Tasks)
  BY DEF Holds
<1>r. PICK r : r = PutList(s, a, i, q)
  OBVIOUS
<1>3. /\ r \in Machines /\ r.task = s.task /\ SameCounts(r.rq, s.rq)
      /\ r.rq.nr_active = s.rq.nr_active /\ r.rq.bitmap = s.rq.bitmap
      /\ \A b \in Roles : \A j \in Prios :
            r.rq.queue[b][j] = IF b = a /\ j = i THEN q ELSE s.rq.queue[b][j]
  BY <1>1, <1>2, <1>r, PutListShape
<1>4. /\ \A b : HeldBy(r, Tasks, b) = HeldBy(s, Tasks, b)
      /\ \A b, j : Held(r, Tasks, b, j) = Held(s, Tasks, b, j)
  BY <1>3 DEF HeldBy, Held
<1>5. s.rq.queue[a][i] # << >>
  BY <1>1, HoldsSome DEF Consistent
<1>6. Consistent(r, Tasks)
  BY <1>1, <1>3, <1>4, <1>5 DEF Consistent
<1>7. QED
  BY <1>1, <1>3, <1>6, <1>r DEF Keeps, SameCounts

\* ... or, when it is alone on it, current moves to the next queue in use.
MoveTo(d, c, a, k, bits) ==
    [task |-> [d.task EXCEPT ![c].prio = k],
     rq |-> [d.rq EXCEPT !.queue[a][k] = AddSecond(@, c), !.bitmap[a] = bits]]

LEMMA NextQueueKeeps ==
    ASSUME NEW s, SchedInv(s), NEW c \in Tasks, NEW a \in Roles, NEW i \in Prios,
           s.task[c].array = a, s.task[c].prio = i, ~rt_task(s.task[c]),
           Held(s, Tasks, a, i) = {c},
           NEW k \in Prios, i <= k,
           NEW d, d = PutList(s, a, i, << >>)
    PROVE  Keeps(MoveTo(d, c, a, k, (s.rq.bitmap[a] \ {i}) \cup {k}), s, c)
<1>M. PICK M : M = (s.rq.bitmap[a] \ {i}) \cup {k}
  OBVIOUS
<1>r. PICK r : r = MoveTo(d, c, a, k, M)
  OBVIOUS
<1>1. /\ s \in Machines /\ Consistent(s, Tasks) /\ Fit(s.task[c])
      /\ s.task[c] \in Procs
  BY TaskOf DEF SchedInv, Sound, Fits
<1>2. /\ d \in Machines /\ d.task = s.task /\ SameCounts(d.rq, s.rq)
      /\ d.rq.nr_active = s.rq.nr_active /\ d.rq.bitmap = s.rq.bitmap
      /\ \A b \in Roles : \A j \in Prios :
            d.rq.queue[b][j] = IF b = a /\ j = i THEN << >> ELSE s.rq.queue[b][j]
  <2>0. << >> \in Seq(Tasks)
    OBVIOUS
  <2>e. PICK e \in Seq(Tasks) : e = << >>
    BY <2>0
  <2>1. d = PutList(s, a, i, e)
    BY <2>e
  <2>2. /\ d \in Machines /\ d.task = s.task /\ SameCounts(d.rq, s.rq)
        /\ d.rq.nr_active = s.rq.nr_active /\ d.rq.bitmap = s.rq.bitmap
        /\ \A b \in Roles : \A j \in Prios :
              d.rq.queue[b][j] = IF b = a /\ j = i THEN e ELSE s.rq.queue[b][j]
    BY <1>1, <2>1, PutListShape, SMTT(30)
  <2>3. QED
    BY <2>2, <2>e
<1>t. PICK t : t = [s.task[c] EXCEPT !.prio = k]
  OBVIOUS
<1>3. /\ t \in Procs /\ t.state = s.task[c].state /\ t.array = a /\ t.prio = k
      /\ t.policy = s.task[c].policy /\ t.alloc = s.task[c].alloc
      /\ t.time_slice = s.task[c].time_slice
  <2>1. k \in 0..MAX_PRIO
    BY PrioAssumption DEF Prios
  <2>2. QED
    BY <1>1, <1>t, <2>1, PutPrio
<1>T. PICK T : T = [s.task EXCEPT ![c] = t]
  OBVIOUS
<1>4. /\ T \in [Tasks \cup {Idle} -> Procs] /\ T[c] = t
      /\ \A p \in Tasks \cup {Idle} : p # c => T[p] = s.task[p]
  BY <1>1, <1>3, <1>T, MachineParts
<1>5. T = [d.task EXCEPT ![c].prio = k]
  BY <1>2, <1>t, <1>T
<1>6. Holds(d.rq.queue[a][k], Held(s, Tasks, a, k) \ {c})
  <2>1. CASE k = i
    BY <1>2, <2>1, HoldsNone
  <2>2. CASE k # i
    <3>1. c \notin Held(s, Tasks, a, k)
      BY <2>2 DEF Held
    <3>2. Held(s, Tasks, a, k) \ {c} = Held(s, Tasks, a, k)
      BY <3>1
    <3>3. d.rq.queue[a][k] = s.rq.queue[a][k]
      BY <1>2, <2>2
    <3>4. QED
      BY <1>1, <3>2, <3>3, ZenonT(60) DEF Consistent
  <2>3. QED
    BY <2>1, <2>2
<1>l. PICK l : l = AddSecond(d.rq.queue[a][k], c)
  OBVIOUS
<1>7. Holds(l, (Held(s, Tasks, a, k) \ {c}) \cup {c}) /\ l # << >> /\ l \in Seq(Tasks)
  <2>1. Holds(l, (Held(s, Tasks, a, k) \ {c}) \cup {c}) /\ l # << >>
    BY <1>6, <1>l, HoldsSecond
  <2>2. QED
    BY <2>1 DEF Holds
<1>8. d.rq \in Rqs /\ d.rq.queue \in Queues /\ d.rq.bitmap \in Bitmaps
      /\ s.rq.bitmap \in Bitmaps
  BY <1>1, <1>2, MachineParts, RqParts
<1>u. PICK u : u = [d.rq.queue EXCEPT ![a][k] = l]
  OBVIOUS
<1>9. /\ u \in Queues
      /\ \A b \in Roles : \A j \in Prios :
            u[b][j] = IF b = a /\ j = k THEN l ELSE d.rq.queue[b][j]
  BY <1>7, <1>8, <1>u DEF Queues
<1>m. PICK m : m = [d.rq.bitmap EXCEPT ![a] = M]
  OBVIOUS
<1>10. /\ m \in Bitmaps
       /\ \A b \in Roles : m[b] = IF b = a THEN M ELSE s.rq.bitmap[b]
  <2>1. M \in SUBSET Prios
    BY <1>8, <1>M DEF Bitmaps
  <2>2. QED
    BY <1>2, <1>8, <1>m, <2>1 DEF Bitmaps
<1>Q. PICK Q : Q = [d.rq EXCEPT !.queue = u, !.bitmap = m]
  OBVIOUS
<1>11. /\ Q \in Rqs /\ Q.queue = u /\ Q.bitmap = m /\ Q.nr_active = d.rq.nr_active
       /\ SameCounts(Q, d.rq)
  BY <1>8, <1>9, <1>10, <1>Q DEF Rqs, SameCounts
<1>12. r = [task |-> T, rq |-> Q]
  <2>1. u = [d.rq.queue EXCEPT ![a][k] = AddSecond(@, c)]
    BY <1>u, <1>l
  <2>2. Q = [d.rq EXCEPT !.queue[a][k] = AddSecond(@, c),
                         !.bitmap[a] = M]
    BY <1>Q, <1>m, <2>1
  <2>3. QED
    BY <1>5, <1>r, <2>2 DEF MoveTo
<1>13. r \in Machines /\ r.task = T /\ r.rq = Q
  BY <1>4, <1>11, <1>12 DEF Machines
<1>14. \A b : HeldBy(r, Tasks, b) = HeldBy(s, Tasks, b)
  BY <1>3, <1>4, <1>13 DEF HeldBy
<1>15. \A b \in Roles : \A j \in Prios :
          Held(r, Tasks, b, j) =
             IF b = a /\ j = k THEN (Held(s, Tasks, a, k) \ {c}) \cup {c}
             ELSE IF b = a /\ j = i THEN {} ELSE Held(s, Tasks, b, j)
  <2>1. \A p \in Tasks : /\ r.task[p].array = s.task[p].array
                         /\ r.task[p].prio = IF p = c THEN k ELSE s.task[p].prio
    BY <1>3, <1>4, <1>13
  <2>2. \A p \in Tasks : s.task[p].array = a /\ s.task[p].prio = i => p = c
    BY DEF Held
  <2>3. QED
    BY <2>1, <2>2 DEF Held
<1>16. Consistent(r, Tasks)
  <2>1. ASSUME NEW b \in Roles
        PROVE  r.rq.nr_active[b] = Cardinality(HeldBy(r, Tasks, b))
    BY <1>1, <1>2, <1>11, <1>13, <1>14 DEF Consistent
  <2>2. ASSUME NEW b \in Roles, NEW j \in Prios
        PROVE  /\ Holds(r.rq.queue[b][j], Held(r, Tasks, b, j))
               /\ j \in r.rq.bitmap[b] <=> r.rq.queue[b][j] # << >>
    <3>0. r.rq.queue[b][j] = u[b][j] /\ r.rq.bitmap[b] = m[b]
      BY <1>11, <1>13
    <3>1. CASE b = a /\ j = k
      BY <1>7, <1>9, <1>10, <1>15, <1>M, <3>0, <3>1
    <3>2. CASE b = a /\ j = i /\ j # k
      <4>1. r.rq.queue[b][j] = << >> /\ Held(r, Tasks, b, j) = {}
        BY <1>2, <1>9, <1>15, <3>0, <3>2
      <4>2. QED
        BY <1>10, <1>M, <3>0, <3>2, <4>1, HoldsNone
    <3>3. CASE ~(b = a /\ j = k) /\ ~(b = a /\ j = i)
      <4>1. r.rq.queue[b][j] = s.rq.queue[b][j] /\ Held(r, Tasks, b, j) = Held(s, Tasks, b, j)
        BY <1>2, <1>9, <1>15, <3>0, <3>3
      <4>2. j \in r.rq.bitmap[b] <=> j \in s.rq.bitmap[b]
        BY <1>10, <1>M, <3>0, <3>3
      <4>3. QED
        BY <1>1, <4>1, <4>2 DEF Consistent
    <3>4. QED
      BY <3>1, <3>2, <3>3
  <2>3. QED
    BY <2>1, <2>2 DEF Consistent
<1>17. Fit(t)
  <2>1. ~rt_task(t)
    BY <1>3, PrioAssumption DEF rt_task, Prios
  <2>2. QED
    BY <1>1, <1>3, <2>1 DEF Fit
<1>18. /\ r.rq.curr = s.rq.curr /\ r.rq.nr_running = s.rq.nr_running
       /\ r.rq.nr_uninterruptible = s.rq.nr_uninterruptible
  BY <1>2, <1>11, <1>13 DEF SameCounts
<1>19. Keeps(r, s, c)
  BY <1>3, <1>4, <1>13, <1>16, <1>17, <1>18 DEF Keeps
<1>20. QED
  BY <1>19, <1>r, <1>M

LEMMA RequeueInv ==
    ASSUME NEW s, SchedInv(s), NEW c \in Tasks, c = s.rq.curr
    PROVE  SchedInv(Requeue(s))
<1>1. s \in Machines /\ Consistent(s, Tasks) /\ Fit(s.task[c])
  BY DEF SchedInv, Sound, Fits
<1>t. PICK t \in Procs : t = s.task[c]
  BY <1>1, TaskOf
<1>a. PICK a \in Roles : a = t.array
  <2>1. t.array # NULL
    BY <1>t DEF SchedInv, Placed
  <2>2. t.array \in Roles
    BY <2>1 DEF Procs
  <2>3. QED
    BY <2>2
<1>i. PICK i \in Prios : i = t.prio
  BY <1>1, <1>t DEF Fit
<1>H. PICK H : H = Held(s, Tasks, a, i)
  BY SMTT(30)
<1>2. Holds(s.rq.queue[a][i], H) /\ c \in H /\ H # {}
  BY <1>1, <1>a, <1>i, <1>t, <1>H DEF Consistent, Held
<1>q. PICK q : q = list_del(s.rq.queue[a][i], c)
  OBVIOUS
<1>3. Holds(q, H \ {c}) /\ c \notin H \ {c} /\ (H \ {c}) \cup {c} = H
  BY <1>2, <1>q, HoldsDel
<1>x. PICK x : x = sched_find_first_bit(s.rq.bitmap[a] \ {i})
  OBVIOUS
<1>k. PICK k : k = IF x = MAX_PRIO \/ x <= i THEN i ELSE x
  OBVIOUS
<1>d. PICK d : d = PutList(s, a, i, << >>)
  BY SMTT(30)
<1>4. Requeue(s) = IF rt_task(t) THEN PutList(s, a, i, Append(q, c))
                   ELSE IF q # << >> THEN PutList(s, a, i, AddSecond(q, c))
                   ELSE MoveTo(d, c, a, k, (s.rq.bitmap[a] \ {i}) \cup {k})
  <2>1. /\ t = s.task[s.rq.curr] /\ a = s.task[s.rq.curr].array
        /\ i = s.task[s.rq.curr].prio
    BY <1>t, <1>a, <1>i, SMTT(30)
  <2>2. q = list_del(s.rq.queue[s.task[s.rq.curr].array][s.task[s.rq.curr].prio], s.rq.curr)
    BY <1>q, <2>1
  <2>3. QED
    BY <1>x, <1>k, <1>d, <2>1, <2>2 DEF Requeue, PutList, MoveTo
<1>5. CASE rt_task(t)
  <2>1. Holds(Append(q, c), H) /\ Append(q, c) # << >>
    BY <1>3, HoldsAppend
  <2>2. Keeps(PutList(s, a, i, Append(q, c)), s, c)
    BY <1>2, <1>H, <2>1, PutListKeeps
  <2>3. QED
    BY <1>4, <1>5, <2>2, KeepsInv
<1>6. CASE ~rt_task(t) /\ q # << >>
  <2>1. Holds(AddSecond(q, c), H) /\ AddSecond(q, c) # << >>
    <3>1. Holds(AddSecond(q, c), (H \ {c}) \cup {c}) /\ AddSecond(q, c) # << >>
      <4>1. Holds(q, H \ {c}) /\ c \notin H \ {c}
        BY <1>3
      <4>2. QED
        BY <4>1, HoldsSecond
    <3>2. (H \ {c}) \cup {c} = H
      BY <1>3
    <3>3. QED
      BY <3>1, <3>2
  <2>2. Keeps(PutList(s, a, i, AddSecond(q, c)), s, c)
    BY <1>2, <1>H, <2>1, PutListKeeps
  <2>3. QED
    BY <1>4, <1>6, <2>2, KeepsInv
<1>7. CASE ~rt_task(t) /\ q = << >>
  <2>1. H = {c}
    <3>1. H \ {c} = {}
      BY <1>3, <1>7, HoldsSome
    <3>2. QED
      BY <1>2, <3>1
  <2>2. k \in Prios /\ i <= k
    <3>1. s.rq.bitmap[a] \ {i} \in SUBSET Prios
      <4>1. s.rq.bitmap \in Bitmaps
        BY <1>1, MachineParts, RqParts
      <4>2. QED
        BY <4>1 DEF Bitmaps
    <3>2. x = MAX_PRIO \/ x \in Prios
      BY <1>x, <3>1, FirstBit, SMTT(30)
    <3>3. QED
      BY <1>i, <1>k, <3>2, PrioAssumption DEF Prios
  <2>3. Keeps(MoveTo(d, c, a, k, (s.rq.bitmap[a] \ {i}) \cup {k}), s, c)
    BY <1>7, <1>a, <1>d, <1>i, <1>t, <1>H, <2>1, <2>2, NextQueueKeeps
  <2>4. QED
    BY <1>4, <1>7, <2>3, KeepsInv
<1>8. QED
  BY <1>5, <1>6, <1>7

LEMMA YieldInv ==
    ASSUME NEW s, SchedInv(s), NEW c \in Tasks, c = s.rq.curr
    PROVE  /\ SchedInv(sys_sched_yield(s))
           /\ Pending(s) => Pending(sys_sched_yield(s))
<1>1. CASE c \in Restricted
  BY <1>1 DEF sys_sched_yield
<1>2. CASE c \notin Restricted
  <2>1. sys_sched_yield(s) = schedule(Requeue(s), FALSE)
    BY <1>2 DEF sys_sched_yield
  <2>2. QED
    BY <2>1, RequeueInv, ScheduleInv DEF Pending
<1>3. QED
  BY <1>1, <1>2

-----------------------------------------------------------------------------
\* Changes of priority.
LEMMA ReschedInv ==
    ASSUME NEW s, SchedInv(s), NEW p \in Tasks \cup {Idle}
    PROVE  /\ SchedInv(resched_task(s, p))
           /\ resched_task(s, p).task[p].need_resched = TRUE
           /\ resched_task(s, p).rq = s.rq
<1>1. s \in Machines /\ Sound(s) /\ Fits(s)
  BY DEF SchedInv, Sound
<1>t. PICK t \in Procs : t = s.task[p]
  BY <1>1, TaskOf
<1>u. PICK u : u = [t EXCEPT !.need_resched = TRUE]
  OBVIOUS
<1>2. u \in Procs /\ Alike(u, t) /\ u.time_slice = t.time_slice /\ u.need_resched = TRUE
  BY <1>u, PutResched
<1>3. Neutral(Put(s, p, u), s)
  <2>1. u.time_slice >= 1 \/ p = Idle
    BY <1>1, <1>2, <1>t DEF Fits, Fit
  <2>2. QED
    BY <1>1, <1>2, <1>t, <2>1, PutNeutral
<1>4. SchedInv(Put(s, p, u))
  BY <1>1, <1>3, NeutralKeeps
<1>5. resched_task(s, p) = Put(s, p, u)
  BY <1>t, <1>u DEF resched_task, Put
<1>6. Put(s, p, u).task[p] = u /\ Put(s, p, u).rq = s.rq
  BY <1>1, <1>2, PutTask
<1>7. QED
  BY <1>2, <1>4, <1>5, <1>6

LEMMA PutNice ==
    ASSUME NEW t \in Procs, NEW x \in MAX_RT_PRIO..(MAX_PRIO - 1), x \in 0..MAX_PRIO
    PROVE  LET u == [t EXCEPT !.static_prio = x, !.prio = x]
           IN  /\ u \in Procs /\ u.state = t.state /\ u.array = t.array /\ u.prio = x
               /\ u.policy = t.policy /\ u.alloc = t.alloc
               /\ u.time_slice = t.time_slice
BY DEF Procs

LEMMA ReniceInv ==
    ASSUME NEW s, SchedInv(s), NEW p \in Tasks, ~rt_task(s.task[p]), NEW nice,
           NICE_TO_PRIO(nice) \in MAX_RT_PRIO..(MAX_PRIO - 1)
    PROVE  SchedInv(Renice(s, p, nice))
<1>x. PICK x \in MAX_RT_PRIO..(MAX_PRIO - 1) : x = NICE_TO_PRIO(nice)
  OBVIOUS
<1>1. /\ s \in Machines /\ Consistent(s, Tasks) /\ Fit(s.task[p])
      /\ s.rq.curr \in Tasks \cup {Idle}
  BY MachineParts, RqParts DEF SchedInv, Sound, Fits
<1>t. PICK t \in Procs : t = s.task[p]
  BY <1>1, TaskOf
<1>v. PICK v : v = [t EXCEPT !.static_prio = x, !.prio = x]
  OBVIOUS
<1>2. /\ v \in Procs /\ v.state = t.state /\ v.array = t.array /\ v.prio = x
      /\ v.policy = t.policy /\ v.alloc = t.alloc
      /\ v.time_slice = t.time_slice
  <2>1. x \in MAX_RT_PRIO..(MAX_PRIO - 1) /\ x \in 0..MAX_PRIO
    BY <1>x, PrioAssumption
  <2>2. QED
    BY <1>v, <2>1, PutNice
<1>3. Fit(v)
  <2>1. v.prio \in Prios /\ ~rt_task(v)
    BY <1>2, <1>x, PrioAssumption DEF Prios, rt_task
  <2>2. QED
    BY <1>1, <1>2, <1>t, <2>1 DEF Fit
<1>r. PICK r : r = IF t.array = NULL THEN s ELSE dequeue_task(s, p, t.array)
  OBVIOUS
<1>4. r \in Machines /\ r.task = s.task /\ SameCounts(r.rq, s.rq) /\ Consistent(r, Tasks \ {p})
  <2>1. CASE t.array = NULL
    <3>1. Consistent(s, Tasks \ {p})
      BY <1>1, <1>t, <2>1, ConsistentOut
    <3>2. QED
      BY <1>1, <1>r, <2>1, <3>1 DEF SameCounts
  <2>2. CASE t.array # NULL
    <3>1. t.array \in Roles
      BY <2>2 DEF Procs
    <3>2. r = dequeue_task(s, p, t.array)
      BY <1>r, <2>2
    <3>3. QED
      BY <1>1, <1>t, <3>1, <3>2, DequeueConsistent DEF Fit
  <2>3. QED
    BY <2>1, <2>2
<1>u. PICK u : u = Put(r, p, v)
  OBVIOUS
<1>5. /\ u \in Machines /\ u.rq = r.rq /\ u.task[p] = v
      /\ \A q \in Tasks \cup {Idle} : q # p => u.task[q] = s.task[q]
  BY <1>2, <1>4, <1>u, PutTask
<1>6. Consistent(u, Tasks \ {p})
  BY <1>2, <1>4, <1>u, PutConsistent
<1>c. /\ u.rq.curr = s.rq.curr /\ u.rq.nr_running = s.rq.nr_running
      /\ u.rq.nr_uninterruptible = s.rq.nr_uninterruptible
  BY <1>4, <1>5 DEF SameCounts
<1>w. PICK w : w = enqueue_task(u, p, t.array)
  OBVIOUS
<1>7. Renice(s, p, nice) = IF t.array = NULL THEN u
                           ELSE IF x < w.task[p].static_prio \/ p = s.rq.curr
                           THEN resched_task(w, s.rq.curr) ELSE w
  <2>1. u = [r EXCEPT !.task[p] = [@ EXCEPT !.static_prio = x, !.prio = x]]
    BY <1>t, <1>u, <1>v, <1>4 DEF Put
  <2>2. QED
    BY <1>t, <1>r, <1>w, <1>x, <2>1 DEF Renice
<1>8. CASE t.array = NULL
  <2>1. Consistent(u, Tasks)
    BY <1>2, <1>5, <1>6, <1>8, ConsistentOut
  <2>2. Keeps(u, s, p)
    BY <1>2, <1>3, <1>5, <1>c, <1>t, <2>1 DEF Keeps
  <2>3. QED
    BY <1>7, <1>8, <2>2, KeepsInv
<1>9. CASE t.array # NULL
  <2>1. t.array \in Roles
    BY <1>9 DEF Procs
  <2>2. Keeps(w, s, p)
    BY <1>1, <1>2, <1>3, <1>5, <1>6, <1>9, <1>c, <1>t, <1>w, <2>1, PutBack
  <2>3. SchedInv(w)
    BY <2>2, KeepsInv
  <2>4. QED
    BY <1>1, <1>7, <1>9, <2>3, ReschedInv
<1>10. QED
  BY <1>8, <1>9

LEMMA PutStaticPrio ==
    ASSUME NEW t \in Procs, NEW x \in MAX_RT_PRIO..(MAX_PRIO - 1)
    PROVE  LET u == [t EXCEPT !.static_prio = x]
           IN  u \in Procs /\ Alike(u, t) /\ u.time_slice = t.time_slice
BY DEF Procs, Alike

LEMMA SetNiceInv ==
    ASSUME NEW s, SchedInv(s), NEW p \in Tasks, NEW nice
    PROVE  SchedInv(set_user_nice(s, p, nice))
<1>x. PICK x : x = NICE_TO_PRIO(nice)
  OBVIOUS
<1>1. CASE TASK_NICE(s.task[p]) = nice \/ x \notin MAX_RT_PRIO..(MAX_PRIO - 1)
  <2>1. set_user_nice(s, p, nice) = s
    BY <1>1, <1>x DEF set_user_nice
  <2>2. QED
    BY <2>1
<1>2. CASE TASK_NICE(s.task[p]) # nice /\ x \in MAX_RT_PRIO..(MAX_PRIO - 1)
  <2>1. CASE rt_task(s.task[p])
    <3>1. s \in Machines /\ Sound(s) /\ Fits(s)
      BY DEF SchedInv, Sound
    <3>t. PICK t \in Procs : t = s.task[p]
      BY <3>1, TaskOf
    <3>u. PICK u : u = [t EXCEPT !.static_prio = x]
      OBVIOUS
    <3>2. u \in Procs /\ Alike(u, t) /\ u.time_slice = t.time_slice
      BY <1>2, <3>u, PutStaticPrio
    <3>3. u.time_slice >= 1
      BY <3>1, <3>2, <3>t DEF Fits, Fit
    <3>4. Neutral(Put(s, p, u), s)
      BY <3>1, <3>2, <3>3, <3>t, PutNeutral
    <3>5. set_user_nice(s, p, nice) = Put(s, p, u)
      <4>1. set_user_nice(s, p, nice) = [s EXCEPT !.task[p].static_prio = x]
        BY <1>2, <1>x, <2>1 DEF set_user_nice
      <4>2. QED
        BY <3>t, <3>u, <4>1 DEF Put
    <3>6. QED
      BY <3>1, <3>4, <3>5, NeutralKeeps
  <2>2. CASE ~rt_task(s.task[p])
    <3>1. set_user_nice(s, p, nice) = Renice(s, p, nice)
      BY <1>2, <1>x, <2>2 DEF set_user_nice
    <3>2. QED
      BY <1>2, <1>x, <2>2, <3>1, ReniceInv
  <2>3. QED
    BY <2>1, <2>2
<1>3. QED
  BY <1>1, <1>2

\* Only a runnable task is on a queue when another one calls setscheduler.
LEMMA SetSchedulerInv ==
    ASSUME NEW s, SchedInv(s), NEW p \in Tasks, NEW policy \in Policies,
           NEW rt \in 0..(MAX_RT_PRIO - 1), policy # "OTHER" => rt # 0,
           s.task[s.rq.curr].state = "RUNNING"
    PROVE  SchedInv(setscheduler(s, p, policy, rt))
<1>1. s \in Machines /\ Consistent(s, Tasks) /\ Fit(s.task[p])
  BY DEF SchedInv, Sound, Fits
<1>t. PICK t \in Procs : t = s.task[p]
  BY <1>1, TaskOf
<1>r. PICK r : r = IF t.array = NULL THEN s ELSE deactivate_task(s, p)
  OBVIOUS
<1>2. /\ r \in Machines /\ Consistent(r, Tasks) /\ r.rq.curr = s.rq.curr
      /\ r.rq.nr_running = s.rq.nr_running - (IF t.array = NULL THEN 0 ELSE 1)
      /\ r.rq.nr_uninterruptible = s.rq.nr_uninterruptible
      /\ \A q \in Tasks \cup {Idle} : q # p => r.task[q] = s.task[q]
      /\ r.task[p].array = NULL /\ Kin(r.task[p], t)
  <2>1. CASE t.array = NULL
    <3>1. s.rq.nr_running \in Int
      BY <1>1, MachineParts, RqParts
    <3>2. QED
      BY <1>1, <1>r, <1>t, <2>1, <3>1 DEF Kin
  <2>2. CASE t.array # NULL
    <3>1. t.array \in Roles
      BY <2>2 DEF Procs
    <3>2. Deactivated(r, s, p)
      BY <1>1, <1>r, <1>t, <2>2, <3>1, DeactivateTask DEF Fit
    <3>3. t.state = "RUNNING"
      BY <1>t, <2>2 DEF SchedInv, Placed
    <3>4. QED
      BY <1>t, <2>2, <3>2, <3>3 DEF Deactivated
  <2>3. QED
    BY <2>1, <2>2
<1>v. PICK v \in Procs : v = r.task[p]
  BY <1>2, TaskOf
<1>x. PICK x : x = IF policy # "OTHER" THEN MAX_RT_PRIO - 1 - rt ELSE v.static_prio
  OBVIOUS
<1>3. /\ x \in Prios /\ x \in 0..MAX_PRIO
      /\ (policy = "OTHER") <=> ~(x < MAX_RT_PRIO)
  <2>1. v.static_prio \in MAX_RT_PRIO..(MAX_PRIO - 1)
    BY DEF Procs
  <2>2. QED
    BY <1>x, <2>1, PrioAssumption DEF Prios
<1>w. PICK w : w = [v EXCEPT !.policy = policy, !.prio = x]
  OBVIOUS
<1>4. /\ w \in Procs /\ w.state = v.state /\ w.array = v.array /\ w.prio = x
      /\ w.policy = policy /\ w.alloc = v.alloc /\ w.time_slice = v.time_slice
  <2>1. policy \in Classes
    BY CallsAssumption DEF Classes
  <2>2. v \in Procs /\ x \in 0..MAX_PRIO
    BY <1>3, <1>v
  <2>3. QED
    BY <1>w, <2>1, <2>2 DEF Procs
<1>5. Classed(w)
  BY <1>3, <1>4 DEF Classed, rt_task
<1>u. PICK u : u = Put(r, p, w)
  OBVIOUS
<1>6. /\ u \in Machines /\ u.rq = r.rq /\ u.task[p] = w
      /\ \A q \in Tasks \cup {Idle} : q # p => u.task[q] = s.task[q]
  BY <1>2, <1>4, <1>u, PutTask
<1>7. Consistent(u, Tasks \ {p})
  <2>1. Consistent(r, Tasks \ {p})
    BY <1>2, ConsistentOut
  <2>2. QED
    BY <1>2, <1>4, <1>u, <2>1, PutConsistent
<1>8. setscheduler(s, p, policy, rt) = IF t.array = NULL THEN u ELSE activate_task(u, p)
  <2>1. u = [r EXCEPT !.task[p] = [@ EXCEPT
                 !.policy = policy,
                 !.prio = IF policy # "OTHER" THEN MAX_RT_PRIO - 1 - rt
                          ELSE r.task[p].static_prio]]
    BY <1>u, <1>v, <1>w, <1>x DEF Put
  <2>2. QED
    BY <1>t, <1>r, <2>1 DEF setscheduler
<1>9. w.time_slice >= 1 /\ w.state = t.state /\ w.alloc = t.alloc
  BY <1>1, <1>2, <1>4, <1>t, <1>v DEF Kin, Fit
<1>10. CASE t.array = NULL
  <2>1. Consistent(u, Tasks)
    BY <1>2, <1>4, <1>6, <1>7, <1>v, ConsistentOut
  <2>2. Fit(w)
    BY <1>5, <1>9 DEF Fit, Classed
  <2>3. s.rq.nr_running \in Int
    BY <1>1, MachineParts, RqParts
  <2>4. Keeps(u, s, p)
    BY <1>2, <1>4, <1>6, <1>9, <1>10, <1>t, <1>v, <2>1, <2>2, <2>3 DEF Keeps
  <2>5. QED
    BY <1>8, <1>10, <2>4, KeepsInv
<1>11. CASE t.array # NULL
  <2>y. PICK y : y = activate_task(u, p)
    OBVIOUS
  <2>1. Activated(y, u, p)
    BY <1>5, <1>6, <1>7, <2>y, ActivateTask
  <2>2. s.rq.nr_running \in Int
    BY <1>1, MachineParts, RqParts
  <2>3. /\ y.rq.curr = s.rq.curr /\ y.rq.nr_running = s.rq.nr_running
        /\ y.rq.nr_uninterruptible = s.rq.nr_uninterruptible
    BY <1>2, <1>6, <1>11, <2>1, <2>2 DEF Activated
  <2>4. /\ y \in Machines /\ Consistent(y, Tasks)
        /\ \A q \in Tasks \cup {Idle} : q # p => y.task[q] = s.task[q]
        /\ y.task[p].state = t.state /\ y.task[p].alloc = t.alloc
        /\ y.task[p].array = "active" /\ Fit(y.task[p])
    BY <1>6, <1>9, <2>1 DEF Activated, Kin, Fit, Classed
  <2>5. Keeps(y, s, p)
    BY <1>11, <1>t, <2>3, <2>4, TasksAssumption DEF Keeps
  <2>6. QED
    BY <1>8, <1>11, <2>5, <2>y, KeepsInv
<1>12. QED
  BY <1>10, <1>11

-----------------------------------------------------------------------------
\* A task changes its state.
PutSt(s, p, x) == [s EXCEPT !.task[p].state = x]

LEMMA StateSound ==
    ASSUME NEW s, Sound(s), NEW p \in Tasks, NEW x \in States
    PROVE  LET r == PutSt(s, p, x)
           IN  /\ Sound(r) /\ r.rq = s.rq
               /\ \A q \in Tasks \cup {Idle} : q # p => r.task[q] = s.task[q]
               /\ r.task[p].state = x /\ r.task[p].array = s.task[p].array
               /\ r.task[p].prio = s.task[p].prio
               /\ r.task[p].need_resched = s.task[p].need_resched
<1>1. s \in Machines /\ Consistent(s, Tasks) /\ Fits(s)
  BY DEF Sound
<1>t. PICK t \in Procs : t = s.task[p]
  BY <1>1, TaskOf
<1>u. PICK u : u = [t EXCEPT !.state = x]
  OBVIOUS
<1>2. /\ u \in Procs /\ u.state = x /\ u.array = t.array /\ u.prio = t.prio
      /\ u.policy = t.policy /\ u.time_slice = t.time_slice
      /\ u.need_resched = t.need_resched
  BY <1>u, PutState
<1>r. PICK r : r = Put(s, p, u)
  OBVIOUS
<1>3. /\ r \in Machines /\ r.rq = s.rq /\ r.task[p] = u
      /\ \A q \in Tasks \cup {Idle} : q # p => r.task[q] = s.task[q]
  BY <1>1, <1>2, <1>r, PutTask
<1>4. Consistent(r, Tasks)
  BY <1>1, <1>2, <1>r, <1>t, PutConsistent
<1>5. Fit(u)
  BY <1>1, <1>2, <1>t DEF Fits, Fit, rt_task
<1>6. Fits(r)
  BY <1>1, <1>3, <1>5, TasksAssumption DEF Fits
<1>7. PutSt(s, p, x) = r
  BY <1>r, <1>u, <1>t DEF Put, PutSt
<1>8. QED
  BY <1>2, <1>3, <1>4, <1>6, <1>7, <1>t DEF Sound

\* Current may be in any state.
LEMMA CurrState ==
    ASSUME NEW s, SchedInv(s), NEW c \in Tasks, c = s.rq.curr, NEW x \in States
    PROVE  /\ SchedInv(PutSt(s, c, x))
           /\ Pending(s) => Pending(PutSt(s, c, x))
<1>r. PICK r : r = PutSt(s, c, x)
  OBVIOUS
<1>1. /\ Sound(r) /\ r.rq = s.rq
      /\ \A q \in Tasks \cup {Idle} : q # c => r.task[q] = s.task[q]
      /\ r.task[c].array = s.task[c].array /\ r.task[c].prio = s.task[c].prio
      /\ r.task[c].need_resched = s.task[c].need_resched
  BY <1>r, StateSound DEF SchedInv
<1>2. s.task[c].array # NULL
  BY DEF SchedInv, Placed
<1>3. OnQueue(r) = OnQueue(s) /\ Uninterruptible(r) = Uninterruptible(s)
  BY <1>1, <1>2 DEF OnQueue, Uninterruptible
<1>4. Counted(r)
  BY <1>1, <1>3 DEF SchedInv, Counted
<1>5. Placed(r)
  BY <1>1, <1>2 DEF SchedInv, Placed
<1>6. Pending(s) => Pending(r)
  BY <1>1 DEF Pending, NoBetter
<1>7. QED
  BY <1>1, <1>4, <1>5, <1>6, <1>r DEF SchedInv

LEMMA WakeUpInv ==
    ASSUME NEW s, SchedInv(s), NEW p \in Tasks, s.task[p].state \in Sleeping
    PROVE  /\ SchedInv(try_to_wake_up(s, p))
           /\ Pending(s) => Pending(try_to_wake_up(s, p))
<1>1. s \in Machines /\ Consistent(s, Tasks) /\ Fits(s) /\ Fit(s.task[p])
  BY DEF SchedInv, Sound, Fits
<1>c. PICK c \in Tasks \cup {Idle} : c = s.rq.curr
  BY <1>1, MachineParts, RqParts
<1>x. "RUNNING" \in States
  BY DEF States
<1>2. CASE s.task[p].array # NULL
  <2>1. p = s.rq.curr
    BY <1>2 DEF SchedInv, Placed, Sleeping
  <2>2. try_to_wake_up(s, p) = PutSt(s, p, "RUNNING")
    BY <1>2 DEF try_to_wake_up, PutSt
  <2>3. QED
    BY <1>x, <2>1, <2>2, CurrState
<1>3. CASE s.task[p].array = NULL
  <2>1. p # c
    BY <1>3, <1>c DEF SchedInv, Placed
  <2>n. PICK n \in Int : n = IF s.task[p].state = "UNINTERRUPTIBLE"
                             THEN s.rq.nr_uninterruptible - 1
                             ELSE s.rq.nr_uninterruptible
    BY <1>1, MachineParts, RqParts
  <2>Q. PICK Q : Q = [s.rq EXCEPT !.nr_uninterruptible = n]
    OBVIOUS
  <2>2. /\ Q \in Rqs /\ SameArrays(Q, s.rq) /\ Q.curr = c
        /\ Q.nr_running = s.rq.nr_running /\ Q.nr_uninterruptible = n
    BY <1>1, <1>c, <2>Q, <2>n, MachineParts, RqUninterruptible
  <2>r. PICK r : r = PutQ(s, Q)
    OBVIOUS
  <2>3. r \in Machines /\ r.task = s.task /\ r.rq = Q /\ Consistent(r, Tasks \ {p})
    <3>1. Consistent(s, Tasks \ {p})
      BY <1>1, <1>3, ConsistentOut
    <3>2. QED
      BY <1>1, <2>2, <2>r, <3>1, PutQueue
  <2>y. PICK y : y = activate_task(r, p)
    OBVIOUS
  <2>4. Activated(y, r, p)
    <3>1. Classed(r.task[p])
      BY <1>1, <2>3 DEF Classed, Fit
    <3>2. QED
      BY <2>3, <2>y, <3>1, ActivateTask
  <2>5. /\ y \in Machines /\ Consistent(y, Tasks) /\ y.rq.curr = c
        /\ y.rq.nr_running = s.rq.nr_running + 1 /\ y.rq.nr_uninterruptible = n
        /\ \A q \in Tasks \cup {Idle} : q # p => y.task[q] = s.task[q]
        /\ y.task[p].array = "active" /\ Fit(y.task[p])
    BY <1>1, <2>2, <2>3, <2>4 DEF Activated, Kin, Fit, Classed
  <2>6. Sound(y)
    BY <1>1, <2>5, TasksAssumption DEF Sound, Fits
  <2>z. PICK z : z = PreemptCurr(y, p)
    OBVIOUS
  <2>7. /\ Sound(z) /\ z.rq = y.rq
        /\ \A q \in Tasks \cup {Idle} : Alike(z.task[q], y.task[q])
        /\ y.task[p].prio < y.task[c].prio => z.task[c].need_resched = TRUE
        /\ ~(y.task[p].prio < y.task[c].prio) => z = y
    <3>1. CASE y.task[p].prio < y.task[c].prio
      <4>1. z = resched_task(y, c)
        BY <2>5, <2>z, <3>1 DEF PreemptCurr, Current
      <4>t. PICK t \in Procs : t = y.task[c]
        BY <1>c, <2>5, TaskOf
      <4>u. PICK u : u = [t EXCEPT !.need_resched = TRUE]
        OBVIOUS
      <4>2. u \in Procs /\ Alike(u, t) /\ u.time_slice = t.time_slice /\ u.need_resched = TRUE
        BY <4>u, PutResched
      <4>3. z = Put(y, c, u)
        BY <4>1, <4>t, <4>u DEF resched_task, Put
      <4>4. u.time_slice >= 1 \/ c = Idle
        BY <1>c, <2>6, <4>2, <4>t DEF Sound, Fits, Fit
      <4>5. Neutral(z, y)
        BY <1>c, <2>5, <2>6, <4>2, <4>3, <4>4, <4>t, PutNeutral DEF Sound
      <4>6. Sound(z)
        BY <2>6, <4>5, NeutralKeeps
      <4>a. y \in Machines /\ c \in Tasks \cup {Idle} /\ u \in Procs
        BY <1>c, <2>5, <4>2
      <4>7. z.rq = y.rq /\ z.task[c] = u
        BY <4>a, <4>3, PutTask, ZenonT(60)
      <4>8. QED
        BY <3>1, <4>2, <4>5, <4>6, <4>7 DEF Neutral
    <3>2. CASE ~(y.task[p].prio < y.task[c].prio)
      <4>1. z = y
        BY <2>5, <2>z, <3>2 DEF PreemptCurr, Current
      <4>2. QED
        BY <2>6, <3>2, <4>1 DEF Alike
    <3>3. QED
      BY <3>1, <3>2
  <2>f. PICK f : f = PutSt(z, p, "RUNNING")
    OBVIOUS
  <2>8. /\ Sound(f) /\ f.rq = z.rq
        /\ \A q \in Tasks \cup {Idle} : q # p => f.task[q] = z.task[q]
        /\ f.task[p].state = "RUNNING" /\ f.task[p].array = z.task[p].array
        /\ f.task[p].prio = z.task[p].prio
    BY <1>x, <2>7, <2>f, StateSound
  <2>9. try_to_wake_up(s, p) = f
    <3>1. r = [s EXCEPT !.rq.nr_uninterruptible =
                  IF s.task[p].state = "UNINTERRUPTIBLE" THEN @ - 1 ELSE @]
      BY <2>r, <2>Q, <2>n DEF PutQ
    <3>2. QED
      BY <1>3, <2>y, <2>z, <2>f, <3>1 DEF try_to_wake_up, PutSt
  <2>10. \A q \in Tasks : q # p => /\ f.task[q].array = s.task[q].array
                                   /\ f.task[q].state = s.task[q].state
    BY <2>5, <2>7, <2>8 DEF Alike
  <2>11. f.task[p].array = "active" /\ "active" # NULL
    BY <2>5, <2>7, <2>8, TasksAssumption DEF Alike
  <2>12. OnQueue(f) = OnQueue(s) \cup {p} /\ p \in Tasks \ OnQueue(s)
         /\ OnQueue(s) \in SUBSET Tasks
    BY <1>3, <2>10, <2>11 DEF OnQueue
  <2>13. f.rq.nr_running = Cardinality(OnQueue(f))
    BY <2>5, <2>7, <2>8, <2>12, CountMore DEF SchedInv, Counted
  <2>14. f.rq.nr_uninterruptible = Cardinality(Uninterruptible(f))
    <3>1. Uninterruptible(s) \in SUBSET Tasks
      BY DEF Uninterruptible
    <3>2. s.rq.nr_uninterruptible = Cardinality(Uninterruptible(s))
      BY DEF SchedInv, Counted
    <3>3. f.rq.nr_uninterruptible = n
      BY <2>5, <2>7, <2>8
    <3>4. CASE s.task[p].state = "UNINTERRUPTIBLE"
      <4>1. Uninterruptible(f) = Uninterruptible(s) \ {p} /\ p \in Uninterruptible(s)
        BY <1>3, <2>8, <2>10, <3>4 DEF Uninterruptible
      <4>2. QED
        BY <2>n, <3>1, <3>2, <3>3, <3>4, <4>1, CountLess
    <3>5. CASE s.task[p].state # "UNINTERRUPTIBLE"
      <4>1. Uninterruptible(f) = Uninterruptible(s)
        BY <2>8, <2>10, <3>5 DEF Uninterruptible
      <4>2. QED
        BY <2>n, <3>2, <3>3, <3>5, <4>1
    <3>6. QED
      BY <3>4, <3>5
  <2>15. Placed(f)
    BY <1>c, <2>5, <2>7, <2>8, <2>10, <2>11 DEF SchedInv, Placed
  <2>16. SchedInv(f)
    BY <2>8, <2>13, <2>14, <2>15 DEF SchedInv, Counted
  <2>17. ASSUME Pending(s) PROVE Pending(f)
    <3>1. f.rq.curr = c /\ f.task[c] = z.task[c]
      BY <1>c, <2>1, <2>5, <2>7, <2>8
    <3>2. CASE y.task[p].prio < y.task[c].prio
      BY <2>7, <3>1, <3>2 DEF Pending
    <3>3. CASE ~(y.task[p].prio < y.task[c].prio)
      <4>1. z = y /\ y.task[c] = s.task[c]
        BY <1>c, <2>1, <2>5, <2>7, <3>3
      <4>2. f.task[p].prio = y.task[p].prio /\ \A q \in Tasks : q # p => f.task[q] = s.task[q]
        BY <2>5, <2>8, <4>1
      <4>3. NoBetter(s) => NoBetter(f)
        BY <1>c, <3>1, <3>3, <4>1, <4>2 DEF NoBetter
      <4>4. QED
        BY <1>c, <2>17, <3>1, <4>1, <4>3 DEF Pending
    <3>4. QED
      BY <3>2, <3>3
  <2>18. QED
    BY <2>9, <2>16, <2>17
<1>4. QED
  BY <1>2, <1>3

-----------------------------------------------------------------------------
\* do_fork.
LEMMA Halves ==
    ASSUME NEW n \in 1..MAX_TIMESLICE
    PROVE  /\ (n + 1) \div 2 \in 0..MAX_TIMESLICE /\ (n + 1) \div 2 >= 1
           /\ n \div 2 \in 0..MAX_TIMESLICE
BY PrioAssumption

Kid(t, x, c) == [t EXCEPT !.time_slice = x, !.first_time_slice = TRUE,
                          !.sleep_time = 0, !.array = NULL, !.parent = c]

LEMMA PutKid ==
    ASSUME NEW t \in Procs, NEW x \in 0..MAX_TIMESLICE, NEW c \in Tasks
    PROVE  LET u == Kid(t, x, c)
           IN  /\ u \in Procs /\ u.state = t.state /\ u.array = NULL /\ u.prio = t.prio
               /\ u.policy = t.policy /\ u.time_slice = x
BY DEF Procs, Kid

\* The child has been made, and current may have ended its slice.
Split(r, s, c, child) ==
    /\ r \in Machines /\ Consistent(r, Tasks)
    /\ r.rq.curr = s.rq.curr /\ r.rq.nr_running = s.rq.nr_running
    /\ r.rq.nr_uninterruptible = s.rq.nr_uninterruptible
    /\ \A q \in Tasks \cup {Idle} : q \notin {c, child} => r.task[q] = s.task[q]
    /\ r.task[c].state = s.task[c].state
    /\ r.task[c].array = NULL <=> s.task[c].array = NULL
    /\ Fit(r.task[c]) /\ Fit(r.task[child])
    /\ r.task[child].array = NULL

LEMMA SplitSliceShape ==
    ASSUME NEW s, SchedInv(s), NEW c \in Tasks, c = s.rq.curr,
           NEW child \in Tasks, child # c, s.task[child].array = NULL
    PROVE  Split(SplitSlice(s, child), s, c, child)
<1>1. s \in Machines /\ Consistent(s, Tasks) /\ Fit(s.task[c])
  BY DEF SchedInv, Sound, Fits
<1>t. PICK t \in Procs : t = s.task[c]
  BY <1>1, TaskOf
<1>2. t.time_slice \in 1..MAX_TIMESLICE
  BY <1>1, <1>t DEF Procs, Fit
<1>h. PICK h \in 0..MAX_TIMESLICE : h = t.time_slice \div 2
  BY <1>2, Halves
<1>g. PICK g \in 0..MAX_TIMESLICE : g = (t.time_slice + 1) \div 2 /\ g >= 1
  BY <1>2, Halves
<1>k. PICK k : k = Kid(t, g, c)
  OBVIOUS
<1>3. /\ k \in Procs /\ k.state = t.state /\ k.array = NULL /\ k.prio = t.prio
      /\ k.policy = t.policy /\ k.time_slice = g
  BY <1>g, <1>k, PutKid
<1>4. Fit(k)
  BY <1>1, <1>3, <1>g, <1>t DEF Fit, rt_task
<1>d. PICK d : d = Put(s, child, k)
  OBVIOUS
<1>5. /\ d \in Machines /\ d.rq = s.rq /\ d.task[child] = k
      /\ \A q \in Tasks \cup {Idle} : q # child => d.task[q] = s.task[q]
  BY <1>1, <1>3, <1>d, PutTask
<1>6. Consistent(d, Tasks)
  <2>1. Consistent(s, Tasks \ {child})
    BY <1>1, ConsistentOut
  <2>2. Consistent(d, Tasks \ {child})
    BY <1>1, <1>3, <1>d, <2>1, PutConsistent
  <2>3. QED
    BY <1>3, <1>5, <2>2, ConsistentOut
<1>u. PICK u : u = [t EXCEPT !.time_slice = h]
  OBVIOUS
<1>7. u \in Procs /\ Alike(u, t) /\ u.time_slice = h
  BY <1>h, <1>u, PutTimeSlice
<1>r. PICK r : r = Put(d, c, u)
  OBVIOUS
<1>8. /\ r \in Machines /\ r.rq = s.rq /\ r.task[c] = u /\ r.task[child] = k
      /\ \A q \in Tasks \cup {Idle} : q \notin {c, child} => r.task[q] = s.task[q]
  <2>1. /\ r \in Machines /\ r.rq = d.rq /\ r.task[c] = u
        /\ \A q \in Tasks \cup {Idle} : q # c => r.task[q] = d.task[q]
    BY <1>5, <1>7, <1>r, PutTask, SMTT(30)
  <2>2. QED
    BY <1>5, <2>1
<1>9. Consistent(r, Tasks)
  <2>1. d.task[c] = t
    BY <1>5, <1>t
  <2>2. QED
    BY <1>5, <1>6, <1>7, <1>r, <2>1, PutConsistent DEF Alike
<1>v. PICK v : v = [u EXCEPT !.time_slice = 1]
  OBVIOUS
<1>10. v \in Procs /\ Alike(v, u) /\ v.time_slice = 1
  <2>1. 1 \in 0..MAX_TIMESLICE
    BY PrioAssumption
  <2>2. QED
    BY <1>7, <1>v, <2>1, PutTimeSlice
<1>w. PICK w : w = Put(r, c, v)
  OBVIOUS
<1>11. SplitSlice(s, child) = IF h # 0 THEN r ELSE scheduler_tick(w)
  <2>1. r = [s EXCEPT !.task = [@ EXCEPT ![child] = k, ![c].time_slice = h]]
    <3>1. d = [task |-> [s.task EXCEPT ![child] = k], rq |-> s.rq]
      BY <1>1, <1>d, MachineParts DEF Put
    <3>2. r = [task |-> [d.task EXCEPT ![c] = u], rq |-> d.rq]
      BY <1>5, <1>r, MachineParts DEF Put
    <3>3. r = [task |-> [[s.task EXCEPT ![child] = k] EXCEPT ![c] = u], rq |-> s.rq]
      BY <3>1, <3>2
    <3>4. [s.task EXCEPT ![child] = k][c] = t
      BY <1>1, <1>t, MachineParts
    <3>5. [[s.task EXCEPT ![child] = k] EXCEPT ![c] = u]
             = [s.task EXCEPT ![child] = k, ![c].time_slice = h]
      BY <1>u, <3>4
    <3>6. [s EXCEPT !.task = [@ EXCEPT ![child] = k, ![c].time_slice = h]]
             = [task |-> [s.task EXCEPT ![child] = k, ![c].time_slice = h], rq |-> s.rq]
      BY <1>1, MachineParts
    <3>7. QED
      BY <3>3, <3>5, <3>6
  <2>2. w = [r EXCEPT !.task[c].time_slice = 1]
    BY <1>8, <1>v, <1>w DEF Put
  <2>3. k = [s.task[s.rq.curr] EXCEPT
                !.time_slice = (s.task[s.rq.curr].time_slice + 1) \div 2,
                !.first_time_slice = TRUE, !.sleep_time = 0,
                !.array = NULL, !.parent = s.rq.curr]
    BY <1>t, <1>g, <1>k DEF Kid
  <2>4. r = [s EXCEPT !.task = [@ EXCEPT
                ![child] = k,
                ![s.rq.curr].time_slice = s.task[s.rq.curr].time_slice \div 2]]
    BY <1>t, <1>h, <2>1, SMTT(30)
  <2>5. r = ShareSlice(s, child)
    BY <2>3, <2>4 DEF ShareSlice
  <2>6. SplitSlice(s, child) = IF r.task[c].time_slice # 0 THEN r
                               ELSE scheduler_tick(w)
    BY <2>2, <2>5 DEF SplitSlice
  <2>7. QED
    BY <1>7, <1>8, <2>6
<1>12. CASE h # 0
  <2>1. Fit(u)
    BY <1>1, <1>7, <1>12, <1>h, <1>t DEF Fit, Alike, rt_task
  <2>2. QED
    BY <1>3, <1>4, <1>7, <1>8, <1>9, <1>11, <1>12, <1>t, <2>1 DEF Split, Alike
<1>13. CASE h = 0
  <2>1. Fit(v)
    BY <1>1, <1>7, <1>10, <1>t DEF Fit, Alike, rt_task
  <2>2. /\ w \in Machines /\ w.rq = s.rq /\ w.task[c] = v
        /\ \A q \in Tasks \cup {Idle} : q # c => w.task[q] = r.task[q]
    BY <1>8, <1>10, <1>w, PutTask
  <2>3. Consistent(w, Tasks)
    BY <1>8, <1>9, <1>10, <1>w, PutConsistent DEF Alike
  <2>4. Keeps(scheduler_tick(w), w, c)
    BY <2>1, <2>2, <2>3, TickKeeps
  <2>y. PICK y : y = scheduler_tick(w)
    OBVIOUS
  <2>5. /\ y \in Machines /\ Consistent(y, Tasks)
        /\ y.rq.curr = s.rq.curr /\ y.rq.nr_running = s.rq.nr_running
        /\ y.rq.nr_uninterruptible = s.rq.nr_uninterruptible
        /\ \A q \in Tasks \cup {Idle} : q # c => y.task[q] = r.task[q]
        /\ y.task[c].state = v.state /\ (y.task[c].array = NULL <=> v.array = NULL)
        /\ Fit(y.task[c])
    BY <2>2, <2>4, <2>y DEF Keeps
  <2>6. y.task[child] = k
    BY <1>8, <2>5
  <2>7. v.state = s.task[c].state /\ v.array = s.task[c].array
    BY <1>7, <1>10, <1>t DEF Alike
  <2>8. Split(y, s, c, child)
    BY <1>3, <1>4, <1>8, <2>5, <2>6, <2>7 DEF Split
  <2>9. QED
    BY <1>11, <1>13, <2>8, <2>y
<1>14. QED
  BY <1>12, <1>13

LEMMA Percent ==
    ASSUME NEW x \in 0..MAX_SLEEP_AVG, NEW k \in 0..100
    PROVE  (x * k) \div 100 \in 0..MAX_SLEEP_AVG
<1>1. (x * k) \div 100 \in 0..x
  BY PartBound, PrioAssumption
<1>2. QED
  BY <1>1, PrioAssumption

LEMMA ForkInv ==
    ASSUME NEW s, SchedInv(s), NEW c \in Tasks, c = s.rq.curr,
           NEW child \in Tasks, s.task[child].state = "free", child # c
    PROVE  LET r == wake_up_forked_process(SplitSlice(s, child), child)
           IN  SchedInv(r) /\ r.rq.curr = c
<1>1. s \in Machines /\ Fits(s) /\ s.task[child].array = NULL
  BY DEF SchedInv, Sound, Placed
<1>d. PICK d : d = SplitSlice(s, child)
  OBVIOUS
<1>2. Split(d, s, c, child)
  BY <1>1, <1>d, SplitSliceShape
<1>3. /\ d \in Machines /\ Consistent(d, Tasks) /\ d.rq.curr = c
      /\ Fit(d.task[c]) /\ Fit(d.task[child]) /\ d.task[child].array = NULL
  BY <1>2 DEF Split
<1>t. PICK t \in Procs : t = d.task[child]
  BY <1>3, TaskOf
<1>k. PICK k : k = [t EXCEPT !.state = "RUNNING"]
  OBVIOUS
<1>4. /\ k \in Procs /\ k.state = "RUNNING" /\ k.array = NULL /\ k.prio = t.prio
      /\ k.policy = t.policy /\ k.time_slice = t.time_slice
  <2>1. "RUNNING" \in States
    BY DEF States
  <2>2. QED
    BY <1>3, <1>k, <1>t, <2>1, PutState
<1>5. Fit(k)
  BY <1>3, <1>4, <1>t DEF Fit, rt_task
<1>o. PICK o : o = [k EXCEPT !.sleep_avg = (@ * CHILD_PENALTY) \div 100]
  OBVIOUS
<1>6. o \in Procs /\ Alike(o, k) /\ o.time_slice = k.time_slice
  <2>1. k.sleep_avg \in 0..MAX_SLEEP_AVG
    BY <1>4 DEF Procs
  <2>2. (k.sleep_avg * CHILD_PENALTY) \div 100 \in 0..MAX_SLEEP_AVG
    <3>1. CHILD_PENALTY \in 0..100
      BY DEF CHILD_PENALTY
    <3>2. QED
      BY <2>1, <3>1, Percent
  <2>3. QED
    BY <1>4, <1>o, <2>2, PutSleepAvg
<1>e. PICK e \in MAX_RT_PRIO..(MAX_PRIO - 1) : e = effective_prio(o)
  BY <1>6, EffectivePrio
<1>n. PICK n : n = [o EXCEPT !.prio = e]
  OBVIOUS
<1>7. /\ n \in Procs /\ n.state = o.state /\ n.array = o.array /\ n.prio = e
      /\ n.policy = o.policy /\ n.time_slice = o.time_slice
  <2>1. e \in 0..MAX_PRIO
    BY <1>e, PrioAssumption
  <2>2. QED
    BY <1>6, <1>n, <2>1, PutPrio
<1>8. ~rt_task(k) => Fit(n)
  <2>1. n.prio \in Prios /\ ~rt_task(n)
    BY <1>7, <1>e, PrioAssumption DEF Prios, rt_task
  <2>2. QED
    BY <1>5, <1>6, <1>7, <2>1 DEF Fit, Alike
<1>p. PICK p \in Procs : p = d.task[c]
  BY <1>3, TaskOf
<1>v. PICK v : v = [p EXCEPT !.sleep_avg = (@ * PARENT_PENALTY) \div 100]
  OBVIOUS
<1>9. v \in Procs /\ Alike(v, p) /\ v.time_slice = p.time_slice
  <2>1. p.sleep_avg \in 0..MAX_SLEEP_AVG
    BY DEF Procs
  <2>2. (p.sleep_avg * PARENT_PENALTY) \div 100 \in 0..MAX_SLEEP_AVG
    <3>1. PARENT_PENALTY \in 0..100
      BY DEF PARENT_PENALTY
    <3>2. QED
      BY <2>1, <3>1, Percent
  <2>3. QED
    BY <1>v, <2>2, PutSleepAvg
<1>u. PICK u : u = Put(d, c, v)
  OBVIOUS
<1>10. /\ u \in Machines /\ u.rq = d.rq /\ u.task[c] = v
       /\ \A q \in Tasks \cup {Idle} : q # c => u.task[q] = d.task[q]
  <2>1. d \in Machines /\ c \in Tasks \cup {Idle} /\ v \in Procs
    BY <1>3, <1>9
  <2>2. /\ Put(d, c, v) \in Machines /\ Put(d, c, v).rq = d.rq
        /\ Put(d, c, v).task[c] = v
        /\ \A q \in Tasks \cup {Idle} : q # c => Put(d, c, v).task[q] = d.task[q]
    BY <2>1, PutTask, ZenonT(60)
  <2>3. QED
    BY <1>u, <2>2
<1>11. Consistent(u, Tasks)
  BY <1>3, <1>9, <1>p, <1>u, PutConsistent DEF Alike
<1>x. PICK x : x = IF rt_task(k) THEN Put(d, child, k) ELSE Put(u, child, n)
  OBVIOUS
<1>12. wake_up_forked_process(d, child) = activate_task(x, child)
  <2>1. Put(d, child, k) = [d EXCEPT !.task[child] = k]
        /\ Put(u, child, n) = [u EXCEPT !.task[child] = n]
    BY DEF Put
  <2>2. u = [d EXCEPT !.task[d.rq.curr].sleep_avg = (@ * PARENT_PENALTY) \div 100]
    BY <1>3, <1>p, <1>u, <1>v DEF Put
  <2>3. k = [d.task[child] EXCEPT !.state = "RUNNING"]
    BY <1>t, <1>k
  <2>4. n = [o EXCEPT !.prio = effective_prio(o)]
    BY <1>n, <1>e
  <2>5. QED
    BY <1>o, <1>x, <2>1, <2>2, <2>3, <2>4 DEF wake_up_forked_process
<1>13. /\ x \in Machines /\ x.rq = d.rq /\ Consistent(x, Tasks \ {child})
       /\ Alike(x.task[c], d.task[c]) /\ x.task[c].time_slice = d.task[c].time_slice
       /\ \A q \in Tasks \cup {Idle} : q \notin {c, child} => x.task[q] = d.task[q]
       /\ x.task[child].state = "RUNNING" /\ Fit(x.task[child])
  <2>1. Consistent(d, Tasks \ {child}) /\ Consistent(u, Tasks \ {child})
    BY <1>3, <1>10, <1>11, ConsistentOut
  <2>2. CASE rt_task(k)
    <3>1. x = Put(d, child, k)
      BY <1>x, <2>2
    <3>2. /\ x \in Machines /\ x.rq = d.rq /\ x.task[child] = k
          /\ \A q \in Tasks \cup {Idle} : q # child => x.task[q] = d.task[q]
      <4>1. d \in Machines /\ child \in Tasks \cup {Idle} /\ k \in Procs
        BY <1>3, <1>4
      <4>2. QED
        BY <3>1, <4>1, PutTask, ZenonT(60)
    <3>3. Consistent(x, Tasks \ {child})
      BY <1>3, <1>4, <2>1, <3>1, PutConsistent
    <3>4. QED
      BY <1>4, <1>5, <3>2, <3>3 DEF Alike
  <2>3. CASE ~rt_task(k)
    <3>1. x = Put(u, child, n)
      BY <1>x, <2>3
    <3>2. /\ x \in Machines /\ x.rq = u.rq /\ x.task[child] = n
          /\ \A q \in Tasks \cup {Idle} : q # child => x.task[q] = u.task[q]
      <4>1. u \in Machines /\ child \in Tasks \cup {Idle} /\ n \in Procs
        BY <1>7, <1>10
      <4>2. QED
        BY <3>1, <4>1, PutTask, ZenonT(60)
    <3>3. Consistent(x, Tasks \ {child})
      BY <1>7, <1>10, <2>1, <3>1, PutConsistent
    <3>4. x.task[c] = v /\ Alike(v, d.task[c]) /\ v.time_slice = d.task[c].time_slice
      BY <1>9, <1>10, <1>p, <3>2
    <3>5. n.state = "RUNNING" /\ Fit(n)
      BY <1>4, <1>6, <1>7, <1>8, <2>3 DEF Alike
    <3>6. QED
      BY <1>10, <3>2, <3>3, <3>4, <3>5
  <2>4. QED
    BY <2>2, <2>3
<1>y. PICK y : y = activate_task(x, child)
  OBVIOUS
<1>14. Activated(y, x, child)
  BY <1>13, <1>y, ActivateTask DEF Fit, Classed
<1>15. /\ y \in Machines /\ Consistent(y, Tasks) /\ y.rq.curr = c
       /\ y.rq.nr_running = s.rq.nr_running + 1
       /\ y.rq.nr_uninterruptible = s.rq.nr_uninterruptible
       /\ \A q \in Tasks \cup {Idle} : q \notin {c, child} => y.task[q] = s.task[q]
       /\ y.task[c].state = s.task[c].state
       /\ (y.task[c].array = NULL <=> s.task[c].array = NULL)
       /\ Fit(y.task[c])
       /\ y.task[child].array = "active" /\ y.task[child].state = "RUNNING"
       /\ Fit(y.task[child])
  <2>1. /\ y \in Machines /\ Consistent(y, Tasks) /\ y.rq.curr = c
        /\ y.rq.nr_running = s.rq.nr_running + 1
        /\ y.rq.nr_uninterruptible = s.rq.nr_uninterruptible
    BY <1>2, <1>3, <1>13, <1>14 DEF Activated, Split
  <2>2. y.task[c] = x.task[c]
    BY <1>14 DEF Activated
  <2>3. Fit(y.task[c])
    BY <1>3, <1>13, <2>2 DEF Alike, Fit, rt_task
  <2>4. y.task[c].state = s.task[c].state
        /\ (y.task[c].array = NULL <=> s.task[c].array = NULL)
    BY <1>2, <1>13, <2>2 DEF Alike, Split
  <2>5. \A q \in Tasks \cup {Idle} : q \notin {c, child} => y.task[q] = s.task[q]
    BY <1>2, <1>13, <1>14 DEF Activated, Split
  <2>6. /\ y.task[child].array = "active" /\ y.task[child].state = "RUNNING"
        /\ Fit(y.task[child])
    BY <1>13, <1>14 DEF Activated, Kin, Fit, Classed
  <2>7. QED
    BY <2>1, <2>3, <2>4, <2>5, <2>6
<1>16. Fits(y)
  BY <1>1, <1>15, TasksAssumption DEF Fits
<1>17. OnQueue(y) = OnQueue(s) \cup {child} /\ child \in Tasks \ OnQueue(s)
       /\ OnQueue(s) \in SUBSET Tasks
  BY <1>1, <1>15, TasksAssumption DEF OnQueue
<1>18. Uninterruptible(y) = Uninterruptible(s)
  BY <1>15 DEF Uninterruptible
<1>19. Counted(y)
  BY <1>15, <1>17, <1>18, CountMore DEF SchedInv, Counted
<1>20. Placed(y)
  BY <1>15, TasksAssumption DEF SchedInv, Placed
<1>21. QED
  BY <1>12, <1>15, <1>16, <1>19, <1>20, <1>d, <1>y DEF SchedInv, Sound

-----------------------------------------------------------------------------
\* release_task.
LEMMA FreeTaskFits ==
    /\ FreeTask \in Procs /\ Fit(FreeTask) /\ FreeTask.array = NULL
    /\ FreeTask.state = "free"
<1>1. /\ MAX_PRIO - 1 \in 0..MAX_PRIO /\ MAX_PRIO - 1 \in MAX_RT_PRIO..(MAX_PRIO - 1)
      /\ MIN_TIMESLICE \in 0..MAX_TIMESLICE /\ 0 \in 0..MAX_SLEEP_AVG
      /\ MIN_TIMESLICE >= 1 /\ MAX_PRIO - 1 \in Prios /\ ~(MAX_PRIO - 1 < MAX_RT_PRIO)
  BY PrioAssumption DEF Prios
<1>2. "free" \in States /\ "OTHER" \in Classes
  BY DEF States, Classes
<1>3. FreeTask \in Procs
  BY <1>1, <1>2 DEF FreeTask, Procs
<1>4. Fit(FreeTask)
  BY <1>1 DEF FreeTask, Fit, rt_task
<1>5. QED
  BY <1>3, <1>4 DEF FreeTask

Inherits(t, x, y) == [t EXCEPT !.time_slice = x, !.sleep_avg = y]

LEMMA PutExit ==
    ASSUME NEW t \in Procs, NEW x \in 0..MAX_TIMESLICE, NEW y \in 0..MAX_SLEEP_AVG
    PROVE  /\ Inherits(t, x, y) \in Procs /\ Alike(Inherits(t, x, y), t)
           /\ Inherits(t, x, y).time_slice = x
           /\ Inherits(t, x, y).need_resched = t.need_resched
BY DEF Procs, Alike, Inherits

LEMMA SchedExitNeutral ==
    ASSUME NEW s, SchedInv(s), NEW c \in Tasks, c = s.rq.curr, NEW p \in Tasks
    PROVE  /\ Neutral(sched_exit(s, p), s)
           /\ sched_exit(s, p).task[c].need_resched = s.task[c].need_resched
<1>1. s \in Machines /\ Fits(s)
  BY DEF SchedInv, Sound
<1>t. PICK t \in Procs : t = s.task[c]
  BY <1>1, TaskOf
<1>z. PICK z \in Procs : z = s.task[p]
  BY <1>1, TaskOf
<1>2. /\ t.time_slice \in 1..MAX_TIMESLICE /\ t.sleep_avg \in 0..MAX_SLEEP_AVG
      /\ z.time_slice \in 0..MAX_TIMESLICE /\ z.sleep_avg \in 0..MAX_SLEEP_AVG
  BY <1>1, <1>t DEF Procs, Fits, Fit
<1>x. PICK x : x = IF z.first_time_slice THEN Least(t.time_slice + z.time_slice, MAX_TIMESLICE)
                   ELSE t.time_slice
  OBVIOUS
<1>y. PICK y : y = IF z.sleep_avg < t.sleep_avg
                   THEN (t.sleep_avg * EXIT_WEIGHT + z.sleep_avg) \div (EXIT_WEIGHT + 1)
                   ELSE t.sleep_avg
  OBVIOUS
<1>3. x \in 0..MAX_TIMESLICE /\ x >= 1
  BY <1>2, <1>x, PrioAssumption DEF Least
<1>4. y \in 0..MAX_SLEEP_AVG
  BY <1>2, <1>y, PrioAssumption DEF EXIT_WEIGHT
<1>u. PICK u : u = Inherits(t, x, y)
  OBVIOUS
<1>5. u \in Procs /\ Alike(u, t) /\ u.time_slice = x /\ u.need_resched = t.need_resched
  BY <1>3, <1>4, <1>u, PutExit
<1>6. sched_exit(s, p) = Put(s, c, u)
  <2>1. sched_exit(s, p) = Put(s, s.rq.curr, Inherits(s.task[s.rq.curr], x, y))
    <3>1. x = IF s.task[p].first_time_slice
              THEN Least(s.task[s.rq.curr].time_slice + s.task[p].time_slice, MAX_TIMESLICE)
              ELSE s.task[s.rq.curr].time_slice
      BY <1>t, <1>z, <1>x
    <3>2. y = IF s.task[p].sleep_avg < s.task[s.rq.curr].sleep_avg
              THEN (s.task[s.rq.curr].sleep_avg * EXIT_WEIGHT + s.task[p].sleep_avg)
                       \div (EXIT_WEIGHT + 1)
              ELSE s.task[s.rq.curr].sleep_avg
      BY <1>t, <1>z, <1>y
    <3>3. QED
      BY <3>1, <3>2 DEF sched_exit, Put, Current, Inherits
  <2>2. QED
    BY <1>t, <1>u, <2>1
<1>7. Neutral(Put(s, c, u), s)
  BY <1>1, <1>3, <1>5, <1>t, PutNeutral
<1>8. Put(s, c, u).task[c] = u
  <2>1. s \in Machines /\ c \in Tasks \cup {Idle} /\ u \in Procs
    BY <1>1, <1>5
  <2>2. QED
    BY <2>1, PutTask, Zenon
<1>9. QED
  BY <1>5, <1>6, <1>7, <1>8, <1>t

LEMMA ReleaseInv ==
    ASSUME NEW s, SchedInv(s), NEW c \in Tasks, c = s.rq.curr,
           NEW z \in Tasks, z # c, s.task[z].state = "ZOMBIE"
    PROVE  LET r == [sched_exit(s, z) EXCEPT !.task[z] = FreeTask]
           IN  SchedInv(r) /\ (Pending(s) => Pending(r))
<1>d. PICK d : d = sched_exit(s, z)
  OBVIOUS
<1>1. Neutral(d, s) /\ d.task[c].need_resched = s.task[c].need_resched
  BY <1>d, SchedExitNeutral
<1>2. SchedInv(d) /\ (NoBetter(s) => NoBetter(d)) /\ d.rq.curr = c
  BY <1>1, NeutralKeeps DEF SchedInv, Neutral
<1>3. /\ d \in Machines /\ Consistent(d, Tasks) /\ Fits(d)
      /\ d.task[z].state = "ZOMBIE"
  BY <1>1, <1>2 DEF SchedInv, Sound, Neutral, Alike
<1>4. d.task[z].array = NULL
  BY <1>2, <1>3 DEF SchedInv, Placed
<1>r. PICK r : r = Put(d, z, FreeTask)
  OBVIOUS
<1>5. /\ r \in Machines /\ r.rq = d.rq /\ r.task[z] = FreeTask
      /\ \A q \in Tasks \cup {Idle} : q # z => r.task[q] = d.task[q]
  <2>1. d \in Machines /\ z \in Tasks \cup {Idle} /\ FreeTask \in Procs
    BY <1>3, FreeTaskFits
  <2>2. QED
    BY <1>r, <2>1, PutTask
<1>6. Consistent(r, Tasks)
  <2>1. Consistent(d, Tasks \ {z})
    BY <1>3, <1>4, ConsistentOut
  <2>2. Consistent(r, Tasks \ {z})
    BY <1>3, <1>r, <2>1, FreeTaskFits, PutConsistent
  <2>3. QED
    BY <1>5, <2>2, FreeTaskFits, ConsistentOut
<1>7. Fits(r)
  BY <1>3, <1>5, FreeTaskFits, TasksAssumption DEF Fits
<1>8. OnQueue(r) = OnQueue(d) /\ Uninterruptible(r) = Uninterruptible(d)
  BY <1>3, <1>4, <1>5, FreeTaskFits DEF OnQueue, Uninterruptible
<1>9. Counted(r)
  BY <1>2, <1>5, <1>8 DEF SchedInv, Counted
<1>10. Placed(r)
  BY <1>2, <1>5, FreeTaskFits DEF SchedInv, Placed
<1>11. Pending(s) => Pending(r)
  <2>1. r.rq.curr = c /\ r.task[c] = d.task[c]
    BY <1>2, <1>5
  <2>2. NoBetter(d) => NoBetter(r)
    <3>1. r.task[z].array # "active"
      BY <1>5, FreeTaskFits, TasksAssumption
    <3>2. QED
      BY <1>2, <1>5, <2>1, <3>1 DEF NoBetter
  <2>3. QED
    BY <1>1, <1>2, <2>1, <2>2 DEF Pending
<1>12. r = [sched_exit(s, z) EXCEPT !.task[z] = FreeTask]
  BY <1>r, <1>d DEF Put
<1>13. QED
  BY <1>5, <1>6, <1>7, <1>9, <1>10, <1>11, <1>12 DEF SchedInv, Sound

-----------------------------------------------------------------------------
(***************************************************************************)
(* The steps.                                                              *)
(***************************************************************************)
Then == [task |-> task', rq |-> rq']

Steps(r) == SchedInv(r) /\ (Pending(Now) => Pending(r))

LEMMA BecomesThen ==
    ASSUME NEW r, SchedInv(r), Becomes(r)
    PROVE  Then = r
<1>1. r = [task |-> r.task, rq |-> r.rq]
  BY MachineParts DEF SchedInv, Sound
<1>2. QED
  BY <1>1 DEF Becomes, Then

LEMMA NowParts ==
    ASSUME SchedInv(Now)
    PROVE  /\ Now.task = task /\ Now.rq = rq /\ Now \in Machines
           /\ task \in [Tasks \cup {Idle} -> Procs] /\ rq \in Rqs
           /\ rq.curr \in Tasks \cup {Idle}
<1>1. Now.task = task /\ Now.rq = rq /\ Now \in Machines
  BY DEF Now, SchedInv, Sound
<1>2. QED
  BY <1>1, MachineParts, RqParts

LEMMA LeastBound ==
    ASSUME NEW x \in Nat, NEW y \in Nat
    PROVE  Least(x + 1, y) \in Nat
BY DEF Least

LEMMA AgedNeutral ==
    ASSUME SchedInv(Now)
    PROVE  /\ Neutral(Aged, Now)
           /\ \A p \in Tasks \cup {Idle} : Aged.task[p].need_resched = task[p].need_resched
<1>1. /\ Now.task = task /\ Now.rq = rq /\ task \in [Tasks \cup {Idle} -> Procs]
      /\ rq \in Rqs /\ Fits(Now)
  BY NowParts DEF SchedInv, Sound
<1>x. PICK x : x = IF rq.expired_time = NULL THEN NULL
                   ELSE Least(rq.expired_time + 1, MaxExpired)
  OBVIOUS
<1>2. x \in Nat \cup {NULL}
  <2>1. MaxExpired \in Nat
    <3>1. Cardinality(Tasks) \in Nat
      BY CountNone
    <3>2. QED
      BY <3>1, PrioAssumption DEF MaxExpired
  <2>2. rq.expired_time \in Nat \cup {NULL}
    BY <1>1 DEF Rqs
  <2>3. QED
    BY <1>x, <2>1, <2>2, LeastBound
<1>q. PICK q : q = [rq EXCEPT !.expired_time = x]
  OBVIOUS
<1>3. /\ q \in Rqs /\ SameArrays(q, rq) /\ q.curr = rq.curr
      /\ q.nr_running = rq.nr_running
      /\ q.nr_uninterruptible = rq.nr_uninterruptible
  BY <1>1, <1>2, <1>q, RqExpired
<1>w. PICK w : w = [p \in Tasks \cup {Idle} |->
                      IF CanActivate(p) THEN Least(task[p].sleep_time + 1, MAX_SLEEP_AVG)
                      ELSE 0]
  OBVIOUS
<1>4. \A p \in Tasks \cup {Idle} : w[p] \in Nat
  <2>1. SUFFICES ASSUME NEW p \in Tasks \cup {Idle}
                 PROVE  w[p] \in Nat
    OBVIOUS
  <2>2. task[p].sleep_time \in Nat /\ MAX_SLEEP_AVG \in Nat
    BY <1>1, PrioAssumption DEF Procs
  <2>3. Least(task[p].sleep_time + 1, MAX_SLEEP_AVG) \in Nat
    BY <2>2, LeastBound
  <2>4. QED
    BY <1>w, <2>3
<1>T. PICK T : T = [p \in Tasks \cup {Idle} |-> [task[p] EXCEPT !.sleep_time = w[p]]]
  OBVIOUS
<1>5. \A p \in Tasks \cup {Idle} :
         /\ T[p] \in Procs /\ Alike(T[p], task[p])
         /\ T[p].time_slice = task[p].time_slice
         /\ T[p].need_resched = task[p].need_resched
  <2>1. SUFFICES ASSUME NEW p \in Tasks \cup {Idle}
                 PROVE  /\ T[p] \in Procs /\ Alike(T[p], task[p])
                        /\ T[p].time_slice = task[p].time_slice
                        /\ T[p].need_resched = task[p].need_resched
    OBVIOUS
  <2>2. T[p] = [task[p] EXCEPT !.sleep_time = w[p]] /\ task[p] \in Procs /\ w[p] \in Nat
    BY <1>1, <1>4, <1>T
  <2>3. QED
    BY <2>2, PutSleepTime
<1>6. T \in [Tasks \cup {Idle} -> Procs]
  BY <1>5, <1>T
<1>7. Aged = [task |-> T, rq |-> q]
  <2>1. T = [p \in DOMAIN task |->
                [task[p] EXCEPT !.sleep_time =
                    IF CanActivate(p) THEN Least(@ + 1, MAX_SLEEP_AVG) ELSE 0]]
    <3>1. DOMAIN task = Tasks \cup {Idle}
      BY <1>1
    <3>2. QED
      BY <1>T, <1>w, <3>1
  <2>2. q = [rq EXCEPT !.expired_time = IF @ = NULL THEN NULL ELSE Least(@ + 1, MaxExpired)]
    BY <1>q, <1>x
  <2>3. QED
    BY <2>1, <2>2 DEF Aged
<1>a. PICK a : a = [task |-> T, rq |-> q]
  OBVIOUS
<1>8. a \in Machines /\ a.task = T /\ a.rq = q
  BY <1>3, <1>6, <1>a DEF Machines
<1>9. \A p \in Tasks : a.task[p].time_slice >= 1
  BY <1>1, <1>5, <1>8 DEF Fits, Fit
<1>10. Neutral(a, Now)
  BY <1>1, <1>3, <1>5, <1>8, <1>9 DEF Neutral
<1>11. QED
  BY <1>5, <1>7, <1>8, <1>10, <1>a

LEMMA TickSteps ==
    ASSUME SchedInv(Now), Tick
    PROVE  Steps(Then)
<1>a. PICK a : a = Aged
  OBVIOUS
<1>1. /\ Neutral(a, Now)
      /\ \A p \in Tasks \cup {Idle} : a.task[p].need_resched = task[p].need_resched
  BY <1>a, AgedNeutral
<1>2. SchedInv(a) /\ (NoBetter(Now) => NoBetter(a)) /\ a.rq.curr = rq.curr
  BY <1>1, NeutralKeeps, NowParts DEF SchedInv, Neutral
<1>3. Pending(Now) => Pending(a)
  BY <1>1, <1>2, NowParts DEF Pending
<1>4. Becomes(scheduler_tick(a))
  BY <1>a DEF Tick
<1>5. CASE a.rq.curr = Idle
  <2>1. scheduler_tick(a) = a
    BY <1>5 DEF scheduler_tick
  <2>2. QED
    BY <1>2, <1>3, <1>4, <2>1, BecomesThen DEF Steps
<1>6. CASE a.rq.curr # Idle
  <2>c. PICK c \in Tasks : c = a.rq.curr
    BY <1>2, <1>6, NowParts
  <2>1. a \in Machines /\ Consistent(a, Tasks) /\ Fit(a.task[c])
    BY <1>2 DEF SchedInv, Sound, Fits
  <2>r. PICK r : r = scheduler_tick(a)
    OBVIOUS
  <2>2. Keeps(r, a, c) /\ Marks(r, a, c)
    BY <2>1, <2>c, <2>r, TickKeeps
  <2>3. SchedInv(r)
    BY <1>2, <2>2, KeepsInv
  <2>4. Pending(a) => Pending(r)
    <3>1. r.rq.curr = c /\ \A p \in Tasks \cup {Idle} : p # c => r.task[p] = a.task[p]
      BY <2>2, <2>c DEF Keeps
    <3>2. CASE r.task[c].need_resched = TRUE
      BY <3>1, <3>2 DEF Pending
    <3>3. CASE r.task[c].need_resched = a.task[c].need_resched
               /\ r.task[c].prio = a.task[c].prio
      BY <2>c, <3>1, <3>3 DEF Pending, NoBetter
    <3>4. QED
      BY <2>2, <3>2, <3>3 DEF Marks
  <2>5. QED
    BY <1>3, <1>4, <2>3, <2>4, <2>r, BecomesThen DEF Steps
<1>7. QED
  BY <1>5, <1>6

LEMMA InUserCurr ==
    ASSUME SchedInv(Now), NEW c \in Tasks \cup {Idle}, InUser(c)
    PROVE  /\ c \in Tasks /\ c = Now.rq.curr /\ rq.curr = c
           /\ Now.task[c] = task[c] /\ task[c].state = "RUNNING"
BY NowParts DEF InUser, OnCpu

LEMMA NeedSteps ==
    ASSUME NEW r, SchedInv(r), NoBetter(r), Becomes(r)
    PROVE  Steps(Then)
BY BecomesThen DEF Steps, Pending

LEMMA ReschedSteps ==
    ASSUME SchedInv(Now), Resched
    PROVE  Steps(Then)
<1>1. SchedInv(schedule(Now, FALSE)) /\ NoBetter(schedule(Now, FALSE))
  BY ScheduleInv
<1>2. Becomes(schedule(Now, FALSE))
  BY DEF Resched
<1>3. QED
  BY <1>1, <1>2, NeedSteps

LEMMA BlockSteps ==
    ASSUME SchedInv(Now), Block
    PROVE  Steps(Then)
<1>1. PICK signalled \in BOOLEAN : Becomes(schedule(Now, signalled))
  BY DEF Block
<1>2. SchedInv(schedule(Now, signalled)) /\ NoBetter(schedule(Now, signalled))
  BY ScheduleInv
<1>3. QED
  BY <1>1, <1>2, NeedSteps

LEMMA YieldSteps ==
    ASSUME SchedInv(Now), rq.curr \in Tasks, Becomes(sys_sched_yield(Now))
    PROVE  Steps(Then)
<1>1. Steps(sys_sched_yield(Now))
  BY YieldInv, NowParts DEF Steps
<1>2. QED
  BY <1>1, BecomesThen DEF Steps

LEMMA AllocCurr ==
    ASSUME SchedInv(Now), task[rq.curr].alloc
    PROVE  rq.curr \in Tasks
BY NowParts DEF SchedInv, Sound, Fits, Idler

LEMMA AllocYieldsSteps ==
    ASSUME SchedInv(Now), AllocYields
    PROVE  Steps(Then)
<1>1. rq.curr \in Tasks
  BY AllocCurr DEF AllocYields
<1>2. Becomes(sys_sched_yield(Now))
  BY DEF AllocYields
<1>3. QED
  BY <1>1, <1>2, YieldSteps

LEMMA AllocReclaimsSteps ==
    ASSUME SchedInv(Now), AllocReclaims
    PROVE  Steps(Then)
<1>1. SchedInv(schedule(Now, FALSE)) /\ NoBetter(schedule(Now, FALSE))
  BY ScheduleInv
<1>2. Becomes(schedule(Now, FALSE))
  BY DEF AllocReclaims
<1>3. QED
  BY <1>1, <1>2, NeedSteps

LEMMA StateThen ==
    ASSUME SchedInv(Now), NEW c \in Tasks, rq.curr = c, NEW x \in States,
           task' = [task EXCEPT ![c].state = x], rq' = rq
    PROVE  Steps(Then)
<1>1. Then = PutSt(Now, c, x)
  BY DEF Then, PutSt, Now
<1>2. SchedInv(PutSt(Now, c, x)) /\ (Pending(Now) => Pending(PutSt(Now, c, x)))
  BY CurrState, NowParts
<1>3. QED
  BY <1>1, <1>2 DEF Steps

LEMMA PrepareSleepSteps ==
    ASSUME SchedInv(Now), NEW c \in Tasks,
           PrepareSleep(c) \/ NoSleep(c) \/ AllocSleeps(c)
    PROVE  Steps(Then)
<1>1. PICK x \in States : task' = [task EXCEPT ![c].state = x]
  BY TasksAssumption DEF PrepareSleep, NoSleep, AllocSleeps, States, Sleeping
<1>2. rq.curr = c /\ rq' = rq
  BY DEF PrepareSleep, NoSleep, AllocSleeps, OnCpu
<1>3. QED
  BY <1>1, <1>2, StateThen

LEMMA WakeUpSteps ==
    ASSUME SchedInv(Now), NEW p \in Tasks, WakeUp(p)
    PROVE  Steps(Then)
<1>1. Steps(try_to_wake_up(Now, p))
  BY WakeUpInv, NowParts DEF WakeUp, Steps
<1>2. QED
  BY <1>1, BecomesThen DEF WakeUp, Steps

LEMMA ReleaseSteps ==
    ASSUME SchedInv(Now), NEW c \in Tasks, NEW z \in Tasks, Release(c, z)
    PROVE  Steps(Then)
<1>1. c = Now.rq.curr /\ z # c /\ Now.task[z].state = "ZOMBIE"
  BY InUserCurr, NowParts DEF Release
<1>r. PICK r : r = [sched_exit(Now, z) EXCEPT !.task[z] = FreeTask]
  OBVIOUS
<1>2. SchedInv(r) /\ (Pending(Now) => Pending(r))
  BY <1>1, <1>r, ReleaseInv
<1>3. Becomes(r)
  BY <1>r DEF Release
<1>4. QED
  BY <1>2, <1>3, BecomesThen DEF Steps

LEMMA ForkSteps ==
    ASSUME SchedInv(Now), NEW c \in Tasks, NEW child \in Tasks, Fork(c, child)
    PROVE  Steps(Then)
<1>1. c = Now.rq.curr /\ child # c /\ Now.task[child].state = "free"
  BY InUserCurr, NowParts DEF Fork, Alive
<1>r. PICK r : r = wake_up_forked_process(SplitSlice(Now, child), child)
  OBVIOUS
<1>2. SchedInv(r) /\ r.rq.curr = c
  BY <1>1, <1>r, ForkInv
<1>3. CASE Becomes(resched_task(r, c))
  <2>1. /\ SchedInv(resched_task(r, c)) /\ resched_task(r, c).rq = r.rq
        /\ resched_task(r, c).task[c].need_resched = TRUE
    BY <1>2, ReschedInv
  <2>2. Pending(resched_task(r, c))
    BY <1>2, <2>1 DEF Pending
  <2>3. QED
    BY <1>3, <2>1, <2>2, BecomesThen DEF Steps
<1>4. CASE Becomes(schedule([r EXCEPT !.task[c].state = "UNINTERRUPTIBLE"], FALSE))
  <2>d. PICK d : d = PutSt(r, c, "UNINTERRUPTIBLE")
    OBVIOUS
  <2>1. SchedInv(d)
    <3>1. "UNINTERRUPTIBLE" \in States
      BY DEF States, Sleeping
    <3>2. QED
      BY <1>2, <2>d, <3>1, CurrState
  <2>2. SchedInv(schedule(d, FALSE)) /\ NoBetter(schedule(d, FALSE))
    BY <2>1, ScheduleInv
  <2>3. Becomes(schedule(d, FALSE))
    BY <1>4, <2>d DEF PutSt
  <2>4. QED
    BY <2>2, <2>3, NeedSteps
<1>5. QED
  BY <1>3, <1>4, <1>r DEF Fork

LEMMA PutAlloc ==
    ASSUME NEW t \in Procs, NEW b \in BOOLEAN
    PROVE  LET u == [t EXCEPT !.alloc = b]
           IN  /\ u \in Procs /\ u.state = t.state /\ u.array = t.array
               /\ u.prio = t.prio /\ u.policy = t.policy /\ u.time_slice = t.time_slice
               /\ u.need_resched = t.need_resched
BY DEF Procs

LEMMA AllocSteps ==
    ASSUME SchedInv(Now), NEW c \in Tasks, AllocBegins(c) \/ AllocEnds(c)
    PROVE  Steps(Then)
<1>1. PICK b \in BOOLEAN : task' = [task EXCEPT ![c].alloc = b]
  BY DEF AllocBegins, AllocEnds
<1>2. rq.curr = c /\ rq' = rq
  BY DEF AllocBegins, AllocEnds, InUser, OnCpu
<1>s. PICK s : s = Now
  OBVIOUS
<1>3. SchedInv(s) /\ s \in Machines /\ Consistent(s, Tasks) /\ Fits(s) /\ s.rq.curr = c
  BY <1>2, <1>s, NowParts DEF SchedInv, Sound
<1>t. PICK t \in Procs : t = s.task[c]
  BY <1>3, TaskOf
<1>u. PICK u : u = [t EXCEPT !.alloc = b]
  OBVIOUS
<1>4. /\ u \in Procs /\ u.state = t.state /\ u.array = t.array
      /\ u.prio = t.prio /\ u.policy = t.policy /\ u.time_slice = t.time_slice
      /\ u.need_resched = t.need_resched
  BY <1>u, PutAlloc
<1>r. PICK r : r = Put(s, c, u)
  OBVIOUS
<1>5. /\ r \in Machines /\ r.rq = s.rq /\ r.task[c] = u
      /\ \A q \in Tasks \cup {Idle} : q # c => r.task[q] = s.task[q]
  BY <1>3, <1>4, <1>r, PutTask
<1>6. Fit(u)
  BY <1>3, <1>4, <1>t DEF Fits, Fit, rt_task
<1>7. Consistent(r, Tasks)
  BY <1>3, <1>4, <1>r, <1>t, PutConsistent
<1>8. Keeps(r, s, c)
  BY <1>4, <1>5, <1>6, <1>7, <1>t DEF Keeps
<1>9. SchedInv(r)
  BY <1>3, <1>8, KeepsInv
<1>10. Pending(s) => Pending(r)
  BY <1>3, <1>4, <1>5, <1>t DEF Pending, NoBetter
<1>11. Then = r
  BY <1>1, <1>2, <1>r, <1>s, <1>t, <1>u DEF Then, Put, Now
<1>12. QED
  BY <1>9, <1>10, <1>11, <1>s DEF Steps

Orphan(t) == [t EXCEPT !.parent = InitTask, !.first_time_slice = FALSE]

LEMMA OrphanAlike ==
    ASSUME NEW t \in Procs
    PROVE  /\ Orphan(t) \in Procs /\ Alike(Orphan(t), t)
           /\ Orphan(t).time_slice = t.time_slice
           /\ Orphan(t).need_resched = t.need_resched
BY TasksAssumption DEF Orphan, Procs, Alike

LEMMA ExitSteps ==
    ASSUME SchedInv(Now), NEW c \in Tasks, Exit(c)
    PROVE  Steps(Then)
<1>1. /\ Now.task = task /\ Now.rq = rq /\ task \in [Tasks \cup {Idle} -> Procs]
      /\ rq \in Rqs /\ Fits(Now) /\ rq.curr = c /\ rq' = rq
  BY NowParts, InUserCurr DEF SchedInv, Sound, Exit
<1>T. PICK T : T = [p \in DOMAIN task |-> IF task[p].parent # c THEN task[p]
                                          ELSE Orphan(task[p])]
  OBVIOUS
<1>2. task' = [T EXCEPT ![c].state = "ZOMBIE"]
  BY <1>T DEF Exit, Orphan
<1>3. DOMAIN task = Tasks \cup {Idle}
  BY <1>1
<1>4. \A p \in Tasks \cup {Idle} :
         /\ T[p] \in Procs /\ Alike(T[p], task[p])
         /\ T[p].time_slice = task[p].time_slice
         /\ T[p].need_resched = task[p].need_resched
  <2>1. SUFFICES ASSUME NEW p \in Tasks \cup {Idle}
                 PROVE  /\ T[p] \in Procs /\ Alike(T[p], task[p])
                        /\ T[p].time_slice = task[p].time_slice
                        /\ T[p].need_resched = task[p].need_resched
    OBVIOUS
  <2>2. T[p] = task[p] \/ T[p] = Orphan(task[p])
    BY <1>T, <1>3
  <2>3. task[p] \in Procs /\ Alike(task[p], task[p])
    BY <1>1 DEF Alike
  <2>4. QED
    BY <2>2, <2>3, OrphanAlike
<1>5. T \in [Tasks \cup {Idle} -> Procs]
  BY <1>3, <1>4, <1>T
<1>a. PICK a : a = [task |-> T, rq |-> rq]
  OBVIOUS
<1>6. a \in Machines /\ a.task = T /\ a.rq = rq
  BY <1>1, <1>5, <1>a DEF Machines
<1>7. \A p \in Tasks : a.task[p].time_slice >= 1
  BY <1>1, <1>4, <1>6 DEF Fits, Fit
<1>8. Neutral(a, Now)
  BY <1>1, <1>4, <1>6, <1>7 DEF Neutral, SameArrays
<1>9. SchedInv(a) /\ (NoBetter(Now) => NoBetter(a))
  BY <1>8, NeutralKeeps DEF SchedInv
<1>10. Pending(Now) => Pending(a)
  BY <1>1, <1>4, <1>6, <1>9 DEF Pending
<1>11. "ZOMBIE" \in States
  BY DEF States
<1>12. SchedInv(PutSt(a, c, "ZOMBIE")) /\ (Pending(a) => Pending(PutSt(a, c, "ZOMBIE")))
  BY <1>1, <1>6, <1>9, <1>11, CurrState
<1>13. Then = PutSt(a, c, "ZOMBIE")
  BY <1>1, <1>2, <1>a DEF Then, PutSt
<1>14. QED
  BY <1>10, <1>12, <1>13 DEF Steps

LEMMA ReprioritiseInv ==
    ASSUME SchedInv(Now), Reprioritise
    PROVE  SchedInv(Then)
<1>1. PICK c \in Tasks, p \in Tasks : \/ \E nice \in Nices : SetNice(c, p, nice)
                                      \/ \E policy \in Policies : SetScheduler(c, p, policy)
  BY DEF Reprioritise
<1>2. ASSUME NEW nice \in Nices, SetNice(c, p, nice)
      PROVE  SchedInv(Then)
  <2>1. SchedInv(set_user_nice(Now, p, nice))
    BY SetNiceInv
  <2>2. QED
    BY <1>2, <2>1, BecomesThen DEF SetNice
<1>3. ASSUME NEW policy \in Policies, SetScheduler(c, p, policy)
      PROVE  SchedInv(Then)
  <2>1. Now.task[Now.rq.curr].state = "RUNNING"
    BY <1>3, InUserCurr DEF SetScheduler
  <2>2. PICK rt \in 0..(MAX_RT_PRIO - 1) :
            /\ policy # "OTHER" => rt # 0
            /\ Becomes(setscheduler(Now, p, policy, rt))
    BY <1>3, PrioAssumption DEF SetScheduler
  <2>3. SchedInv(setscheduler(Now, p, policy, rt))
    BY <2>1, <2>2, SetSchedulerInv
  <2>4. QED
    BY <2>2, <2>3, BecomesThen
<1>4. QED
  BY <1>1, <1>2, <1>3

-----------------------------------------------------------------------------
\* The first state.
LEMMA FirstPrio == NICE_TO_PRIO(0) \in MAX_RT_PRIO..(MAX_PRIO - 1)
<1>1. /\ MAX_USER_PRIO \in Nat /\ MAX_USER_PRIO >= 2
      /\ MAX_RT_PRIO + MAX_USER_PRIO = MAX_PRIO
  BY PrioAssumption DEF MAX_USER_PRIO
<1>2. MAX_USER_PRIO \div 2 \in Nat /\ MAX_USER_PRIO \div 2 < MAX_USER_PRIO
  BY <1>1
<1>3. QED
  BY <1>1, <1>2, PrioAssumption DEF NICE_TO_PRIO, NiceShift

Placing(t, x) == [t EXCEPT !.state = "RUNNING", !.array = "active", !.static_prio = x,
                           !.prio = x, !.parent = InitTask]

LEMMA FirstTaskFits ==
    /\ FirstTask \in Procs /\ Fit(FirstTask) /\ FirstTask.array = "active"
    /\ FirstTask.state = "RUNNING" /\ FirstTask.prio = NICE_TO_PRIO(0)
<1>x. PICK x \in MAX_RT_PRIO..(MAX_PRIO - 1) : x = NICE_TO_PRIO(0)
  BY FirstPrio
<1>f. PICK f \in Procs : f = FreeTask /\ f.policy = "OTHER"
  <2>1. FreeTask.policy = "OTHER"
    BY DEF FreeTask
  <2>2. QED
    BY <2>1, FreeTaskFits
<1>t. PICK t : t = Placing(f, x)
  OBVIOUS
<1>1. /\ t \in Procs /\ t.state = "RUNNING" /\ t.array = "active" /\ t.prio = x
      /\ t.policy = "OTHER"
  <2>1. x \in 0..MAX_PRIO /\ "RUNNING" \in States /\ "active" \in Roles \cup {NULL}
        /\ InitTask \in Tasks \cup {NULL}
    BY PrioAssumption, TasksAssumption DEF States, Roles
  <2>2. QED
    BY <1>f, <1>t, <2>1 DEF Placing, Procs
<1>y. PICK y : y = TASK_TIMESLICE(t)
  OBVIOUS
<1>2. y \in 1..MAX_TIMESLICE
  BY <1>1, <1>y, SliceBound
<1>u. PICK u : u = [t EXCEPT !.time_slice = y]
  OBVIOUS
<1>3. /\ u \in Procs /\ u.time_slice = y /\ u.state = "RUNNING" /\ u.array = "active"
      /\ u.prio = x /\ u.policy = "OTHER"
  BY <1>1, <1>2, <1>u DEF Procs
<1>4. Fit(u)
  BY <1>2, <1>3, PrioAssumption DEF Fit, rt_task, Prios
<1>5. FirstTask = u
  BY <1>f, <1>t, <1>u, <1>x, <1>y DEF FirstTask, Placing
<1>6. QED
  BY <1>3, <1>4, <1>5, <1>x

LEMMA IdleTaskIdles == IdleTask \in Procs /\ Idler(IdleTask)
<1>1. /\ "RUNNING" \in States /\ MAX_PRIO \in 0..MAX_PRIO /\ FreeTask \in Procs
      /\ FreeTask.array = NULL
  BY PrioAssumption, FreeTaskFits DEF States
<1>2. FreeTask.alloc = FALSE
  BY DEF FreeTask
<1>3. QED
  BY <1>1, <1>2 DEF IdleTask, Procs, Idler

LEMMA FirstQueue ==
    ASSUME NEW q \in [1..Cardinality(Started) -> Started],
           \A p \in Started : \E n \in DOMAIN q : q[n] = p
    PROVE  /\ Holds(q, Started) /\ Len(q) = Cardinality(Started) /\ q # << >>
           /\ q[1] \in Started
<1>n. PICK n : n = Cardinality(Started)
  OBVIOUS
<1>1. n \in Nat \ {0} /\ Started \subseteq Tasks
  <2>1. Started # {} /\ Started \in SUBSET Tasks
    BY TasksAssumption
  <2>2. QED
    BY <1>n, <2>1, CountNone
<1>2. q \in [1..n -> Started]
  BY <1>n
<1>3. q \in Seq(Tasks) /\ Len(q) = n
  BY <1>1, <1>2
<1>4. q \in Surjection(1..n, Started)
  BY <1>2 DEF Surjection
<1>5. IsFiniteSet(1..n) /\ Cardinality(1..n) = n
  BY <1>1, FS_Interval
<1>6. q \in Injection(1..n, Started)
  BY <1>4, <1>5, <1>n, FS_SurjSameCardinalityImpliesInj
<1>7. \A i, j \in 1..n : q[i] = q[j] => i = j
  BY <1>6 DEF Injection, IsInjective
<1>8. \A p : p \in Started <=> \E i \in 1..Len(q) : q[i] = p
  BY <1>2, <1>3
<1>9. QED
  BY <1>1, <1>2, <1>3, <1>7, <1>8, <1>n DEF Holds

FirstTasks == [p \in Tasks \cup {Idle} |-> IF p = Idle THEN IdleTask
                                           ELSE IF p \in Started THEN FirstTask
                                           ELSE FreeTask]

FirstQueues(q) == [a \in Roles |-> [i \in Prios |->
                      IF a = "active" /\ i = NICE_TO_PRIO(0) THEN q ELSE << >>]]

FirstRq(q) == [curr |-> q[1], nr_running |-> Len(q), nr_uninterruptible |-> 0,
               expired_time |-> NULL,
               nr_active |-> [a \in Roles |-> IF a = "active" THEN Len(q) ELSE 0],
               bitmap |-> [a \in Roles |-> IF a = "active" THEN {NICE_TO_PRIO(0)} ELSE {}],
               queue |-> FirstQueues(q)]

LEMMA FirstInv ==
    ASSUME NEW q, Holds(q, Started), Len(q) = Cardinality(Started), q # << >>,
           q[1] \in Started
    PROVE  SchedInv([task |-> FirstTasks, rq |-> FirstRq(q)])
<1>s. PICK s : s = [task |-> FirstTasks, rq |-> FirstRq(q)]
  OBVIOUS
<1>k. PICK k \in Prios : k = NICE_TO_PRIO(0)
  BY FirstPrio, PrioAssumption DEF Prios
<1>1. /\ Started \subseteq Tasks /\ Idle \notin Tasks
      /\ q \in Seq(Tasks) /\ Len(q) \in Int /\ << >> \in Seq(Tasks)
  BY TasksAssumption DEF Holds
<1>2. FirstRq(q) \in Rqs
  <2>1. FirstRq(q).queue \in Queues
    BY <1>1 DEF FirstRq, FirstQueues, Queues
  <2>2. FirstRq(q).bitmap \in Bitmaps
    BY <1>k DEF FirstRq, Bitmaps
  <2>3. FirstRq(q).nr_active \in Counts
    BY <1>1 DEF FirstRq, Counts
  <2>4. QED
    BY <1>1, <2>1, <2>2, <2>3 DEF FirstRq, Rqs
<1>3. FirstTasks \in [Tasks \cup {Idle} -> Procs]
  BY FirstTaskFits, IdleTaskIdles, FreeTaskFits DEF FirstTasks
<1>4. s \in Machines /\ s.task = FirstTasks /\ s.rq = FirstRq(q)
  BY <1>2, <1>3, <1>s DEF Machines
<1>5. /\ s.task[Idle] = IdleTask
      /\ \A p \in Started : s.task[p] = FirstTask
      /\ \A p \in Tasks \ Started : s.task[p] = FreeTask
  BY <1>1, <1>4 DEF FirstTasks
<1>6. \A p \in Tasks : IF p \in Started
                       THEN /\ s.task[p].array = "active" /\ s.task[p].prio = k
                            /\ s.task[p].state = "RUNNING" /\ Fit(s.task[p])
                       ELSE /\ s.task[p].array = NULL /\ s.task[p].state = "free"
                            /\ Fit(s.task[p])
  BY <1>5, <1>k, FirstTaskFits, FreeTaskFits
<1>7. Fits(s)
  BY <1>5, <1>6, IdleTaskIdles DEF Fits
<1>8. Consistent(s, Tasks)
  <2>1. SUFFICES ASSUME NEW a \in Roles
                 PROVE  /\ s.rq.nr_active[a] = Cardinality(HeldBy(s, Tasks, a))
                        /\ \A i \in Prios :
                              /\ Holds(s.rq.queue[a][i], Held(s, Tasks, a, i))
                              /\ i \in s.rq.bitmap[a] <=> s.rq.queue[a][i] # << >>
    BY DEF Consistent
  <2>2. HeldBy(s, Tasks, a) = IF a = "active" THEN Started ELSE {}
    BY <1>1, <1>6, TasksAssumption DEF HeldBy, Roles
  <2>3. \A i \in Prios : Held(s, Tasks, a, i) = IF a = "active" /\ i = k THEN Started ELSE {}
    BY <1>1, <1>6, TasksAssumption DEF Held, Roles
  <2>4. s.rq.nr_active[a] = IF a = "active" THEN Len(q) ELSE 0
    BY <1>4 DEF FirstRq
  <2>5. \A i \in Prios : s.rq.queue[a][i] = IF a = "active" /\ i = k THEN q ELSE << >>
    BY <1>4, <1>k DEF FirstRq, FirstQueues
  <2>6. s.rq.bitmap[a] = IF a = "active" THEN {k} ELSE {}
    BY <1>4, <1>k DEF FirstRq
  <2>7. Cardinality({}) = 0
    BY FS_EmptySet
  <2>8. QED
    BY <2>2, <2>3, <2>4, <2>5, <2>6, <2>7, HoldsNone
<1>9. OnQueue(s) = Started /\ Uninterruptible(s) = {}
  BY <1>1, <1>6, TasksAssumption DEF OnQueue, Uninterruptible
<1>10. Counted(s)
  <2>1. Cardinality({}) = 0
    BY FS_EmptySet
  <2>2. s.rq.nr_running = Len(q) /\ s.rq.nr_uninterruptible = 0
    BY <1>4 DEF FirstRq
  <2>3. QED
    BY <1>9, <2>1, <2>2 DEF Counted
<1>11. Placed(s)
  <2>1. s.rq.curr \in Started
    BY <1>4 DEF FirstRq
  <2>2. QED
    BY <1>6, <2>1, TasksAssumption DEF Placed
<1>12. QED
  BY <1>4, <1>7, <1>8, <1>10, <1>11, <1>s DEF SchedInv, Sound

LEMMA InitInv == Init => SchedInv(Now)
<1>1. SUFFICES ASSUME Init
               PROVE  SchedInv(Now)
  OBVIOUS
<1>2. PICK q \in [1..Cardinality(Started) -> Started] :
          /\ \A p \in Started : \E n \in DOMAIN q : q[n] = p
          /\ rq = FirstRq(q)
  BY <1>1 DEF Init, FirstRq, FirstQueues
<1>3. task = FirstTasks
  BY <1>1 DEF Init, FirstTasks
<1>4. Holds(q, Started) /\ Len(q) = Cardinality(Started) /\ q # << >> /\ q[1] \in Started
  BY <1>2, FirstQueue
<1>5. QED
  BY <1>2, <1>3, <1>4, FirstInv DEF Now

-----------------------------------------------------------------------------
(***************************************************************************)
(* The theorems.                                                           *)
(***************************************************************************)
Inv == SchedInv(Now)

LEMMA NextSteps ==
    ASSUME SchedInv(Now), Next
    PROVE  SchedInv(Then) /\ (Reprioritise \/ Steps(Then))
<1>1. CASE Reprioritise
  BY <1>1, ReprioritiseInv
<1>2. CASE Tick \/ Resched \/ Block \/ AllocYields \/ AllocReclaims
  BY <1>2, TickSteps, ReschedSteps, BlockSteps, AllocYieldsSteps, AllocReclaimsSteps DEF Steps
<1>3. ASSUME NEW c \in Tasks,
             PrepareSleep(c) \/ NoSleep(c) \/ WakeUp(c) \/ Exit(c) \/ AllocBegins(c)
                \/ AllocSleeps(c) \/ AllocEnds(c)
      PROVE  Steps(Then)
  BY <1>3, PrepareSleepSteps, WakeUpSteps, ExitSteps, AllocSteps
<1>4. ASSUME NEW c \in Tasks, Yield(c)
      PROVE  Steps(Then)
  <2>1. rq.curr \in Tasks /\ Becomes(sys_sched_yield(Now))
    BY <1>4, InUserCurr DEF Yield
  <2>2. QED
    BY <2>1, YieldSteps
<1>5. ASSUME NEW c \in Tasks, NEW p \in Tasks, Fork(c, p) \/ Release(c, p)
      PROVE  Steps(Then)
  BY <1>5, ForkSteps, ReleaseSteps
<1>6. QED
  BY <1>1, <1>2, <1>3, <1>4, <1>5 DEF Next, Steps

LEMMA Inductive == Spec => []Inv
<1>1. Init => Inv
  BY InitInv DEF Inv
<1>2. Inv /\ [Next]_vars => Inv'
  <2>1. CASE Next
    <3>1. Inv => SchedInv(Then)
      BY <2>1, NextSteps DEF Inv
    <3>2. QED
      BY <3>1 DEF Inv, Then, Now
  <2>2. CASE UNCHANGED vars
    BY <2>2 DEF Inv, Now, vars
  <2>3. QED
    BY <2>1, <2>2
<1>3. QED
  BY <1>1, <1>2, PTL DEF Spec

LEMMA InvParts ==
    ASSUME Inv
    PROVE  /\ Now.task = task /\ Now.rq = rq
           /\ task \in [Tasks \cup {Idle} -> Procs] /\ rq \in Rqs
           /\ rq.curr \in Tasks \cup {Idle}
           /\ Consistent(Now, Tasks) /\ Counted(Now) /\ Placed(Now)
           /\ \A p \in Tasks : Fit(task[p])
<1>1. /\ Now.task = task /\ Now.rq = rq
      /\ task \in [Tasks \cup {Idle} -> Procs] /\ rq \in Rqs
      /\ rq.curr \in Tasks \cup {Idle}
  BY NowParts DEF Inv
<1>2. QED
  BY <1>1 DEF Inv, SchedInv, Sound, Fits

(***************************************************************************)
(* At all times the priorities of the tasks are in the range of the        *)
(* queues, those below MAX_RT_PRIO are the real-time ones, the sleep       *)
(* averages are within bounds, and no task is left without a time slice:   *)
(* the BUG() of do_fork is never reached, although a fork halves the slice *)
(* and every tick, fork and exit changes it.                               *)
(***************************************************************************)
THEOREM SchedTypes == Spec => []TypeOK
<1>1. Inv => TypeOK
  <2>1. SUFFICES ASSUME Inv
                 PROVE  TypeOK
    OBVIOUS
  <2>2. ASSUME NEW p \in Tasks
        PROVE  /\ task[p].array \in Roles \cup {NULL}
               /\ task[p].prio \in Prios
               /\ task[p].static_prio \in MAX_RT_PRIO..(MAX_PRIO - 1)
               /\ task[p].time_slice \in 1..MAX_TIMESLICE
               /\ task[p].sleep_avg \in 0..MAX_SLEEP_AVG
               /\ (task[p].policy = "OTHER") = ~rt_task(task[p])
    <3>1. task[p] \in Procs /\ Fit(task[p])
      BY <2>1, InvParts
    <3>2. /\ task[p].array \in Roles \cup {NULL}
          /\ task[p].prio \in Prios
          /\ task[p].static_prio \in MAX_RT_PRIO..(MAX_PRIO - 1)
          /\ task[p].time_slice \in 1..MAX_TIMESLICE
          /\ task[p].sleep_avg \in 0..MAX_SLEEP_AVG
      BY <3>1 DEF Procs, Fit
    <3>3. (task[p].policy = "OTHER") = ~rt_task(task[p])
      BY <3>1 DEF Fit, rt_task
    <3>4. QED
      BY <3>2, <3>3
  <2>3. rq.curr \in Tasks \cup {Idle}
    BY <2>1, InvParts
  <2>4. QED
    BY <2>2, <2>3 DEF TypeOK
<1>2. QED
  BY <1>1, Inductive, PTL

\* In a queue that holds S a task of S is once, any other never.
LEMMA HeldOnce ==
    ASSUME NEW q, NEW S, Holds(q, S), NEW p
    PROVE  Cardinality({n \in DOMAIN q : q[n] = p}) = IF p \in S THEN 1 ELSE 0
<1>1. DOMAIN q = 1..Len(q)
  BY DEF Holds
<1>2. CASE p \in S
  <2>1. PICK m \in 1..Len(q) : q[m] = p
    BY <1>2 DEF Holds
  <2>2. \A n \in 1..Len(q) : q[n] = p => n = m
    BY <2>1 DEF Holds
  <2>3. {n \in DOMAIN q : q[n] = p} = {m}
    BY <1>1, <2>1, <2>2
  <2>4. QED
    BY <1>2, <2>3, FS_Singleton
<1>3. CASE p \notin S
  <2>1. {n \in DOMAIN q : q[n] = p} = {}
    BY <1>1, <1>3 DEF Holds
  <2>2. QED
    BY <1>3, <2>1, FS_EmptySet
<1>4. QED
  BY <1>2, <1>3

(***************************************************************************)
(* The run queue agrees with itself and with the tasks after any sequence  *)
(* of ticks, wake-ups, yields, changes of priority and of scheduling       *)
(* class, forks, exits and switches, whatever the number of tasks and of   *)
(* priorities: schedule() never takes the head of an empty list, never     *)
(* runs a sleeper or a zombie, and the counters it relies on are those of  *)
(* the queues.                                                             *)
(***************************************************************************)
THEOREM RunqueueAgrees == Spec => []RunqueueOK
<1>1. Inv => RunqueueOK
  <2>1. SUFFICES ASSUME Inv
                 PROVE  RunqueueOK
    OBVIOUS
  <2>2. Now.task = task /\ Now.rq = rq /\ Consistent(Now, Tasks) /\ Counted(Now)
        /\ Placed(Now)
    BY <2>1, InvParts
  <2>3. \A p \in Tasks :
           (task[p].array # NULL) <=> (task[p].state = "RUNNING" \/ p = rq.curr)
    BY <2>2 DEF Placed
  <2>4. ASSUME NEW a \in Roles, NEW i \in Prios
        PROVE  /\ i \in rq.bitmap[a] <=> rq.queue[a][i] # << >>
               /\ \A p \in Tasks : Cardinality(Occurrences(a, i, p)) =
                      IF task[p].array = a /\ task[p].prio = i THEN 1 ELSE 0
    <3>1. /\ Holds(rq.queue[a][i], Held(Now, Tasks, a, i))
          /\ i \in rq.bitmap[a] <=> rq.queue[a][i] # << >>
      BY <2>2 DEF Consistent
    <3>2. \A p \in Tasks : p \in Held(Now, Tasks, a, i)
                              <=> task[p].array = a /\ task[p].prio = i
      BY <2>2 DEF Held
    <3>3. QED
      BY <3>1, <3>2, HeldOnce DEF Occurrences
  <2>5. ASSUME NEW a \in Roles
        PROVE  rq.nr_active[a] = Cardinality(Queued(a))
    <3>1. HeldBy(Now, Tasks, a) = Queued(a)
      BY <2>2 DEF HeldBy, Queued
    <3>2. QED
      BY <2>2, <3>1 DEF Consistent
  <2>6. rq.nr_running = Cardinality(Queued("active") \cup Queued("expired"))
    <3>1. \A p \in Tasks : task[p].array \in {"active", "expired", NULL}
      BY <2>1, InvParts DEF Procs, Roles
    <3>2. OnQueue(Now) = Queued("active") \cup Queued("expired")
      BY <2>2, <3>1, TasksAssumption DEF OnQueue, Queued
    <3>3. QED
      BY <2>2, <3>2 DEF Counted
  <2>7. rq.nr_uninterruptible =
            Cardinality({p \in Tasks : /\ task[p].state = "UNINTERRUPTIBLE"
                                       /\ task[p].array = NULL})
    BY <2>2 DEF Counted, Uninterruptible
  <2>8. QED
    BY <2>3, <2>4, <2>5, <2>6, <2>7 DEF RunqueueOK
<1>2. QED
  BY <1>1, Inductive, PTL

(***************************************************************************)
(* No step but a change of priority loses a preemption: when current is    *)
(* marked or is the best of the active array, the next state has current   *)
(* marked or the best again, through wake-ups, forks, expiring slices,     *)
(* yields, switches of the arrays and exits.                               *)
(***************************************************************************)
THEOREM PreemptionKept == Spec => PreemptKept
<1>1. Inv => (PreemptPending <=> Pending(Now))
  BY InvParts DEF PreemptPending, Better, Pending, NoBetter
<1>2. Inv /\ Inv' /\ [Next]_vars =>
          [PreemptPending => PreemptPending' \/ Reprioritise]_vars
  <2>1. SUFFICES ASSUME Inv, Inv', Next, PreemptPending, ~Reprioritise
                 PROVE  PreemptPending'
    BY DEF vars
  <2>2. Pending(Now)
    BY <1>1, <2>1
  <2>3. Pending(Then)
    BY <2>1, <2>2, NextSteps DEF Inv, Steps
  <2>4. QED
    BY <2>3 DEF PreemptPending, Better, Pending, NoBetter, Then
<1>3. QED
  BY <1>2, Inductive, PTL DEF Spec, PreemptKept
=============================================================================
