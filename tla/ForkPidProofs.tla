---------------------------- MODULE ForkPidProofs ----------------------------
(***************************************************************************)
(* Theorems about ForkPid, for any number of tasks, any range of pids and  *)
(* any limits: ids in use are not handed out again, the counters are exact *)
(* and the limit on threads is overrun by forks in flight only.            *)
(***************************************************************************)
EXTENDS ForkPid, FiniteSetTheorems, TLAPS

(***************************************************************************)
(* What the properties need to be inductive: a fork in flight links one    *)
(* live task with one child of its own; and, until an id is missed, the    *)
(* ids the child will bring into the task list are behind last_pid or are  *)
(* those of its parent, which is in the list.                              *)
(***************************************************************************)
OwnChild ==
    \A c \in Slots : task[c].child # NULL =>
       task[c].state = "live" /\ task[task[c].child].state = "forking"

OneParent ==
    \A c, d \in Slots : task[c].child # NULL /\ task[c].child = task[d].child => c = d

NoOrphan ==
    \A p \in Slots : task[p].state = "forking" =>
       task[p].child = NULL /\ \E c \in Slots : task[c].child = p

Pairs == OwnChild /\ OneParent /\ NoOrphan

Flight ==
    ~unseen => \A c \in Forkers :
                  /\ task[task[c].child].pid <= last_pid
                  /\ task[task[c].child].pgrp = task[c].pgrp
                  /\ task[task[c].child].session = task[c].session

IdInv == TypeOK /\ Pairs /\ Flight /\ GapIsFree /\ PidsUnique

-----------------------------------------------------------------------------
(***************************************************************************)
(* Types.                                                                  *)
(***************************************************************************)
LEMMA FreeTaskType == FreeTask \in Task
  BY PidAssumption DEF FreeTask, Task, Pids

LEMMA TypeInit == Init => TypeOK
<1> SUFFICES ASSUME Init PROVE TypeOK
  OBVIOUS
<1>1. 1 \in Pids
  BY PidAssumption DEF Pids
<1>2. [FreeTask EXCEPT !.state = "live", !.pid = 1, !.tgid = 1] \in Task
  BY <1>1, FreeTaskType DEF Task
<1>3. task \in [Slots -> Task]
  <2> DEFINE T(p) == IF p = InitSlot
                     THEN [FreeTask EXCEPT !.state = "live", !.pid = 1, !.tgid = 1]
                     ELSE FreeTask
  <2>1. \A p \in Slots : T(p) \in Task
    BY <1>2, FreeTaskType
  <2>2. task = [p \in Slots |-> T(p)]
    BY DEF Init
  <2> HIDE DEF T
  <2> QED BY <2>1, <2>2
<1>4. 1 \in 1..(PID_MAX - 1) /\ PID_MAX \in 1..PID_MAX
  BY PidAssumption
<1>5. last_pid = 1 /\ next_safe = PID_MAX /\ nr_threads = 1 /\ processes = 1
      /\ unseen = FALSE
  BY DEF Init
<1>6. last_pid \in 1..(PID_MAX - 1) /\ next_safe \in 1..PID_MAX
      /\ nr_threads \in Int /\ processes \in Int
  BY <1>4, <1>5
<1>7. unseen \in BOOLEAN
  BY <1>5
<1> QED BY <1>3, <1>6, <1>7, Zenon DEF TypeOK

(***************************************************************************)
(* What each step does to the fields of the tasks, and that it keeps them  *)
(* in type.  SameBut(S) says that only tasks of S change.                  *)
(***************************************************************************)
SameBut(S) == \A q \in Slots \ S : task'[q] = task[q]

\* task' differs from task at c only, and there only in its child.
ChildOnly(c) ==
    /\ task'[c].state = task[c].state /\ task'[c].pid = task[c].pid
    /\ task'[c].pgrp = task[c].pgrp /\ task'[c].session = task[c].session
    /\ task'[c].tgid = task[c].tgid

LEMMA BeginsShape ==
    ASSUME TypeOK, NEW c \in Slots, NEW p \in Slots, NEW x \in Pids,
           NEW n \in 1..PID_MAX, ForkBegins(c, p, x, n)
    PROVE  /\ TypeOK' /\ c # p /\ SameBut({c, p}) /\ ChildOnly(c)
           /\ task'[c].child = p
           /\ task'[p].state = "forking" /\ task'[p].pid = x
           /\ task'[p].pgrp = task[c].pgrp /\ task'[p].session = task[c].session
           /\ task'[p].child = NULL
<1>1. x \in 1..(PID_MAX - 1)
  BY PidAssumption DEF ForkBegins, GetPid, Safe, Candidates, TypeOK, Pids
<1> DEFINE R == [task[c] EXCEPT !.state = "forking", !.pid = x, !.leader = FALSE]
           P == [task[c] EXCEPT !.child = p]
<1>2. R \in Task /\ P \in Task
  BY DEF TypeOK, Task
<1>3. c # p /\ task[c].child = NULL
  BY DEF ForkBegins, Runs
<1>4. task' = [q \in Slots |-> IF q = c THEN P ELSE IF q = p THEN R ELSE task[q]]
  BY <1>3 DEF ForkBegins, TypeOK
<1>5. task' \in [Slots -> Task]
  <2> HIDE DEF R, P
  <2> QED BY <1>2, <1>4 DEF TypeOK
<1>6. TypeOK'
  BY <1>1, <1>5 DEF ForkBegins, TypeOK
<1>7. task'[c] = P /\ task'[p] = R /\ SameBut({c, p})
  BY <1>3, <1>4 DEF SameBut
<1> QED BY <1>3, <1>6, <1>7 DEF ChildOnly, TypeOK, Task

LEMMA NoPidShape ==
    ASSUME TypeOK, NEW c \in Slots, NEW n \in 1..PID_MAX, ForkNoPid(c, n)
    PROVE  TypeOK' /\ task' = task /\ unseen'
  BY DEF ForkNoPid, TypeOK

LEMMA FailsShape ==
    ASSUME TypeOK, Pairs, NEW c \in Slots, ForkFails(c)
    PROVE  /\ TypeOK'
           /\ task[c].child \in Slots \ {c}
           /\ SameBut({c, task[c].child}) /\ ChildOnly(c)
           /\ task'[c].child = NULL
           /\ task'[task[c].child] = FreeTask
<1> DEFINE p == task[c].child
           P == [task[c] EXCEPT !.child = NULL]
<1>1. p \in Slots \ {c}
  BY DEF ForkFails, Pairs, OwnChild, TypeOK, Task
<1>2. P \in Task
  BY DEF TypeOK, Task
<1>3. task' = [q \in Slots |-> IF q = c THEN P ELSE IF q = p THEN FreeTask ELSE task[q]]
  BY <1>1 DEF ForkFails, TypeOK
<1>4. task' \in [Slots -> Task]
  <2> HIDE DEF P, p
  <2> QED BY <1>2, <1>3, FreeTaskType DEF TypeOK
<1>5. TypeOK'
  BY <1>4 DEF ForkFails, TypeOK
<1>6. task'[c] = P /\ task'[p] = FreeTask /\ SameBut({c, p})
  BY <1>1, <1>3 DEF SameBut
<1> QED BY <1>1, <1>5, <1>6 DEF ChildOnly, TypeOK, Task

LEMMA LinksShape ==
    ASSUME TypeOK, Pairs, NEW c \in Slots, NEW thread \in BOOLEAN,
           ForkLinks(c, thread)
    PROVE  /\ TypeOK'
           /\ task[c].child \in Slots \ {c}
           /\ SameBut({c, task[c].child}) /\ ChildOnly(c)
           /\ task'[c].child = NULL
           /\ LET t == task'[task[c].child]
                  o == task[task[c].child]
              IN  /\ t.state = "live" /\ t.child = o.child
                  /\ t.pid = o.pid /\ t.pgrp = o.pgrp /\ t.session = o.session
                  /\ t.tgid \in {o.pid, task[c].tgid}
<1> DEFINE p == task[c].child
           P == [task[c] EXCEPT !.child = NULL]
           g == IF thread THEN task[c].tgid ELSE task[p].pid
           R == [task[p] EXCEPT !.state = "live", !.tgid = g, !.parent = c]
<1>1. p \in Slots \ {c}
  BY DEF ForkLinks, Pairs, OwnChild, TypeOK, Task
<1>2. task[c] \in Task /\ task[p] \in Task /\ g \in Pids
  BY <1>1 DEF TypeOK, Task
<1>3. P \in Task /\ R \in Task
  BY <1>1, <1>2 DEF Task
<1>4. task' = [q \in Slots |-> IF q = c THEN P ELSE IF q = p THEN R ELSE task[q]]
  BY <1>1 DEF ForkLinks, TypeOK
<1>5. task' \in [Slots -> Task]
  <2> HIDE DEF P, R, g, p
  <2> QED BY <1>3, <1>4 DEF TypeOK
<1>6. TypeOK'
  BY <1>5 DEF ForkLinks, TypeOK
<1>7. task'[c] = P /\ task'[p] = R /\ SameBut({c, p})
  BY <1>1, <1>4 DEF SameBut
<1> QED BY <1>1, <1>2, <1>6, <1>7 DEF ChildOnly, Task

LEMMA ExitShape ==
    ASSUME TypeOK, NEW c \in Slots, NEW reaper \in Slots, Exit(c, reaper)
    PROVE  /\ TypeOK'
           /\ \A q \in Slots : task'[q].child = task[q].child /\ Ids(task'[q]) = Ids(task[q])
           /\ \A q \in Slots : /\ task'[q].pid = task[q].pid /\ task'[q].pgrp = task[q].pgrp
                               /\ task'[q].session = task[q].session
           /\ \A q \in Slots \ {c} : task'[q].state = task[q].state
           /\ task[c].state = "live" /\ task'[c].state = "zombie"
<1> DEFINE T(q) == IF q = c THEN [task[q] EXCEPT !.state = "zombie"]
                   ELSE IF q \in Linked /\ task[q].parent = c
                   THEN [task[q] EXCEPT !.parent = IF q = reaper THEN InitSlot ELSE reaper]
                   ELSE task[q]
<1>1. task' = [q \in Slots |-> T(q)]
  BY DEF Exit
<1>2. \A q \in Slots : T(q) \in Task
  BY SlotsAssumption DEF TypeOK, Task
<1>3. task' \in [Slots -> Task]
  <2> HIDE DEF T
  <2> QED BY <1>1, <1>2
<1>4. TypeOK'
  BY <1>3 DEF Exit, TypeOK
<1>5. \A q \in Slots : task'[q] = T(q)
  BY <1>1
<1>6. \A q \in Slots : /\ T(q).child = task[q].child /\ T(q).pid = task[q].pid
                       /\ T(q).pgrp = task[q].pgrp /\ T(q).session = task[q].session
                       /\ T(q).tgid = task[q].tgid
                       /\ T(q).state = IF q = c THEN "zombie" ELSE task[q].state
  BY DEF TypeOK, Task
<1> HIDE DEF T
<1> QED BY <1>4, <1>5, <1>6 DEF Exit, Runs, Ids

LEMMA ReleaseShape ==
    ASSUME TypeOK, NEW z \in Slots, Release(z)
    PROVE  /\ TypeOK' /\ SameBut({z})
           /\ task[z].state = "zombie" /\ task'[z] = FreeTask
  BY FreeTaskType DEF Release, TypeOK, SameBut

\* A change of the group and session of one task.
LEMMA SetsidShape ==
    ASSUME TypeOK, NEW c \in Slots, sys_setsid(c)
    PROVE  /\ TypeOK' /\ SameBut({c})
           /\ task[c].state = "live" /\ task[c].child = NULL
           /\ task'[c].state = "live" /\ task'[c].child = NULL
           /\ task'[c].pid = task[c].pid /\ Ids(task'[c]) \subseteq Ids(task[c])
<1> DEFINE P == [task[c] EXCEPT !.leader = TRUE, !.session = task[c].pid,
                               !.pgrp = task[c].pid]
<1>1. P \in Task
  BY DEF TypeOK, Task
<1>2. task' = [task EXCEPT ![c] = P]
  BY DEF sys_setsid, TypeOK
<1>3. task' \in [Slots -> Task]
  BY <1>1, <1>2 DEF TypeOK
<1>4. TypeOK'
  BY <1>3 DEF sys_setsid, TypeOK
<1>5. task'[c] = P /\ SameBut({c})
  BY <1>2 DEF TypeOK, SameBut
<1> QED BY <1>4, <1>5 DEF sys_setsid, Runs, Ids, TypeOK, Task

LEMMA SetpgidShape ==
    ASSUME TypeOK, NEW c \in Slots, NEW p \in Slots, NEW pgid \in Pids \ {0},
           sys_setpgid(c, p, pgid)
    PROVE  /\ TypeOK' /\ SameBut({p}) /\ p \in Linked
           /\ task'[p].state = task[p].state /\ task'[p].child = task[p].child
           /\ task'[p].pid = task[p].pid
           /\ Ids(task'[p]) \subseteq Taken
<1> DEFINE P == [task[p] EXCEPT !.pgrp = pgid]
<1>1. P \in Task
  BY DEF TypeOK, Task
<1>2. task' = [task EXCEPT ![p] = P]
  BY DEF sys_setpgid, TypeOK
<1>3. task' \in [Slots -> Task]
  BY <1>1, <1>2 DEF TypeOK
<1>4. unseen' \in BOOLEAN
  BY Zenon DEF sys_setpgid, TypeOK
<1>5. TypeOK'
  BY <1>3, <1>4 DEF sys_setpgid, TypeOK
<1>6. task'[p] = P /\ SameBut({p}) /\ p \in Linked
  BY <1>2 DEF TypeOK, SameBut, sys_setpgid
<1>7. pgid \in Taken
  BY <1>6 DEF sys_setpgid, Taken, Ids
<1>8. {task[p].pid, task[p].tgid, task[p].session} \subseteq Taken
  BY <1>6 DEF Taken, Ids
<1>9. Ids(P) = {task[p].pid, pgid, task[p].tgid, task[p].session}
  BY DEF Ids, TypeOK, Task
<1>10. P.state = task[p].state /\ P.child = task[p].child /\ P.pid = task[p].pid
  BY DEF TypeOK, Task
<1> QED BY <1>5, <1>6, <1>7, <1>8, <1>9, <1>10

-----------------------------------------------------------------------------
(***************************************************************************)
(* Each step keeps forks in flight paired with their children.             *)
(***************************************************************************)
LEMMA ChildType ==
    ASSUME TypeOK
    PROVE  \A q \in Slots : task[q].child # NULL => task[q].child \in Slots
  BY DEF TypeOK, Task

LEMMA PairsBegins ==
    ASSUME TypeOK, Pairs, NEW c \in Slots, NEW p \in Slots, NEW x \in Pids,
           NEW n \in 1..PID_MAX, ForkBegins(c, p, x, n)
    PROVE  Pairs'
<1>1. /\ c # p /\ SameBut({c, p}) /\ task'[c].child = p
      /\ task'[c].state = task[c].state
      /\ task'[p].state = "forking" /\ task'[p].child = NULL
  BY BeginsShape DEF ChildOnly
<1>2. task[c].state = "live" /\ task[c].child = NULL /\ task[p].state = "free"
  BY DEF ForkBegins, Runs
<1>3. \A q \in Slots : task[q].child # p /\ task[q].child # c
  BY <1>2, SlotsAssumption DEF Pairs, OwnChild
<1>4. task[p].child = NULL
  BY <1>2 DEF Pairs, OwnChild
<1>5. p # NULL
  BY SlotsAssumption
<1>6. OwnChild'
  BY <1>1, <1>2, <1>3, <1>4, ChildType DEF Pairs, OwnChild, SameBut
<1>7. OneParent'
  BY <1>1, <1>2, <1>3, <1>4 DEF Pairs, OneParent, SameBut
<1>8. NoOrphan'
  BY <1>1, <1>2, <1>3, <1>4, <1>5 DEF Pairs, NoOrphan, SameBut
<1> QED BY <1>6, <1>7, <1>8 DEF Pairs

LEMMA PairsFails ==
    ASSUME TypeOK, Pairs, NEW c \in Slots, ForkFails(c)
    PROVE  Pairs'
<1> DEFINE p == task[c].child
<1>1. /\ p \in Slots \ {c} /\ SameBut({c, p}) /\ task'[c].child = NULL
      /\ task'[c].state = task[c].state
      /\ task'[p].state = "free" /\ task'[p].child = NULL
  BY FailsShape DEF ChildOnly, FreeTask
<1>2. p # NULL
  BY <1>1, SlotsAssumption
<1>3. task[c].state = "live" /\ task[p].state = "forking" /\ task[p].child = NULL
      /\ \A q \in Slots \ {c} : task[q].child # p
  BY <1>1, <1>2 DEF Pairs, OwnChild, NoOrphan, OneParent
<1>4. \A q \in Slots : task[q].child # c
  BY <1>3, SlotsAssumption DEF Pairs, OwnChild
<1> HIDE DEF p
<1>5. OwnChild'
  BY <1>1, <1>3, <1>4, ChildType DEF Pairs, OwnChild, SameBut
<1>6. OneParent'
  BY <1>1, <1>3, <1>4 DEF Pairs, OneParent, SameBut
<1>7. NoOrphan'
  BY <1>1, <1>3, <1>4 DEF Pairs, NoOrphan, SameBut, p
<1> QED BY <1>5, <1>6, <1>7 DEF Pairs

LEMMA PairsLinks ==
    ASSUME TypeOK, Pairs, NEW c \in Slots, NEW thread \in BOOLEAN,
           ForkLinks(c, thread)
    PROVE  Pairs'
<1> DEFINE p == task[c].child
<1>1. /\ p \in Slots \ {c} /\ SameBut({c, p}) /\ task'[c].child = NULL
      /\ task'[c].state = task[c].state
      /\ task'[p].state = "live" /\ task'[p].child = task[p].child
  BY LinksShape DEF ChildOnly
<1>2. p # NULL
  BY <1>1, SlotsAssumption
<1>3. task[c].state = "live" /\ task[p].state = "forking" /\ task[p].child = NULL
      /\ \A q \in Slots \ {c} : task[q].child # p
  BY <1>1, <1>2 DEF Pairs, OwnChild, NoOrphan, OneParent
<1>4. \A q \in Slots : task[q].child # c
  BY <1>3, SlotsAssumption DEF Pairs, OwnChild
<1> HIDE DEF p
<1>5. OwnChild'
  BY <1>1, <1>3, <1>4, ChildType DEF Pairs, OwnChild, SameBut
<1>6. OneParent'
  BY <1>1, <1>3, <1>4 DEF Pairs, OneParent, SameBut
<1>7. NoOrphan'
  BY <1>1, <1>3, <1>4 DEF Pairs, NoOrphan, SameBut, p
<1> QED BY <1>5, <1>6, <1>7 DEF Pairs

LEMMA PairsExit ==
    ASSUME TypeOK, Pairs, NEW c \in Slots, NEW reaper \in Slots, Exit(c, reaper)
    PROVE  Pairs'
<1>1. /\ \A q \in Slots : task'[q].child = task[q].child
      /\ \A q \in Slots \ {c} : task'[q].state = task[q].state
      /\ task[c].state = "live" /\ task'[c].state = "zombie"
  BY ExitShape
<1>2. task[c].child = NULL
  BY DEF Exit, Runs
<1>3. \A q \in Slots : task[q].child # c
  BY <1>1, SlotsAssumption DEF Pairs, OwnChild
<1>4. OwnChild'
  BY <1>1, <1>2, <1>3, ChildType DEF Pairs, OwnChild
<1>5. OneParent'
  BY <1>1 DEF Pairs, OneParent
<1>6. NoOrphan'
  BY <1>1 DEF Pairs, NoOrphan
<1> QED BY <1>4, <1>5, <1>6 DEF Pairs

\* Steps that change one task and not whether or what it forks.
LEMMA PairsSame ==
    ASSUME TypeOK, Pairs, NEW p \in Slots, SameBut({p}),
           task[p].state # "forking", task'[p].state # "forking",
           task[p].child # NULL => task'[p].state = "live",
           task'[p].child = task[p].child
    PROVE  Pairs'
<1>1. \A q \in Slots : task'[q].child = task[q].child
  BY DEF SameBut
<1>2. \A q \in Slots : task[q].child # p
  BY SlotsAssumption DEF Pairs, OwnChild
<1>3. OwnChild'
  BY <1>1, <1>2, ChildType DEF Pairs, OwnChild, SameBut
<1>4. OneParent'
  BY <1>1 DEF Pairs, OneParent
<1>5. NoOrphan'
  BY <1>1 DEF Pairs, NoOrphan, SameBut
<1> QED BY <1>3, <1>4, <1>5 DEF Pairs

LEMMA PairsRelease ==
    ASSUME TypeOK, Pairs, NEW z \in Slots, Release(z)
    PROVE  Pairs'
<1>1. task[z].child = NULL
  BY DEF Release, Pairs, OwnChild
<1>2. /\ SameBut({z}) /\ task[z].state = "zombie"
      /\ task'[z].state = "free" /\ task'[z].child = NULL
  BY ReleaseShape DEF FreeTask
<1> QED BY <1>1, <1>2, PairsSame

LEMMA PairsSetsid ==
    ASSUME TypeOK, Pairs, NEW c \in Slots, sys_setsid(c)
    PROVE  Pairs'
  BY SetsidShape, PairsSame

LEMMA PairsSetpgid ==
    ASSUME TypeOK, Pairs, NEW c \in Slots, NEW p \in Slots, NEW pgid \in Pids \ {0},
           sys_setpgid(c, p, pgid)
    PROVE  Pairs'
<1>1. /\ SameBut({p}) /\ p \in Linked
      /\ task'[p].state = task[p].state /\ task'[p].child = task[p].child
  BY SetpgidShape
<1> QED BY <1>1, PairsSame DEF Linked, Pairs, OwnChild

-----------------------------------------------------------------------------
(***************************************************************************)
(* Ids.  The numbers in use, and the gap get_pid trusts.                   *)
(***************************************************************************)
LEMMA TakenIs ==
    \A y : y \in Taken <=> \E p \in Slots : /\ task[p].state \in {"live", "zombie"}
                                            /\ y \in Ids(task[p])
  BY DEF Taken, Linked

NoneTaken == ~unseen => \A y \in Taken : ~(last_pid < y /\ y < next_safe)

LEMMA GapIsTaken == TypeOK => (GapIsFree <=> NoneTaken)
<1> SUFFICES ASSUME TypeOK PROVE GapIsFree <=> NoneTaken
  OBVIOUS
<1>1. \A p \in Slots : Ids(task[p]) \subseteq Int
  BY DEF TypeOK, Task, Ids, Pids
<1>2. last_pid \in Int /\ next_safe \in Int
  BY PidAssumption DEF TypeOK
<1>3. \A y \in Int : y \in ((last_pid + 1)..(next_safe - 1)) <=> last_pid < y /\ y < next_safe
  BY <1>2
<1>4. \A p \in Slots : Ids(task[p]) \cap ((last_pid + 1)..(next_safe - 1)) = {}
         <=> \A y \in Ids(task[p]) : ~(last_pid < y /\ y < next_safe)
  BY <1>1, <1>3
<1>5. (\A p \in Linked : Ids(task[p]) \cap ((last_pid + 1)..(next_safe - 1)) = {})
         <=> \A y \in Taken : ~(last_pid < y /\ y < next_safe)
  BY <1>4 DEF Taken, Linked
<1> QED BY <1>5 DEF GapIsFree, NoneTaken

\* get_pid gives an id that no task of the list has, and a new gap without ids.
LEMMA GetPidFresh ==
    ASSUME TypeOK, GapIsFree, ~unseen, NEW x \in Pids, NEW n \in 1..PID_MAX,
           GetPid(x, n)
    PROVE  x \notin Taken /\ \A y \in Taken : ~(x < y /\ y < n)
<1>1. last_pid \in Int /\ next_safe \in Int /\ x \in Int /\ n \in Int
  BY PidAssumption DEF TypeOK, Pids
<1>2. Taken \subseteq Int
  BY TakenIs DEF TypeOK, Task, Ids, Pids
<1>3. CASE Safe /\ x = last_pid + 1 /\ n = next_safe
  <2>1. \A y \in Taken : ~(last_pid < y /\ y < next_safe)
    BY GapIsTaken DEF NoneTaken
  <2> QED BY <1>1, <1>2, <1>3, <2>1 DEF Safe
<1>4. CASE x \in Candidates \ Taken /\ SafeUpTo(x, n)
  BY <1>1, <1>2, <1>4 DEF SafeUpTo
<1> QED BY <1>3, <1>4 DEF GetPid

\* A step that brings no id above last_pid into the task list keeps the gap.
LEMMA GapKept ==
    ASSUME TypeOK, TypeOK', GapIsFree, ~unseen' => ~unseen,
           last_pid' = last_pid, next_safe' = next_safe,
           ~unseen' => \A y \in Taken' : y \in Taken \/ y <= last_pid
    PROVE  GapIsFree'
<1>1. last_pid \in Int /\ Taken' \subseteq Int
  BY PidAssumption, TakenIs DEF TypeOK, Task, Ids, Pids, Taken, Linked
<1>2. NoneTaken
  BY GapIsTaken
<1>3. NoneTaken'
  BY <1>1, <1>2 DEF NoneTaken
<1>4. TypeOK' => (GapIsFree' <=> NoneTaken')
  BY GapIsTaken, PTL
<1> QED BY <1>3, <1>4

LEMMA UniqueKept ==
    ASSUME PidsUnique, ~unseen' => ~unseen,
           \A q \in Slots : task'[q].state # "free" =>
              task[q].state # "free" /\ task'[q].pid = task[q].pid
    PROVE  PidsUnique'
  BY DEF PidsUnique, Allocated

-----------------------------------------------------------------------------
(***************************************************************************)
(* Each step keeps the three facts about ids.                              *)
(***************************************************************************)
IdFacts == Flight /\ GapIsFree /\ PidsUnique

LEMMA IdsBegins ==
    ASSUME TypeOK, Pairs, IdFacts, NEW c \in Slots, NEW p \in Slots, NEW x \in Pids,
           NEW n \in 1..PID_MAX, ForkBegins(c, p, x, n)
    PROVE  IdFacts'
<1>1. /\ TypeOK' /\ c # p /\ SameBut({c, p}) /\ ChildOnly(c)
      /\ task'[c].child = p
      /\ task'[p].state = "forking" /\ task'[p].pid = x
      /\ task'[p].pgrp = task[c].pgrp /\ task'[p].session = task[c].session
      /\ task'[p].child = NULL
  BY BeginsShape
<1>2. ~unseen' => ~unseen /\ ~(x <= last_pid /\ Forkers # {})
  BY Zenon DEF ForkBegins
<1>3. GetPid(x, n) /\ last_pid' = x /\ next_safe' = n /\ Runs(c) /\ task[p].state = "free"
  BY DEF ForkBegins
<1>4. last_pid \in Int /\ x \in Int /\ \A q \in Slots : task[q].pid \in Int
  BY PidAssumption DEF TypeOK, Task, Pids
<1>5. ASSUME ~unseen', NEW d \in Forkers
      PROVE  task[task[d].child].pid <= last_pid /\ last_pid < x
  BY <1>2, <1>4, <1>5 DEF IdFacts, Flight
<1>6. \A q \in Slots : task[q].child # p /\ task[q].child # c
  BY <1>3, SlotsAssumption DEF Pairs, OwnChild, Runs
<1>7. Taken' = Taken
  <2>1. \A q \in Slots : q \in Linked' <=> q \in Linked
    BY <1>1, <1>3 DEF SameBut, ChildOnly, Linked, Runs
  <2>2. \A q \in Slots \ {p} : Ids(task'[q]) = Ids(task[q])
    BY <1>1 DEF SameBut, ChildOnly, Ids
  <2>3. p \notin Linked
    BY <1>3 DEF Linked
  <2> QED BY <2>1, <2>2, <2>3 DEF Taken, Linked
<1>8. Flight'
  <2> SUFFICES ASSUME ~unseen', NEW d \in Slots, task'[d].child # NULL
               PROVE  /\ task'[task'[d].child].pid <= x
                      /\ task'[task'[d].child].pgrp = task'[d].pgrp
                      /\ task'[task'[d].child].session = task'[d].session
    BY <1>3 DEF Flight, Forkers
  <2>1. CASE d = c
    BY <1>1, <1>4, <2>1 DEF ChildOnly
  <2>2. CASE d # c
    <3>1. d # p /\ task'[d] = task[d] /\ d \in Forkers
      BY <1>1, <2>2 DEF SameBut, Forkers
    <3>2. task[d].child \in Slots \ {c, p}
      BY <1>6, <3>1, ChildType DEF Forkers
    <3>3. task'[task[d].child] = task[task[d].child]
      BY <1>1, <3>2 DEF SameBut
    <3>4. /\ task[task[d].child].pgrp = task[d].pgrp
          /\ task[task[d].child].session = task[d].session
      BY <1>2, <3>1 DEF IdFacts, Flight
    <3> QED BY <1>4, <1>5, <3>1, <3>2, <3>3, <3>4
  <2> QED BY <2>1, <2>2
<1>9. GapIsFree'
  <2>1. ~unseen' => x \notin Taken /\ \A y \in Taken : ~(x < y /\ y < n)
    BY <1>2, <1>3, GetPidFresh DEF IdFacts
  <2>2. NoneTaken'
    BY <1>3, <1>7, <2>1 DEF NoneTaken
  <2>3. TypeOK' => (GapIsFree' <=> NoneTaken')
    BY GapIsTaken, PTL
  <2> QED BY <1>1, <2>2, <2>3
<1>10. PidsUnique'
  <2>1. ASSUME ~unseen', NEW q \in Slots, task[q].state # "free"
        PROVE  task[q].pid # x
    <3>1. CASE q \in Linked
      <4>1. x \notin Taken
        BY <1>2, <1>3, <2>1, GetPidFresh DEF IdFacts
      <4> QED BY <3>1, <4>1 DEF Taken, Ids
    <3>2. CASE q \notin Linked
      <4>1. task[q].state = "forking"
        BY <2>1, <3>2 DEF Linked, TypeOK, Task
      <4>2. PICK d \in Slots : task[d].child = q
        BY <4>1 DEF Pairs, NoOrphan
      <4>3. d \in Forkers
        BY <4>2, SlotsAssumption DEF Forkers
      <4> QED BY <1>4, <1>5, <2>1, <4>2, <4>3
    <3> QED BY <3>1, <3>2
  <2>2. \A q \in Slots \ {p} : task'[q].pid = task[q].pid /\ task'[q].state = task[q].state
    BY <1>1 DEF SameBut, ChildOnly
  <2> QED BY <1>1, <1>2, <2>1, <2>2 DEF IdFacts, PidsUnique, Allocated
<1> QED BY <1>8, <1>9, <1>10 DEF IdFacts

\* get_pid gives up: nothing is claimed afterwards.
LEMMA IdsNoPid ==
    ASSUME TypeOK, NEW c \in Slots, NEW n \in 1..PID_MAX, ForkNoPid(c, n)
    PROVE  IdFacts'
<1>1. unseen'
  BY DEF ForkNoPid
<1> QED BY <1>1 DEF IdFacts, Flight, GapIsFree, PidsUnique

\* Steps that start no fork and touch no fork in flight but, maybe, to end it.
LEMMA FlightKept ==
    ASSUME TypeOK, Flight, ~unseen' => ~unseen, last_pid' = last_pid,
           ~unseen' => \A d \in Slots : task'[d].child # NULL =>
              /\ task'[d].child = task[d].child
              /\ task'[d].pgrp = task[d].pgrp /\ task'[d].session = task[d].session
              /\ LET t == task'[task[d].child]
                     o == task[task[d].child]
                 IN  t.pid = o.pid /\ t.pgrp = o.pgrp /\ t.session = o.session
    PROVE  Flight'
<1> SUFFICES ASSUME ~unseen', NEW d \in Slots, task'[d].child # NULL
             PROVE  /\ task'[task'[d].child].pid <= last_pid'
                    /\ task'[task'[d].child].pgrp = task'[d].pgrp
                    /\ task'[task'[d].child].session = task'[d].session
  BY DEF Flight, Forkers
<1>1. d \in Forkers
  BY DEF Forkers
<1> QED BY <1>1 DEF Flight

LEMMA IdsFails ==
    ASSUME TypeOK, Pairs, IdFacts, NEW c \in Slots, ForkFails(c)
    PROVE  IdFacts'
<1> DEFINE p == task[c].child
<1>1. /\ TypeOK' /\ p \in Slots \ {c} /\ SameBut({c, p}) /\ ChildOnly(c)
      /\ task'[c].child = NULL
      /\ task'[p].state = "free" /\ task'[p].child = NULL
  BY FailsShape DEF FreeTask
<1>2. last_pid' = last_pid /\ next_safe' = next_safe /\ (~unseen' => ~unseen)
  BY DEF ForkFails
<1>3. p # NULL
  BY <1>1, SlotsAssumption
<1>4. task[c].state = "live" /\ \A q \in Slots \ {c} : task[q].child # p
  BY <1>1, <1>3 DEF Pairs, OwnChild, OneParent
<1>5. \A q \in Slots : task[q].child # c
  BY <1>4, SlotsAssumption DEF Pairs, OwnChild
<1> HIDE DEF p
<1>6. \A d \in Slots : task'[d].child # NULL =>
         task'[d] = task[d] /\ task'[task[d].child] = task[task[d].child]
  BY <1>1, <1>4, <1>5, ChildType DEF SameBut
<1>7. Flight'
  BY <1>2, <1>6, FlightKept DEF IdFacts
<1>8. \A q \in Slots \ {p} : /\ task'[q].state = task[q].state
                             /\ task'[q].pid = task[q].pid
                             /\ Ids(task'[q]) = Ids(task[q])
  BY <1>1 DEF SameBut, ChildOnly, Ids
<1>9. Taken' \subseteq Taken
  BY <1>1, <1>8 DEF Taken, Linked
<1>10. GapIsFree'
  BY <1>1, <1>2, <1>9, GapKept DEF IdFacts
<1>11. PidsUnique'
  BY <1>1, <1>2, <1>8, UniqueKept DEF IdFacts
<1> QED BY <1>7, <1>10, <1>11 DEF IdFacts

LEMMA IdsLinks ==
    ASSUME TypeOK, Pairs, IdFacts, NEW c \in Slots, NEW thread \in BOOLEAN,
           ForkLinks(c, thread)
    PROVE  IdFacts'
<1> DEFINE p == task[c].child
<1>1. /\ TypeOK' /\ p \in Slots \ {c} /\ SameBut({c, p}) /\ ChildOnly(c)
      /\ task'[c].child = NULL
      /\ task'[p].state = "live" /\ task'[p].child = task[p].child
      /\ task'[p].pid = task[p].pid /\ task'[p].pgrp = task[p].pgrp
      /\ task'[p].session = task[p].session
      /\ task'[p].tgid \in {task[p].pid, task[c].tgid}
  BY LinksShape
<1>2. last_pid' = last_pid /\ next_safe' = next_safe /\ (~unseen' => ~unseen)
  BY DEF ForkLinks
<1>3. p # NULL
  BY <1>1, SlotsAssumption
<1>4. /\ task[c].state = "live" /\ \A q \in Slots \ {c} : task[q].child # p
      /\ task[p].state = "forking" /\ task[p].child = NULL
  BY <1>1, <1>3 DEF Pairs, OwnChild, OneParent, NoOrphan
<1>5. \A q \in Slots : task[q].child # c
  BY <1>4, SlotsAssumption DEF Pairs, OwnChild
<1>6. c \in Linked /\ Ids(task[c]) \subseteq Taken
  BY <1>4 DEF Linked, Taken
<1>7. ~unseen => /\ task[p].pid <= last_pid
                 /\ task[p].pgrp = task[c].pgrp /\ task[p].session = task[c].session
  BY <1>3 DEF IdFacts, Flight, Forkers
<1> HIDE DEF p
<1>8. \A d \in Slots : task'[d].child # NULL =>
         task'[d] = task[d] /\ task'[task[d].child] = task[task[d].child]
  BY <1>1, <1>4, <1>5, ChildType DEF SameBut
<1>9. Flight'
  BY <1>2, <1>8, FlightKept DEF IdFacts
<1>10. \A q \in Slots \ {p} : /\ task'[q].state = task[q].state
                              /\ task'[q].pid = task[q].pid
                              /\ Ids(task'[q]) = Ids(task[q])
  BY <1>1 DEF SameBut, ChildOnly, Ids
<1>11. ~unseen => \A y \in Ids(task'[p]) : y \in Ids(task[c]) \/ y <= last_pid
  BY <1>1, <1>7 DEF Ids
<1>12. ~unseen' => \A y \in Taken' : y \in Taken \/ y <= last_pid
  BY <1>1, <1>2, <1>6, <1>10, <1>11 DEF Taken, Linked
<1>13. GapIsFree'
  BY <1>1, <1>2, <1>12, GapKept DEF IdFacts
<1>14. \A q \in Slots : task'[q].state # "free" =>
          task[q].state # "free" /\ task'[q].pid = task[q].pid
  BY <1>1, <1>4, <1>10
<1>15. PidsUnique'
  BY <1>2, <1>14, UniqueKept DEF IdFacts
<1> QED BY <1>9, <1>13, <1>15 DEF IdFacts

LEMMA IdsExit ==
    ASSUME TypeOK, Pairs, IdFacts, NEW c \in Slots, NEW reaper \in Slots, Exit(c, reaper)
    PROVE  IdFacts'
<1>1. /\ TypeOK'
      /\ \A q \in Slots : task'[q].child = task[q].child /\ Ids(task'[q]) = Ids(task[q])
      /\ \A q \in Slots : /\ task'[q].pid = task[q].pid /\ task'[q].pgrp = task[q].pgrp
                          /\ task'[q].session = task[q].session
      /\ \A q \in Slots \ {c} : task'[q].state = task[q].state
      /\ task[c].state = "live" /\ task'[c].state = "zombie"
  BY ExitShape
<1>2. last_pid' = last_pid /\ next_safe' = next_safe /\ (~unseen' => ~unseen)
  BY DEF Exit
<1>3. Flight'
  <2>1. \A d \in Slots : task'[d].child # NULL =>
           /\ task'[d].child = task[d].child
           /\ task'[d].pgrp = task[d].pgrp /\ task'[d].session = task[d].session
           /\ LET t == task'[task[d].child]
                  o == task[task[d].child]
              IN  t.pid = o.pid /\ t.pgrp = o.pgrp /\ t.session = o.session
    BY <1>1, ChildType
  <2> QED BY <1>2, <2>1, FlightKept DEF IdFacts
<1>4. Taken' \subseteq Taken
  BY <1>1 DEF Taken, Linked
<1>5. GapIsFree'
  BY <1>1, <1>2, <1>4, GapKept DEF IdFacts
<1>6. PidsUnique'
  BY <1>1, <1>2, UniqueKept DEF IdFacts
<1> QED BY <1>3, <1>5, <1>6 DEF IdFacts

\* Steps that change one task of the list, which is not inside do_fork.
LEMMA IdsSame ==
    ASSUME TypeOK, TypeOK', Pairs, IdFacts, NEW p \in Slots, SameBut({p}),
           last_pid' = last_pid, next_safe' = next_safe, ~unseen' => ~unseen,
           task[p].state \in {"live", "zombie"},
           ~unseen' => task'[p].child = NULL,
           task'[p].state # "free" =>
              task'[p].pid = task[p].pid /\ Ids(task'[p]) \subseteq Taken
    PROVE  IdFacts'
<1>1. \A q \in Slots : task[q].child # p
  BY SlotsAssumption DEF Pairs, OwnChild
<1>2. ~unseen' => \A d \in Slots : task'[d].child # NULL =>
         task'[d] = task[d] /\ task'[task[d].child] = task[task[d].child]
  BY <1>1, ChildType DEF SameBut
<1>3. Flight'
  BY <1>2, FlightKept DEF IdFacts
<1>4. Taken' \subseteq Taken
  BY DEF Taken, Linked, SameBut
<1>5. GapIsFree'
  BY <1>4, GapKept DEF IdFacts
<1>6. \A q \in Slots : task'[q].state # "free" =>
          task[q].state # "free" /\ task'[q].pid = task[q].pid
  BY DEF SameBut
<1>7. PidsUnique'
  BY <1>6, UniqueKept DEF IdFacts
<1> QED BY <1>3, <1>5, <1>7 DEF IdFacts

LEMMA IdsRelease ==
    ASSUME TypeOK, Pairs, IdFacts, NEW z \in Slots, Release(z)
    PROVE  IdFacts'
<1>1. /\ TypeOK' /\ SameBut({z}) /\ task[z].state = "zombie"
      /\ task'[z].state = "free" /\ task'[z].child = NULL
  BY ReleaseShape DEF FreeTask
<1>2. last_pid' = last_pid /\ next_safe' = next_safe /\ (~unseen' => ~unseen)
  BY DEF Release
<1> QED BY <1>1, <1>2, IdsSame

LEMMA IdsSetsid ==
    ASSUME TypeOK, Pairs, IdFacts, NEW c \in Slots, sys_setsid(c)
    PROVE  IdFacts'
<1>1. /\ TypeOK' /\ SameBut({c}) /\ task[c].state = "live"
      /\ task'[c].state = "live" /\ task'[c].child = NULL
      /\ task'[c].pid = task[c].pid /\ Ids(task'[c]) \subseteq Ids(task[c])
  BY SetsidShape
<1>2. last_pid' = last_pid /\ next_safe' = next_safe /\ (~unseen' => ~unseen)
  BY DEF sys_setsid
<1>3. Ids(task[c]) \subseteq Taken
  BY <1>1 DEF Taken, Linked
<1> QED BY <1>1, <1>2, <1>3, IdsSame

LEMMA IdsSetpgid ==
    ASSUME TypeOK, Pairs, IdFacts, NEW c \in Slots, NEW p \in Slots,
           NEW pgid \in Pids \ {0}, sys_setpgid(c, p, pgid)
    PROVE  IdFacts'
<1>1. /\ TypeOK' /\ SameBut({p}) /\ p \in Linked
      /\ task'[p].state = task[p].state /\ task'[p].child = task[p].child
      /\ task'[p].pid = task[p].pid /\ Ids(task'[p]) \subseteq Taken
  BY SetpgidShape
<1>2. last_pid' = last_pid /\ next_safe' = next_safe
  BY DEF sys_setpgid
<1>3. ~unseen' => ~unseen /\ task[p].child = NULL
  BY Zenon DEF sys_setpgid
<1> QED BY <1>1, <1>2, <1>3, IdsSame DEF Linked

-----------------------------------------------------------------------------
(***************************************************************************)
(* Ids are safe.                                                           *)
(***************************************************************************)
LEMMA IdInit == Init => IdInv
<1> SUFFICES ASSUME Init PROVE IdInv
  OBVIOUS
<1>1. TypeOK
  BY TypeInit
<1>2. \A q \in Slots : /\ task[q].child = NULL
                       /\ task[q].state = IF q = InitSlot THEN "live" ELSE "free"
  BY DEF Init, FreeTask
<1>3. Pairs
  BY <1>2 DEF Pairs, OwnChild, OneParent, NoOrphan
<1>4. Flight
  BY <1>2 DEF Flight, Forkers
<1>5. Linked = {InitSlot} /\ Allocated = {InitSlot}
  BY <1>2, SlotsAssumption DEF Linked, Allocated
<1>6. Ids(task[InitSlot]) = {0, 1} /\ last_pid = 1
  BY SlotsAssumption DEF Init, FreeTask, Ids
<1>7. GapIsFree
  BY <1>1, <1>5, <1>6, PidAssumption DEF GapIsFree, TypeOK
<1>8. PidsUnique
  BY <1>5 DEF PidsUnique
<1> QED BY <1>1, <1>3, <1>4, <1>7, <1>8 DEF IdInv

LEMMA IdStep == IdInv /\ [Next]_vars => IdInv'
<1> SUFFICES ASSUME IdInv, [Next]_vars PROVE IdInv'
  OBVIOUS
<1>0. TypeOK /\ Pairs /\ IdFacts
  BY DEF IdInv, IdFacts
<1> SUFFICES TypeOK' /\ Pairs' /\ IdFacts'
  BY DEF IdInv, IdFacts
<1>1. ASSUME NEW c \in Slots, NEW p \in Slots, NEW x \in Pids, NEW n \in 1..PID_MAX,
             ForkBegins(c, p, x, n)
      PROVE  TypeOK' /\ Pairs' /\ IdFacts'
  BY <1>0, <1>1, BeginsShape, PairsBegins, IdsBegins
<1>2. ASSUME NEW c \in Slots, NEW n \in 1..PID_MAX, ForkNoPid(c, n)
      PROVE  TypeOK' /\ Pairs' /\ IdFacts'
  <2>1. Pairs'
    BY <1>0, <1>2, NoPidShape DEF Pairs, OwnChild, OneParent, NoOrphan
  <2> QED BY <1>0, <1>2, <2>1, NoPidShape, IdsNoPid
<1>3. ASSUME NEW c \in Slots, ForkFails(c)
      PROVE  TypeOK' /\ Pairs' /\ IdFacts'
  BY <1>0, <1>3, FailsShape, PairsFails, IdsFails
<1>4. ASSUME NEW c \in Slots, NEW thread \in BOOLEAN, ForkLinks(c, thread)
      PROVE  TypeOK' /\ Pairs' /\ IdFacts'
  <2>1. TypeOK'
    BY <1>0, <1>4, LinksShape
  <2>2. Pairs'
    BY <1>0, <1>4, PairsLinks
  <2>3. IdFacts'
    BY <1>0, <1>4, IdsLinks
  <2> QED BY <2>1, <2>2, <2>3
<1>5. ASSUME NEW c \in Slots, NEW reaper \in Slots, Exit(c, reaper)
      PROVE  TypeOK' /\ Pairs' /\ IdFacts'
  BY <1>0, <1>5, ExitShape, PairsExit, IdsExit
<1>6. ASSUME NEW z \in Slots, Release(z)
      PROVE  TypeOK' /\ Pairs' /\ IdFacts'
  BY <1>0, <1>6, ReleaseShape, PairsRelease, IdsRelease
<1>7. ASSUME NEW c \in Slots, sys_setsid(c)
      PROVE  TypeOK' /\ Pairs' /\ IdFacts'
  BY <1>0, <1>7, SetsidShape, PairsSetsid, IdsSetsid
<1>8. ASSUME NEW c \in Slots, NEW p \in Slots, NEW pgid \in Pids \ {0},
             sys_setpgid(c, p, pgid)
      PROVE  TypeOK' /\ Pairs' /\ IdFacts'
  BY <1>0, <1>8, SetpgidShape, PairsSetpgid, IdsSetpgid
<1>9. CASE UNCHANGED vars
  <2>1. task' = task /\ last_pid' = last_pid /\ next_safe' = next_safe
        /\ nr_threads' = nr_threads /\ processes' = processes /\ unseen' = unseen
    BY <1>9 DEF vars
  <2>2. TypeOK'
    BY <1>0, <2>1 DEF TypeOK
  <2>3. Pairs'
    BY <1>0, <2>1 DEF Pairs, OwnChild, OneParent, NoOrphan
  <2>4. IdFacts'
    BY <1>0, <2>1 DEF IdFacts, Flight, Forkers, GapIsFree, PidsUnique, Linked, Allocated
  <2> QED BY <2>2, <2>3, <2>4
<1> QED BY <1>1, <1>2, <1>3, <1>4, <1>5, <1>6, <1>7, <1>8, <1>9, Zenon DEF Next

(***************************************************************************)
(* get_pid is right to trust next_safe without looking at the task list,   *)
(* however forks, exits, setsid and setpgid interleave with its calls,     *)
(* until one of the three events that set unseen.                          *)
(***************************************************************************)
THEOREM NextSafeIsTrusted == Spec => []GapIsFree
<1>1. IdInv => GapIsFree
  BY DEF IdInv
<1> QED BY <1>1, IdInit, IdStep, PTL DEF Spec

(***************************************************************************)
(* And so no pid is given to two tasks, a child still asleep in do_fork    *)
(* included.                                                               *)
(***************************************************************************)
THEOREM PidsAreUnique == Spec => []PidsUnique
<1>1. IdInv => PidsUnique
  BY DEF IdInv
<1> QED BY <1>1, IdInit, IdStep, PTL DEF Spec

-----------------------------------------------------------------------------
(***************************************************************************)
(* Counters.  How each step changes the three sets they count.             *)
(***************************************************************************)
CountInv == IdInv /\ CountersExact /\ ThreadsBounded

SameSets == Linked' = Linked /\ Allocated' = Allocated /\ Forkers' = Forkers

LEMMA SetsAreFinite ==
    IsFiniteSet(Linked) /\ IsFiniteSet(Allocated) /\ IsFiniteSet(Forkers)
<1>1. Linked \subseteq Slots /\ Allocated \subseteq Slots /\ Forkers \subseteq Slots
  BY DEF Linked, Allocated, Forkers
<1> QED BY <1>1, FS_Subset, SlotsAssumption

LEMMA SetsBegins ==
    ASSUME TypeOK, Pairs, NEW c \in Slots, NEW p \in Slots, NEW x \in Pids,
           NEW n \in 1..PID_MAX, ForkBegins(c, p, x, n)
    PROVE  /\ Linked' = Linked
           /\ p \notin Allocated /\ Allocated' = Allocated \cup {p}
           /\ Forkers' \subseteq Linked'
<1>1. /\ TypeOK' /\ c # p /\ SameBut({c, p}) /\ task'[c].state = task[c].state
      /\ task'[p].state = "forking" /\ task[p].state = "free" /\ task[c].state = "live"
  BY BeginsShape DEF ChildOnly, ForkBegins, Runs
<1>2. Pairs'
  BY PairsBegins
<1>3. Linked' = Linked
  BY <1>1 DEF Linked, SameBut
<1>4. p \notin Allocated /\ Allocated' = Allocated \cup {p}
  BY <1>1 DEF Allocated, SameBut
<1>5. Forkers' \subseteq Linked'
  BY <1>2 DEF Pairs, OwnChild, Forkers, Linked
<1> QED BY <1>3, <1>4, <1>5

LEMMA SetsFails ==
    ASSUME TypeOK, Pairs, NEW c \in Slots, ForkFails(c)
    PROVE  /\ Linked' = Linked
           /\ task[c].child \in Allocated /\ Allocated' = Allocated \ {task[c].child}
           /\ c \in Forkers /\ Forkers' = Forkers \ {c}
<1> DEFINE p == task[c].child
<1>1. /\ p \in Slots \ {c} /\ SameBut({c, p}) /\ task'[c].child = NULL
      /\ task'[c].state = task[c].state
      /\ task'[p].state = "free" /\ task'[p].child = NULL
  BY FailsShape DEF ChildOnly, FreeTask
<1>2. p # NULL
  BY <1>1, SlotsAssumption
<1>3. task[p].state = "forking" /\ task[p].child = NULL /\ task[c].state = "live"
  BY <1>1, <1>2 DEF Pairs, OwnChild, NoOrphan
<1>4. c \in Forkers
  BY <1>2 DEF Forkers
<1> HIDE DEF p
<1>5. Linked' = Linked
  BY <1>1, <1>3 DEF Linked, SameBut
<1>6. p \in Allocated /\ Allocated' = Allocated \ {p}
  BY <1>1, <1>3 DEF Allocated, SameBut
<1>7. Forkers' = Forkers \ {c}
  BY <1>1, <1>3 DEF Forkers, SameBut
<1> QED BY <1>4, <1>5, <1>6, <1>7 DEF p

LEMMA SetsLinks ==
    ASSUME TypeOK, Pairs, NEW c \in Slots, NEW thread \in BOOLEAN,
           ForkLinks(c, thread)
    PROVE  /\ task[c].child \notin Linked /\ Linked' = Linked \cup {task[c].child}
           /\ Allocated' = Allocated
           /\ c \in Forkers /\ Forkers' = Forkers \ {c}
<1> DEFINE p == task[c].child
<1>1. /\ p \in Slots \ {c} /\ SameBut({c, p}) /\ task'[c].child = NULL
      /\ task'[c].state = task[c].state
      /\ task'[p].state = "live" /\ task'[p].child = task[p].child
  BY LinksShape DEF ChildOnly
<1>2. p # NULL
  BY <1>1, SlotsAssumption
<1>3. task[p].state = "forking" /\ task[p].child = NULL /\ task[c].state = "live"
  BY <1>1, <1>2 DEF Pairs, OwnChild, NoOrphan
<1>4. c \in Forkers
  BY <1>2 DEF Forkers
<1> HIDE DEF p
<1>5. p \notin Linked /\ Linked' = Linked \cup {p}
  BY <1>1, <1>3 DEF Linked, SameBut
<1>6. Allocated' = Allocated
  BY <1>1, <1>3 DEF Allocated, SameBut
<1>7. Forkers' = Forkers \ {c}
  BY <1>1, <1>3 DEF Forkers, SameBut
<1> QED BY <1>4, <1>5, <1>6, <1>7 DEF p

LEMMA SetsRelease ==
    ASSUME TypeOK, Pairs, NEW z \in Slots, Release(z)
    PROVE  /\ z \in Linked /\ Linked' = Linked \ {z}
           /\ z \in Allocated /\ Allocated' = Allocated \ {z}
           /\ Forkers' = Forkers
<1>1. /\ SameBut({z}) /\ task[z].state = "zombie"
      /\ task'[z].state = "free" /\ task'[z].child = NULL
  BY ReleaseShape DEF FreeTask
<1>2. task[z].child = NULL
  BY <1>1 DEF Pairs, OwnChild
<1>3. z \in Linked /\ Linked' = Linked \ {z}
  BY <1>1 DEF Linked, SameBut
<1>4. z \in Allocated /\ Allocated' = Allocated \ {z}
  BY <1>1 DEF Allocated, SameBut
<1>5. Forkers' = Forkers
  BY <1>1, <1>2 DEF Forkers, SameBut
<1> QED BY <1>3, <1>4, <1>5

\* The other steps change neither the sets nor the counters.
LEMMA SetsSame ==
    ASSUME TypeOK, Pairs, NEW c \in Slots,
           \/ \E n \in 1..PID_MAX : ForkNoPid(c, n)
           \/ \E reaper \in Slots : Exit(c, reaper)
           \/ sys_setsid(c)
           \/ \E p \in Slots, pgid \in Pids \ {0} : sys_setpgid(c, p, pgid)
    PROVE  SameSets /\ nr_threads' = nr_threads /\ processes' = processes
<1>1. ASSUME NEW n \in 1..PID_MAX, ForkNoPid(c, n)
      PROVE  SameSets /\ nr_threads' = nr_threads /\ processes' = processes
  BY <1>1 DEF ForkNoPid, SameSets, Linked, Allocated, Forkers
<1>2. ASSUME NEW reaper \in Slots, Exit(c, reaper)
      PROVE  SameSets /\ nr_threads' = nr_threads /\ processes' = processes
  <2>1. /\ \A q \in Slots : task'[q].child = task[q].child
        /\ \A q \in Slots \ {c} : task'[q].state = task[q].state
        /\ task[c].state = "live" /\ task'[c].state = "zombie"
    BY <1>2, ExitShape
  <2>2. SameSets
    BY <2>1 DEF SameSets, Linked, Allocated, Forkers
  <2> QED BY <1>2, <2>2 DEF Exit
<1>3. ASSUME sys_setsid(c)
      PROVE  SameSets /\ nr_threads' = nr_threads /\ processes' = processes
  <2>1. /\ SameBut({c}) /\ task[c].state = "live" /\ task[c].child = NULL
        /\ task'[c].state = "live" /\ task'[c].child = NULL
    BY <1>3, SetsidShape
  <2>2. SameSets
    BY <2>1 DEF SameSets, SameBut, Linked, Allocated, Forkers
  <2> QED BY <1>3, <2>2 DEF sys_setsid
<1>4. ASSUME NEW p \in Slots, NEW pgid \in Pids \ {0}, sys_setpgid(c, p, pgid)
      PROVE  SameSets /\ nr_threads' = nr_threads /\ processes' = processes
  <2>1. /\ SameBut({p}) /\ task'[p].state = task[p].state
        /\ task'[p].child = task[p].child
    BY <1>4, SetpgidShape
  <2>2. SameSets
    BY <2>1 DEF SameSets, SameBut, Linked, Allocated, Forkers
  <2> QED BY <1>4, <2>2 DEF sys_setpgid
<1> QED BY <1>1, <1>2, <1>3, <1>4, Zenon

LEMMA CountInit == Init => CountInv
<1> SUFFICES ASSUME Init PROVE CountInv
  OBVIOUS
<1>1. IdInv
  BY IdInit
<1>2. \A q \in Slots : /\ task[q].child = NULL
                       /\ task[q].state = IF q = InitSlot THEN "live" ELSE "free"
  BY DEF Init, FreeTask
<1>3. Linked = {InitSlot} /\ Allocated = {InitSlot} /\ Forkers = {}
  BY <1>2, SlotsAssumption DEF Linked, Allocated, Forkers
<1>4. Cardinality({InitSlot}) = 1
  BY FS_Singleton
<1>5. Cardinality({}) = 0
  BY FS_EmptySet
<1>6. nr_threads = 1 /\ processes = 1
  BY DEF Init
<1>7. CountersExact
  BY <1>3, <1>4, <1>6 DEF CountersExact
<1>8. ThreadsBounded
  BY <1>3, <1>5, <1>6, LimitAssumption DEF ThreadsBounded
<1> QED BY <1>1, <1>7, <1>8 DEF CountInv

LEMMA CountStep == CountInv /\ [Next]_vars => CountInv'
<1> SUFFICES ASSUME CountInv, [Next]_vars PROVE CountInv'
  OBVIOUS
<1>0. TypeOK /\ Pairs /\ CountersExact /\ ThreadsBounded
  BY DEF CountInv, IdInv
<1>1. IdInv'
  BY IdStep DEF CountInv
<1> DEFINE L == Cardinality(Linked)
           A == Cardinality(Allocated)
           F == Cardinality(Forkers)
           Good == CountersExact' /\ ThreadsBounded'
<1>2. L \in Nat /\ A \in Nat /\ F \in Nat
  BY SetsAreFinite, FS_CardinalityType
<1>3. nr_threads = L /\ processes = A /\ L + F <= 2 * max_threads - 2
  BY <1>0 DEF CountersExact, ThreadsBounded
<1>4. ASSUME NEW c \in Slots, NEW p \in Slots, NEW x \in Pids, NEW n \in 1..PID_MAX,
             ForkBegins(c, p, x, n)
      PROVE  Good
  <2>1. /\ Linked' = Linked /\ p \notin Allocated /\ Allocated' = Allocated \cup {p}
        /\ Forkers' \subseteq Linked
    BY <1>0, <1>4, SetsBegins
  <2>2. Cardinality(Allocated') = A + 1
    BY <2>1, SetsAreFinite, FS_AddElement
  <2>3. Cardinality(Forkers') \in Nat /\ Cardinality(Forkers') <= L
    BY <2>1, SetsAreFinite, FS_Subset, FS_CardinalityType
  <2>4. nr_threads' = nr_threads /\ processes' = processes + 1 /\ nr_threads < max_threads
    BY <1>4 DEF ForkBegins, HasRoom
  <2>5. CountersExact'
    BY <1>3, <2>1, <2>2, <2>4 DEF CountersExact
  <2>6. ThreadsBounded'
    BY <1>2, <1>3, <2>3, <2>4, LimitAssumption DEF ThreadsBounded
  <2> QED BY <2>5, <2>6
<1>5. ASSUME NEW c \in Slots, ForkFails(c)
      PROVE  Good
  <2>1. /\ Linked' = Linked
        /\ task[c].child \in Allocated /\ Allocated' = Allocated \ {task[c].child}
        /\ c \in Forkers /\ Forkers' = Forkers \ {c}
    BY <1>0, <1>5, SetsFails
  <2>2. Cardinality(Allocated') = A - 1 /\ Cardinality(Forkers') = F - 1
    BY <2>1, SetsAreFinite, FS_RemoveElement
  <2>3. nr_threads' = nr_threads /\ processes' = processes - 1
    BY <1>5 DEF ForkFails
  <2>4. CountersExact'
    BY <1>3, <2>1, <2>2, <2>3 DEF CountersExact
  <2>5. ThreadsBounded'
    BY <1>2, <1>3, <2>2, <2>3, LimitAssumption DEF ThreadsBounded
  <2> QED BY <2>4, <2>5
<1>6. ASSUME NEW c \in Slots, NEW thread \in BOOLEAN, ForkLinks(c, thread)
      PROVE  Good
  <2>1. /\ task[c].child \notin Linked /\ Linked' = Linked \cup {task[c].child}
        /\ Allocated' = Allocated
        /\ c \in Forkers /\ Forkers' = Forkers \ {c}
    BY <1>0, <1>6, SetsLinks
  <2>2. Cardinality(Linked') = L + 1 /\ Cardinality(Forkers') = F - 1
    BY <2>1, SetsAreFinite, FS_AddElement, FS_RemoveElement
  <2>3. nr_threads' = nr_threads + 1 /\ processes' = processes
    BY <1>6 DEF ForkLinks
  <2>4. CountersExact'
    BY <1>3, <2>1, <2>2, <2>3 DEF CountersExact
  <2>5. ThreadsBounded'
    BY <1>2, <1>3, <2>2, <2>3, LimitAssumption DEF ThreadsBounded
  <2> QED BY <2>4, <2>5
<1>7. ASSUME NEW z \in Slots, Release(z)
      PROVE  Good
  <2>1. /\ z \in Linked /\ Linked' = Linked \ {z}
        /\ z \in Allocated /\ Allocated' = Allocated \ {z}
        /\ Forkers' = Forkers
    BY <1>0, <1>7, SetsRelease
  <2>2. Cardinality(Linked') = L - 1 /\ Cardinality(Allocated') = A - 1
    BY <2>1, SetsAreFinite, FS_RemoveElement
  <2>3. nr_threads' = nr_threads - 1 /\ processes' = processes - 1
    BY <1>7 DEF Release
  <2>4. CountersExact'
    BY <1>3, <2>2, <2>3 DEF CountersExact
  <2>5. ThreadsBounded'
    BY <1>2, <1>3, <2>1, <2>3, LimitAssumption DEF ThreadsBounded
  <2> QED BY <2>4, <2>5
<1>8. ASSUME SameSets, nr_threads' = nr_threads, processes' = processes
      PROVE  Good
  BY <1>0, <1>8 DEF SameSets, CountersExact, ThreadsBounded
<1>9. ASSUME NEW c \in Slots,
             \/ \E n \in 1..PID_MAX : ForkNoPid(c, n)
             \/ \E reaper \in Slots : Exit(c, reaper)
             \/ sys_setsid(c)
             \/ \E p \in Slots, pgid \in Pids \ {0} : sys_setpgid(c, p, pgid)
      PROVE  Good
  BY <1>0, <1>8, <1>9, SetsSame
<1>10. ASSUME UNCHANGED vars PROVE Good
  <2>1. SameSets /\ nr_threads' = nr_threads /\ processes' = processes
    BY <1>10 DEF vars, SameSets, Linked, Allocated, Forkers
  <2> QED BY <1>8, <2>1
<1> HIDE DEF Good
<1>11. Good
  BY <1>4, <1>5, <1>6, <1>7, <1>9, <1>10, Zenon DEF Next
<1> QED BY <1>1, <1>11 DEF CountInv, Good

(***************************************************************************)
(* nr_threads and the user's count of processes are exact in every state,  *)
(* whichever exit do_fork takes.                                           *)
(***************************************************************************)
THEOREM CountersAreExact == Spec => []CountersExact
<1>1. CountInv => CountersExact
  BY DEF CountInv
<1> QED BY <1>1, CountInit, CountStep, PTL DEF Spec

(***************************************************************************)
(* max_threads can be exceeded, since do_fork tests nr_threads before it   *)
(* sleeps and counts after, but never beyond 2 * max_threads - 2.          *)
(***************************************************************************)
THEOREM ThreadsAreBounded == Spec => []ThreadsBounded
<1>1. CountInv => ThreadsBounded
  BY DEF CountInv
<1> QED BY <1>1, CountInit, CountStep, PTL DEF Spec
=============================================================================
