------------------------- MODULE PolicyFamilyProofs -------------------------
(***************************************************************************)
(* Proofs about the family of processes in PolicySys: parents, orphans,    *)
(* sleeping in sys_wait4 and waking, for any set of pids.                  *)
(***************************************************************************)
EXTENDS PolicySysProofs

\* init is there, is nobody's child, and nobody is its own parent.
InitLives == /\ task[InitPid].state \notin {"free", "zombie"}
             /\ task[InitPid].parent = 0

NotOwnParent == \A p \in Hashed : task[p].parent # p

Kin == InitLives /\ NotOwnParent /\ ParentAlive /\ NoLostWakeup

\* The inductive invariant.
FamilyInv == TypeOK /\ Kin

-----------------------------------------------------------------------------
\* Nothing a step does to the policy of a task touches its family.
SameLinks(p) == /\ task'[p].state = task[p].state
                /\ task'[p].parent = task[p].parent
                /\ task'[p].wait = task[p].wait

\* A call of c in sys_wait4 that has found a zombie, is told to stop or sleeps.
Reaps(c) == \E z \in Pids : /\ Reap(c, z)
                            /\ task[z].state = "zombie" /\ task[z].parent = c

Leaves(c) == /\ task[c].state \in {"running", "waiting", "woken"}
             /\ task' = [task EXCEPT ![c] = EndWait(@)]

Sleeps(c) == \E w \in Pids \cup {AnyChild} :
                /\ task[c].state \in {"running", "woken"}
                /\ WaitBlocks(c, w)

\* What a step can do to the family.
FamilyStep == \/ \A p \in Pids : SameLinks(p)
              \/ \E c \in Pids : \/ \E child \in Pids : ForkOk(c, child)
                                 \/ Exit(c)
                                 \/ task[c].state \in {"running", "woken"}
                                       /\ Reaps(c)
                                 \/ Leaves(c)
                                 \/ Sleeps(c)

\* The changes of the policy calls are such changes.
LEMMA PolicyLinks ==
    ASSUME NEW t \in Tasks, NEW h \in LogIds \cup {NULL}, NEW l \in Levels
    PROVE  \A u \in {Enabled(t, h), Disabled(t), [t EXCEPT !.logArray = h],
                     [t EXCEPT !.policy_level = l]} :
              /\ u.state = t.state
              /\ u.parent = t.parent
              /\ u.wait = t.wait
BY DEF Enabled, Disabled, Tasks

LEMMA OneTaskLinks ==
    ASSUME NEW pid \in Pids, NEW u, task \in [Pids -> Tasks],
           task' = [task EXCEPT ![pid] = u],
           u.state = task[pid].state, u.parent = task[pid].parent,
           u.wait = task[pid].wait
    PROVE  \A p \in Pids : SameLinks(p)
BY DEF SameLinks

\* Every step of the specification is one of these.
LEMMA NextIsFamilyStep == TypeOK /\ [Next]_vars => FamilyStep
<1> SUFFICES ASSUME TypeOK, [Next]_vars PROVE FamilyStep
  OBVIOUS
<1> DEFINE Same == \A p \in Pids : SameLinks(p)
<1>t. task \in [Pids -> Tasks] /\ \A p \in Pids : task[p] \in Tasks
  BY DEF TypeOK
<1>1. UNCHANGED task => Same
  BY DEF SameLinks
<1>2. ASSUME NEW c \in Pids, EnablePolicy(c) PROVE Same
  <2>1. PICK pid \in PidArgs, size \in SizeArgs, password \in Passwords :
           \/ EnableRefused(c, pid, size, password)
           \/ EnableNoHeader(c, pid, size, password)
           \/ \E h \in LogIds :
                 \/ EnableNoArray(c, pid, size, password, h)
                 \/ \E a \in ArrIds : EnableOk(c, pid, size, password, h, a)
    BY <1>2 DEF EnablePolicy
  <2>2. enable_errno(pid, size, password) = 0 => pid \in Pids
    BY DEF enable_errno, sys_enable_errno, Hashed, ESRCH, EINVAL
  <2>3. CASE EnableRefused(c, pid, size, password)
    BY <1>1, <2>3 DEF EnableRefused, Fail, NoEffect
  <2>4. 2 \in Levels
    BY DEF Levels
  <2>5. CASE EnableNoHeader(c, pid, size, password)
    <3>1. pid \in Pids /\ task' = [task EXCEPT ![pid].logArray = NULL]
      BY <2>2, <2>5 DEF EnableNoHeader
    <3>2. QED
      BY <1>t, <2>4, <3>1, PolicyLinks, OneTaskLinks
  <2>6. ASSUME NEW h \in LogIds, EnableNoArray(c, pid, size, password, h)
        PROVE  Same
    <3>1. pid \in Pids /\ task' = [task EXCEPT ![pid].logArray = h]
      BY <2>2, <2>6 DEF EnableNoArray
    <3>2. QED
      BY <1>t, <2>4, <3>1, PolicyLinks, OneTaskLinks
  <2>7. ASSUME NEW h \in LogIds, NEW a \in ArrIds,
               EnableOk(c, pid, size, password, h, a)
        PROVE  Same
    <3>1. pid \in Pids /\ task' = [task EXCEPT ![pid] = Enabled(task[pid], h)]
      BY <1>t, <2>2, <2>7 DEF EnableOk
    <3>2. QED
      BY <1>t, <2>4, <3>1, PolicyLinks, OneTaskLinks
  <2>8. QED
    BY <2>1, <2>3, <2>5, <2>6, <2>7
<1>3. ASSUME NEW c \in Pids, DisablePolicy(c) PROVE Same
  <2>1. PICK pid \in PidArgs, password \in Passwords :
           DisableRefused(c, pid, password) \/ DisableOk(c, pid, password)
    BY <1>3 DEF DisablePolicy
  <2>2. CASE DisableRefused(c, pid, password)
    BY <1>1, <2>2 DEF DisableRefused, Fail, NoEffect
  <2>3. CASE DisableOk(c, pid, password)
    <3>1. pid \in Pids /\ task' = [task EXCEPT ![pid] = Disabled(task[pid])]
      BY <1>t, <2>3 DEF DisableOk, disable_errno, Hashed, ESRCH, EINVAL
    <3>2. NULL \in LogIds \cup {NULL} /\ 2 \in Levels
      BY DEF Levels
    <3>3. QED
      BY <1>t, <3>1, <3>2, PolicyLinks, OneTaskLinks
  <2>4. QED
    BY <2>1, <2>2, <2>3
<1>4. ASSUME NEW c \in Pids, SetProcessCapabilities(c) PROVE Same
  <2>1. PICK pid \in PidArgs, new_level \in LevelArgs, password \in Passwords :
           \/ SetRefused(c, pid, new_level, password)
           \/ SetOk(c, pid, new_level, password)
    BY <1>4 DEF SetProcessCapabilities
  <2>2. CASE SetRefused(c, pid, new_level, password)
    BY <1>1, <2>2 DEF SetRefused, Fail, NoEffect
  <2>3. CASE SetOk(c, pid, new_level, password)
    <3>1. /\ pid \in Pids /\ new_level \in Levels
          /\ task' = [task EXCEPT ![pid].policy_level = new_level]
      BY <2>3, ArgsAssumption
      DEF SetOk, capabilities_errno, Hashed, Levels, ESRCH, EINVAL
    <3>2. NULL \in LogIds \cup {NULL}
      OBVIOUS
    <3>3. QED
      BY <1>t, <3>1, <3>2, PolicyLinks, OneTaskLinks
  <2>4. QED
    BY <2>1, <2>2, <2>3
<1>5. ASSUME NEW c \in Pids, GetProcessLog(c) PROVE Same
  BY <1>1, <1>5 DEF GetProcessLog, GetNothing, GetRefused, GetNoMem, GetFault,
                    GetOk, Fail, NoEffect
<1>6. ASSUME NEW c \in Pids, NEW r, Denied(c, r) PROVE Same
  BY <1>1, <1>6 DEF Denied
<1>7. ASSUME NEW c \in Pids, SchedYield(c) PROVE Same
  BY <1>1, <1>6, <1>7 DEF SchedYield, YieldOk, NoEffect
<1>8. ASSUME NEW c \in Pids, Fork(c) PROVE FamilyStep
  BY <1>1, <1>6, <1>8 DEF Fork, ForkFails, Fail, NoEffect, FamilyStep
<1>9. ASSUME NEW c \in Pids, Wait4(c) PROVE FamilyStep
  <2>1. ASSUME NEW w \in Pids \cup {AnyChild}, WaitLoop(c, w),
               task[c].state \in {"running", "woken"}
        PROVE  FamilyStep
    <3>1. ASSUME NEW z \in Zombies(c, w), Reap(c, z) PROVE Reaps(c)
      BY <3>1 DEF Zombies, Matching, Hashed, Reaps
    <3>2. ASSUME NEW v, WaitReturns(c, v) PROVE Leaves(c)
      BY <2>1, <3>2 DEF WaitReturns, Leaves
    <3>3. ASSUME WaitBlocks(c, w) PROVE Sleeps(c)
      BY <2>1, <3>3 DEF Sleeps
    <3>4. QED
      BY <2>1, <3>1, <3>2, <3>3
      DEF WaitLoop, WaitReap, WaitFault, WaitSignalled, WaitNoChild, FamilyStep
  <2>2. ASSUME NEW w \in Pids \cup {AnyChild}, WaitBegins(c, w)
        PROVE  FamilyStep
    BY <2>1, <2>2 DEF WaitBegins, Running
  <2>3. ASSUME NEW w \in Pids \cup {AnyChild}, WaitNoHang(c, w)
        PROVE  FamilyStep
    BY <2>3 DEF WaitNoHang, WaitReturns, Leaves, Running, FamilyStep
  <2>4. CASE WaitBadOptions(c)
    BY <1>1, <2>4 DEF WaitBadOptions, Fail, NoEffect, FamilyStep
  <2>5. CASE WaitRepeats(c)
    <3>1. task[c].wait \in Pids \cup {AnyChild}
      BY <1>t DEF Tasks
    <3>2. QED
      BY <2>1, <2>5, <3>1 DEF WaitRepeats
  <2>6. CASE WaitInterrupted(c)
    BY <2>6 DEF WaitInterrupted, WaitSignalled, WaitReturns, Leaves, FamilyStep
  <2>7. QED
    BY <1>6, <1>9, <2>2, <2>3, <2>4, <2>5, <2>6 DEF Wait4, FamilyStep
<1>10. CASE Tick \/ UNCHANGED vars
  BY <1>1, <1>10 DEF Tick, vars, FamilyStep
<1>11. QED
  BY <1>2, <1>3, <1>4, <1>5, <1>7, <1>8, <1>9, <1>10 DEF Next, FamilyStep

-----------------------------------------------------------------------------
\* A step that leaves every link alone.
LEMMA SameKin ==
    ASSUME FamilyInv, \A p \in Pids : SameLinks(p) PROVE Kin'
<1>1. Hashed' = Hashed
  BY DEF SameLinks, Hashed
<1>2. InitLives' /\ NotOwnParent'
  BY <1>1, PidsAssumption
  DEF FamilyInv, Kin, InitLives, NotOwnParent, SameLinks, Hashed
<1>3. ParentAlive'
  BY <1>1 DEF FamilyInv, Kin, ParentAlive, SameLinks, Hashed
<1>4. ASSUME NEW p \in Pids, NEW w
      PROVE  Matching(p, w)' = Matching(p, w) /\ Zombies(p, w)' = Zombies(p, w)
  BY <1>1 DEF Matching, Zombies, SameLinks, Hashed
<1>5. NoLostWakeup'
  BY <1>4 DEF FamilyInv, Kin, NoLostWakeup, SameLinks
<1>6. QED
  BY <1>2, <1>3, <1>5 DEF Kin

\* do_fork adds a running child whose parent is running.
LEMMA ForkKin ==
    ASSUME FamilyInv, NEW c \in Pids, NEW child \in Pids, ForkOk(c, child)
    PROVE  Kin'
<1> USE PidsAssumption
<1>t. task \in [Pids -> Tasks]
  BY DEF FamilyInv, Kin, TypeOK
<1>1. /\ task'[child] = Child(c)
      /\ \A p \in Pids \ {child} : task'[p] = task[p]
      /\ task[child].state = "free" /\ task[c].state = "running"
      /\ child # c
  BY <1>t DEF ForkOk, Running, Hashed
<1>2. task'[child].state = "running" /\ task'[child].parent = c
  BY <1>t, <1>1 DEF Child, Tasks
<1>3. Hashed' = Hashed \cup {child} /\ c \in Hashed /\ child \notin Hashed
  BY <1>1, <1>2 DEF Hashed
<1>4. child # InitPid
  BY <1>1 DEF FamilyInv, Kin, InitLives
<1>5. InitLives' /\ NotOwnParent'
  BY <1>1, <1>2, <1>3, <1>4 DEF FamilyInv, Kin, InitLives, NotOwnParent, Hashed
<1>6. ASSUME NEW p \in Hashed', p # InitPid
      PROVE  task'[p].parent \in Hashed' /\ task'[task'[p].parent].state # "zombie"
  <2>1. CASE p = child
    BY <1>1, <1>2, <1>3, <2>1
  <2>2. CASE p # child
    <3>1. p \in Hashed /\ task'[p] = task[p]
      BY <1>1, <1>3, <2>2 DEF Hashed
    <3>2. task[p].parent \in Hashed /\ task[task[p].parent].state # "zombie"
      BY <1>6, <3>1 DEF FamilyInv, Kin, ParentAlive
    <3>3. QED
      BY <1>1, <1>3, <3>1, <3>2 DEF Hashed
  <2>3. QED
    BY <2>1, <2>2
<1>7. ASSUME NEW p \in Pids, task'[p].state = "waiting"
      PROVE  /\ Zombies(p, task[p].wait)' = {}
             /\ Matching(p, task[p].wait)' # {}
  <2>1. /\ p # child /\ task[p].state = "waiting"
        /\ Zombies(p, task[p].wait) = {} /\ Matching(p, task[p].wait) # {}
    BY <1>1, <1>2, <1>7 DEF FamilyInv, Kin, NoLostWakeup
  <2>2. Matching(p, task[p].wait)' # {}
    BY <1>1, <1>3, <2>1 DEF Matching, Hashed
  <2>3. Zombies(p, task[p].wait)' = {}
    BY <1>1, <1>2, <1>3, <2>1 DEF Zombies, Matching, Hashed
  <2>4. QED
    BY <2>2, <2>3
<1>8. NoLostWakeup'
  BY <1>7 DEF NoLostWakeup
<1>9. QED
  BY <1>5, <1>6, <1>8 DEF Kin, ParentAlive

\* release_task takes away a zombie, which is nobody's parent.
LEMMA ReapKin ==
    ASSUME FamilyInv, NEW c \in Pids, Reaps(c),
           task[c].state \in {"running", "woken"}
    PROVE  Kin'
<1> USE PidsAssumption
<1>t. task \in [Pids -> Tasks] /\ \A p \in Pids : task[p] \in Tasks
  BY DEF FamilyInv, Kin, TypeOK
<1>1. PICK z \in Pids : /\ Reap(c, z)
                        /\ task[z].state = "zombie" /\ task[z].parent = c
  BY DEF Reaps
<1>2. /\ z # c /\ task'[z] = FreeTask /\ task'[c] = EndWait(task[c])
      /\ \A p \in Pids \ {c, z} : task'[p] = task[p]
  BY <1>t, <1>1 DEF Reap
<1>3. /\ task'[c].state = "running" /\ task'[c].parent = task[c].parent
      /\ task'[z].state = "free"
  BY <1>t, <1>2 DEF EndWait, FreeTask, Tasks
<1>4. Hashed' = Hashed \ {z} /\ c \in Hashed /\ z \in Hashed
  BY <1>1, <1>2, <1>3 DEF Hashed
<1>5. z # InitPid
  BY <1>1 DEF FamilyInv, Kin, InitLives
<1>6. \A p \in Hashed' : task'[p].parent = task[p].parent
  BY <1>2, <1>3, <1>4 DEF Hashed
<1>7. InitLives' /\ NotOwnParent'
  BY <1>2, <1>3, <1>4, <1>5, <1>6
  DEF FamilyInv, Kin, InitLives, NotOwnParent, Hashed
<1>8. ASSUME NEW p \in Hashed', p # InitPid
      PROVE  task'[p].parent \in Hashed' /\ task'[task'[p].parent].state # "zombie"
  <2>1. p \in Hashed \ {z} /\ task'[p].parent = task[p].parent
    BY <1>4, <1>6, <1>8
  <2>2. task[p].parent \in Hashed /\ task[task[p].parent].state # "zombie"
    BY <1>8, <2>1 DEF FamilyInv, Kin, ParentAlive
  <2>3. task[p].parent # z
    BY <1>1, <2>2
  <2>4. QED
    BY <1>2, <1>3, <1>4, <2>1, <2>2, <2>3 DEF Hashed
<1>9. ASSUME NEW p \in Pids, task'[p].state = "waiting"
      PROVE  /\ Zombies(p, task[p].wait)' = {}
             /\ Matching(p, task[p].wait)' # {}
  <2>1. /\ p # c /\ p # z /\ task'[p] = task[p]
        /\ Zombies(p, task[p].wait) = {} /\ Matching(p, task[p].wait) # {}
    BY <1>2, <1>3, <1>9 DEF FamilyInv, Kin, NoLostWakeup
  <2>2. z \notin Matching(p, task[p].wait)
    BY <1>1, <2>1 DEF Matching
  <2>3. Matching(p, task[p].wait)' # {}
    BY <1>4, <1>6, <2>1, <2>2 DEF Matching
  <2>4. Zombies(p, task[p].wait)' = {}
    BY <1>2, <1>3, <1>4, <1>6, <2>1 DEF Zombies, Matching, Hashed
  <2>5. QED
    BY <2>3, <2>4
<1>10. NoLostWakeup'
  BY <1>9 DEF NoLostWakeup
<1>11. QED
  BY <1>7, <1>8, <1>10 DEF Kin, ParentAlive

\* A caller of sys_wait4 comes back, or goes to sleep with a child to wait for.
LEMMA WaitKin ==
    ASSUME FamilyInv, NEW c \in Pids, Leaves(c) \/ Sleeps(c) PROVE Kin'
<1> USE PidsAssumption
<1>t. task \in [Pids -> Tasks] /\ \A p \in Pids : task[p] \in Tasks
  BY DEF FamilyInv, Kin, TypeOK
<1>1. /\ task[c].state \in {"running", "waiting", "woken"}
      /\ \A p \in Pids \ {c} : task'[p] = task[p]
      /\ task'[c].parent = task[c].parent
      /\ task'[c].state \in {"running", "waiting"}
  <2>1. CASE Leaves(c)
    BY <1>t, <2>1 DEF Leaves, EndWait, Tasks
  <2>2. CASE Sleeps(c)
    <3>1. PICK w \in Pids \cup {AnyChild} : task' = [task EXCEPT ![c] = Asleep(@, w)]
      BY <2>2 DEF Sleeps, WaitBlocks, WaitSleeps
    <3>2. task[c].state \in {"running", "woken"}
      BY <2>2 DEF Sleeps
    <3>3. QED
      BY <1>t, <3>1, <3>2 DEF Asleep, Tasks
  <2>3. QED
    BY <2>1, <2>2
<1>2. Hashed' = Hashed /\ \A p \in Pids : task'[p].parent = task[p].parent
  BY <1>1 DEF Hashed
<1>3. \A p \in Pids : task'[p].state = "zombie" <=> task[p].state = "zombie"
  BY <1>1
<1>4. InitLives' /\ NotOwnParent'
  BY <1>1, <1>2 DEF FamilyInv, Kin, InitLives, NotOwnParent, Hashed
<1>5. ParentAlive'
  BY <1>2, <1>3 DEF FamilyInv, Kin, ParentAlive, Hashed
<1>6. \A p \in Pids : \A w :
         Matching(p, w)' = Matching(p, w) /\ Zombies(p, w)' = Zombies(p, w)
  BY <1>2, <1>3 DEF Matching, Zombies, Hashed
<1>7. task'[c].state = "waiting" => /\ Zombies(c, task'[c].wait) = {}
                                    /\ Matching(c, task'[c].wait) # {}
  <2>1. CASE Leaves(c)
    BY <1>t, <2>1 DEF Leaves, EndWait, Tasks
  <2>2. CASE Sleeps(c)
    <3>1. PICK w \in Pids \cup {AnyChild} : WaitBlocks(c, w)
      BY <2>2 DEF Sleeps
    <3>2. task'[c].wait = w
      BY <1>t, <3>1 DEF WaitBlocks, WaitSleeps, Asleep, Tasks
    <3>3. QED
      BY <3>1, <3>2 DEF WaitBlocks
  <2>3. QED
    BY <2>1, <2>2
<1>8. \A p \in Pids : task'[p].state = "waiting" =>
         /\ Zombies(p, task'[p].wait) = {}
         /\ Matching(p, task'[p].wait) # {}
  BY <1>1, <1>7 DEF FamilyInv, Kin, NoLostWakeup
<1>9. NoLostWakeup'
  BY <1>6, <1>8 DEF NoLostWakeup
<1>10. QED
  BY <1>4, <1>5, <1>9 DEF Kin

\* exit_notify makes c a zombie, gives its children to init, and wakes its
\* parent and, for a zombie among the children, init.
LEMMA ExitKin == ASSUME FamilyInv, NEW c \in Pids, Exit(c) PROVE Kin'
<1> USE PidsAssumption
<1>t. task \in [Pids -> Tasks] /\ \A p \in Pids : task[p] \in Tasks
  BY DEF FamilyInv, Kin, TypeOK
<1>0. /\ \A q \in Pids : task'[q] = AfterExit(c, q)
      /\ c # InitPid /\ task[c].state = "running" /\ c \in Hashed
  BY DEF Exit, Running, Hashed
<1>1. task'[c].state = "zombie" /\ task'[c].parent = task[c].parent
  BY <1>t, <1>0 DEF AfterExit, Tasks
<1>2. ASSUME NEW q \in Pids \ {c}
      PROVE  /\ task'[q].parent = IF q \in Orphans(c) THEN InitPid
                                                      ELSE task[q].parent
             /\ task'[q].wait = task[q].wait
             /\ task'[q].state = IF q \in Notified(c) /\ task[q].state = "waiting"
                                 THEN "woken" ELSE task[q].state
  <2> DEFINE r == IF q \in Orphans(c) THEN [task[q] EXCEPT !.parent = InitPid]
                                      ELSE task[q]
  <2>1. /\ r \in Tasks
        /\ r.parent = IF q \in Orphans(c) THEN InitPid ELSE task[q].parent
        /\ r.wait = task[q].wait /\ r.state = task[q].state
    BY <1>t DEF Tasks
  <2>2. task'[q] = IF q \in Notified(c) THEN Wake(r) ELSE r
    BY <1>0 DEF AfterExit
  <2>3. /\ Wake(r).parent = r.parent /\ Wake(r).wait = r.wait
        /\ Wake(r).state = IF r.state = "waiting" THEN "woken" ELSE r.state
    BY <2>1 DEF Wake, Tasks
  <2> HIDE DEF r
  <2>4. QED
    BY <2>1, <2>2, <2>3
<1>3. /\ Hashed' = Hashed
      /\ \A q \in Pids \ {c} : task'[q].state = "zombie" <=> task[q].state = "zombie"
  BY <1>0, <1>1, <1>2 DEF Hashed
<1>4. InitPid \notin Orphans(c) /\ InitPid \in Hashed
      /\ task[InitPid].state # "zombie"
  BY DEF FamilyInv, Kin, InitLives, Orphans, Hashed
<1>5. InitLives'
  BY <1>0, <1>2, <1>4 DEF FamilyInv, Kin, InitLives
<1>6. NotOwnParent'
  BY <1>1, <1>2, <1>3, <1>4 DEF FamilyInv, Kin, NotOwnParent, Hashed
<1>7. ASSUME NEW p \in Hashed', p # InitPid
      PROVE  task'[p].parent \in Hashed' /\ task'[task'[p].parent].state # "zombie"
  <2>1. /\ p \in Pids /\ p \in Hashed /\ task[p].parent \in Hashed
        /\ task[task[p].parent].state # "zombie"
    BY <1>3, <1>7 DEF FamilyInv, Kin, ParentAlive, Hashed
  <2>2. CASE p \in Orphans(c) /\ p # c
    BY <1>0, <1>2, <1>3, <1>4, <2>1, <2>2
  <2>3. CASE p \notin Orphans(c) \/ p = c
    <3>1. task'[p].parent = task[p].parent
      BY <1>1, <1>2, <2>1, <2>3
    <3>2. task[p].parent # c
      BY <2>1, <2>3 DEF FamilyInv, Kin, NotOwnParent, Orphans
    <3>3. QED
      BY <1>3, <2>1, <3>1, <3>2 DEF Hashed
  <2>4. QED
    BY <2>2, <2>3
<1>8. ASSUME NEW p \in Pids, task'[p].state = "waiting"
      PROVE  /\ Zombies(p, task[p].wait)' = {}
             /\ Matching(p, task[p].wait)' # {}
  <2>1. /\ p # c /\ p \notin Notified(c) /\ task[p].state = "waiting"
        /\ task'[p].wait = task[p].wait
    BY <1>1, <1>2, <1>8
  <2>2. Zombies(p, task[p].wait) = {} /\ Matching(p, task[p].wait) # {}
    BY <2>1 DEF FamilyInv, Kin, NoLostWakeup
  <2>3. /\ task[c].parent # p
        /\ \A q \in Orphans(c) : task[q].state = "zombie" => p # InitPid
    BY <2>1 DEF Notified
  <2>4. Matching(p, task[p].wait)' # {}
    <3>1. PICK q \in Matching(p, task[p].wait) : TRUE
      BY <2>2
    <3>2. q \in Hashed /\ task[q].parent = p /\ task[p].wait \in {AnyChild, q}
      BY <3>1 DEF Matching
    <3>3. q \in Pids \ {c} /\ q \notin Orphans(c)
      BY <2>1, <2>3, <3>2 DEF Orphans, Hashed
    <3>4. q \in Hashed' /\ task'[q].parent = p
      BY <1>2, <1>3, <3>2, <3>3
    <3>5. QED
      BY <2>1, <3>2, <3>4 DEF Matching
  <2>5. ASSUME NEW q \in Zombies(p, task[p].wait)' PROVE FALSE
    <3>1. /\ q \in Hashed' /\ task'[q].parent = p /\ task'[q].state = "zombie"
          /\ task[p].wait \in {AnyChild, q}
      BY <2>1, <2>5 DEF Zombies, Matching
    <3>2. q # c
      BY <1>1, <2>3, <3>1
    <3>3. q \in Pids /\ q \in Hashed /\ task[q].state = "zombie"
      BY <1>3, <3>1, <3>2 DEF Hashed
    <3>4. q \notin Orphans(c)
      BY <1>2, <2>3, <3>1, <3>2, <3>3
    <3>5. task[q].parent = p
      BY <1>2, <3>1, <3>2, <3>3, <3>4
    <3>6. QED
      BY <2>2, <3>1, <3>3, <3>5 DEF Zombies, Matching
  <2>6. QED
    BY <2>4, <2>5
<1>9. NoLostWakeup'
  BY <1>8 DEF NoLostWakeup
<1>10. QED
  BY <1>5, <1>6, <1>7, <1>9 DEF Kin, ParentAlive

-----------------------------------------------------------------------------
\* init alone, running, is a family.
LEMMA FamilyInit == Init => FamilyInv
<1> SUFFICES ASSUME Init PROVE FamilyInv
  OBVIOUS
<1> USE PidsAssumption
<1>1. /\ task[InitPid].state = "running" /\ task[InitPid].parent = 0
      /\ \A p \in Pids \ {InitPid} : task[p].state = "free"
  BY DEF Init, InitTask, FreeTask
<1>2. Hashed = {InitPid} /\ InitPid # 0
  BY <1>1 DEF Hashed
<1>3. QED
  BY <1>1, <1>2, TypeInit
  DEF FamilyInv, Kin, InitLives, NotOwnParent, ParentAlive, NoLostWakeup

\* Every step keeps the family.
LEMMA FamilyKept == FamilyInv /\ [Next]_vars => FamilyInv'
<1> SUFFICES ASSUME FamilyInv, [Next]_vars PROVE FamilyInv'
  OBVIOUS
<1>1. TypeOK /\ TypeOK'
  BY TypeStep DEF FamilyInv, Kin
<1>2. FamilyStep
  BY <1>1, NextIsFamilyStep
<1>3. Kin'
  BY <1>2, SameKin, ForkKin, ExitKin, ReapKin, WaitKin DEF FamilyStep
<1>4. QED
  BY <1>1, <1>3 DEF FamilyInv, Kin

(***************************************************************************)
(* A process asleep in sys_wait4 never has a zombie to reap and always has *)
(* a child left that its call selects: exit_notify's wake-ups are enough,  *)
(* for any number of processes and any order of forks, exits and waits.    *)
(***************************************************************************)
THEOREM WakeupsAreNotLost == Spec => []NoLostWakeup
<1>1. Spec => []FamilyInv
  BY FamilyInit, FamilyKept, PTL DEF Spec
<1>2. FamilyInv => NoLostWakeup
  BY DEF FamilyInv, Kin
<1>3. QED
  BY <1>1, <1>2, PTL

(***************************************************************************)
(* Every process but init has a parent that can still reap it: the way     *)
(* forget_original_parent hands children to init never leaves an orphan.   *)
(***************************************************************************)
THEOREM ParentsAreAlive == Spec => []ParentAlive
<1>1. Spec => []FamilyInv
  BY FamilyInit, FamilyKept, PTL DEF Spec
<1>2. FamilyInv => ParentAlive
  BY DEF FamilyInv, Kin
<1>3. QED
  BY <1>1, <1>2, PTL
=============================================================================
