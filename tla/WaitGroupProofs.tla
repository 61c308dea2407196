--------------------------- MODULE WaitGroupProofs ---------------------------
(***************************************************************************)
(* Theorems about WaitGroup, for any number of tasks in any division into  *)
(* thread groups, any kinds of fork and any options of wait4.              *)
(***************************************************************************)
EXTENDS WaitGroup, TLAPS

(***************************************************************************)
(* What the properties need to be inductive.                               *)
(***************************************************************************)
\* init neither exits nor has a parent: orphans always have somebody to go to.
InitLives ==
    /\ task[InitTask].state \notin {"free", "exiting", "zombie"}
    /\ task[InitTask].parent = NULL

\* Every task of the list has a group, and nobody is its own parent.
HasGroup == \A p \in Tasks : task[p].state # "free" => task[p].tgid \in Tasks
NotOwnParent == \A p \in Tasks : task[p].parent # p

\* The zombie a thread has in hand, unless it was told otherwise, is one.
FoundIsDead ==
    \A t \in Tasks : task[t].found \in Tasks => task[task[t].found].state = "zombie"

\* The discipline: one thread of a group is in wait4, with SIGCHLD not ignored,
\* and what it has in hand is a child of its group.
OneWaits ==
    keeps = "one" => \A t \in InWait :
       /\ action[task[t].tgid] # "ignore"
       /\ \A u \in InWait : task[u].tgid = task[t].tgid => u = t
       /\ task[t].found # STALE
       /\ task[t].found \in Tasks =>
             \E q \in Tasks : /\ task[task[t].found].parent = q
                              /\ task[q].tgid = task[t].tgid

\* A sleeper has a living child, not only a child.
SleepsForLive ==
    \A t \in Tasks : task[t].state = "waiting" /\ task[t].tgid \notin given =>
       \E p \in Children(t, task[t].arg.nothread) : task[p].state # "zombie"

FamilyInv == TypeOK /\ InitLives /\ HasGroup /\ NotOwnParent /\ ParentLives
             /\ FoundIsDead

SleepInv == NoSleepOverDead /\ SleepsForLive

WaitInv == FamilyInv /\ OneWaits /\ SleepInv /\ IgnoredIsPending

-----------------------------------------------------------------------------
(***************************************************************************)
(* Types, task by task.                                                    *)
(***************************************************************************)
WaitStates == {"calling", "waiting", "woken", "copying", "interrupted"}

WellFormed(r) == /\ r \in Task
                 /\ r.arg # NULL <=> r.state \in WaitStates
                 /\ r.found # NULL <=> r.state = "copying"

RestOK == /\ action \in [Tasks -> {"default", "ignore", "handler"}]
          /\ keeps \in {"any", "one"}
          /\ given \subseteq Tasks

LEMMA TypeIs ==
    TypeOK <=> /\ task \in [Tasks -> Task] /\ RestOK
               /\ \A u \in Tasks : WellFormed(task[u])
<1>1. ASSUME task \in [Tasks -> Task], NEW u \in Tasks
      PROVE  u \in InWait <=> task[u].state \in WaitStates
  BY <1>1 DEF InWait, WaitStates
<1> QED BY <1>1 DEF TypeOK, WellFormed, RestOK

LEMMA TypePrime ==
    ASSUME task' \in [Tasks -> Task], RestOK', \A u \in Tasks : WellFormed(task'[u])
    PROVE  TypeOK'
<1>1. ASSUME NEW u \in Tasks
      PROVE  u \in InWait' <=> task'[u].state \in WaitStates
  BY DEF InWait, WaitStates
<1> QED BY <1>1 DEF TypeOK, WellFormed, RestOK

LEMMA FreeTaskType == WellFormed(FreeTask)
  BY DEF FreeTask, WellFormed, Task, States, WaitStates

LEMMA StaleType ==
    ASSUME NEW r, WellFormed(r), r.found \in Tasks
    PROVE  /\ WellFormed([r EXCEPT !.found = STALE])
           /\ r.state = "copying"
  BY TasksAssumption DEF WellFormed, Task

(***************************************************************************)
(* A turn of task t: it goes on to r, the zombies zs are released, and     *)
(* whoever had one of them in hand is left with a stale pointer.           *)
(***************************************************************************)
Turned(t, zs, r) ==
    task' = [u \in Tasks |->
               IF u = t THEN r
               ELSE IF u \in zs THEN FreeTask
               ELSE IF task[u].found \in zs THEN [task[u] EXCEPT !.found = STALE]
               ELSE task[u]]

LEMMA TurnedOne ==
    ASSUME TypeOK, NEW t \in Tasks, NEW r, task' = [task EXCEPT ![t] = r]
    PROVE  Turned(t, {}, r)
  BY DEF TypeOK, Turned

LEMMA TurnedMany ==
    ASSUME TypeOK, NEW t \in Tasks, NEW zs, NEW r,
           task' = [release_task(zs) EXCEPT ![t] = r]
    PROVE  Turned(t, zs, r)
  BY DEF Turned, release_task

LEMMA TurnedType ==
    ASSUME TypeOK, NEW t \in Tasks, NEW zs \in SUBSET Tasks, NEW r, WellFormed(r),
           Turned(t, zs, r), RestOK'
    PROVE  TypeOK'
<1>1. \A u \in Tasks : WellFormed(task'[u])
  <2> TAKE u \in Tasks
  <2>1. WellFormed(task[u])
    BY TypeIs
  <2>2. CASE u = t
    BY <2>2 DEF Turned
  <2>3. CASE u # t /\ u \in zs
    BY <2>3, FreeTaskType DEF Turned
  <2>4. CASE u # t /\ u \notin zs /\ task[u].found \in zs
    <3>1. task'[u] = [task[u] EXCEPT !.found = STALE]
      BY <2>4 DEF Turned
    <3>2. task[u].found \in Tasks
      BY <2>4
    <3> QED BY <3>1, <3>2, <2>1, StaleType
  <2>5. CASE u # t /\ u \notin zs /\ task[u].found \notin zs
    BY <2>1, <2>5 DEF Turned
  <2> QED BY <2>2, <2>3, <2>4, <2>5
<1>2. task' \in [Tasks -> Task]
  <2>1. \A u \in Tasks : task'[u] \in Task
    BY <1>1 DEF WellFormed
  <2>2. task' = [u \in Tasks |-> task'[u]]
    BY DEF Turned
  <2> QED BY <2>1, <2>2
<1> QED BY <1>1, <1>2, TypePrime

\* The same, field by field.
SameFamily(u) == /\ task'[u].parent = task[u].parent
                 /\ task'[u].tgid = task[u].tgid
                 /\ task'[u].clone = task[u].clone

Turn(t, zs) ==
    /\ zs \subseteq Tasks
    /\ \A z \in zs : task[z].state = "zombie" /\ task'[z] = FreeTask
    /\ task[t].state \notin {"free", "exiting", "zombie"}
    /\ task'[t].state \notin {"free", "zombie"}
    /\ t = InitTask => task'[t].state # "exiting"
    /\ task'[t].found \in Tasks =>
          task'[t].found \notin zs /\ task[task'[t].found].state = "zombie"
    /\ \A u \in Tasks \ zs : SameFamily(u)
    /\ \A u \in Tasks \ zs : u # t =>
          /\ task'[u].state = task[u].state
          /\ task'[u].arg = task[u].arg
          /\ task'[u].chld = task[u].chld
          /\ task'[u].found = IF task[u].found \in zs THEN STALE ELSE task[u].found
          /\ task'[u].missed = FALSE => task[u].missed = FALSE

\* What t may go on to.
GoesOn(t, zs, r) ==
    /\ WellFormed(r)
    /\ r.parent = task[t].parent /\ r.tgid = task[t].tgid /\ r.clone = task[t].clone
    /\ r.state \notin {"free", "zombie"}
    /\ t = InitTask => r.state # "exiting"
    /\ r.found \in Tasks => r.found \notin zs /\ task[r.found].state = "zombie"

LEMMA TurnedIsTurn ==
    ASSUME TypeOK, NEW t \in Tasks, NEW zs \in SUBSET Tasks, NEW r,
           \A z \in zs : task[z].state = "zombie",
           task[t].state \notin {"free", "exiting", "zombie"},
           Turned(t, zs, r), GoesOn(t, zs, r)
    PROVE  Turn(t, zs) /\ task'[t] = r
<1>1. task'[t] = r
  BY DEF Turned
<1>2. \A z \in zs : task'[z] = FreeTask
  BY DEF Turned
<1>3. ASSUME NEW u \in Tasks \ zs, u # t
      PROVE  /\ SameFamily(u)
             /\ task'[u].state = task[u].state
             /\ task'[u].arg = task[u].arg
             /\ task'[u].chld = task[u].chld
             /\ task'[u].found = IF task[u].found \in zs THEN STALE ELSE task[u].found
             /\ task'[u].missed = task[u].missed
  <2>1. task[u] \in Task
    BY DEF TypeOK
  <2>2. CASE task[u].found \in zs
    <3>1. task'[u] = [task[u] EXCEPT !.found = STALE]
      BY <1>3, <2>2 DEF Turned
    <3> QED BY <2>1, <2>2, <3>1 DEF SameFamily, Task
  <2>3. CASE task[u].found \notin zs
    <3>1. task'[u] = task[u]
      BY <1>3, <2>3 DEF Turned
    <3> QED BY <2>3, <3>1 DEF SameFamily
  <2> QED BY <2>2, <2>3
<1>4. SameFamily(t)
  BY <1>1 DEF GoesOn, SameFamily
<1> QED BY <1>1, <1>2, <1>3, <1>4 DEF Turn, GoesOn

-----------------------------------------------------------------------------
(***************************************************************************)
(* Every turn keeps the family together.                                   *)
(***************************************************************************)
LEMMA FamilyTurn ==
    ASSUME FamilyInv, TypeOK', NEW t \in Tasks, NEW zs, Turn(t, zs)
    PROVE  FamilyInv'
<1> USE TasksAssumption
<1>0. FreeTask.state = "free" /\ FreeTask.parent = NULL /\ FreeTask.found = NULL
  BY DEF FreeTask
<1>1. InitTask \notin zs
  BY DEF FamilyInv, InitLives, Turn
<1>2. InitLives'
  BY <1>1 DEF FamilyInv, InitLives, Turn, SameFamily
<1>3. HasGroup'
  BY <1>0 DEF FamilyInv, HasGroup, Turn, SameFamily
<1>4. NotOwnParent'
  BY <1>0 DEF FamilyInv, NotOwnParent, Turn, SameFamily
<1>5. ParentLives'
  <2> SUFFICES ASSUME NEW p \in Tasks, task'[p].state # "free", p # InitTask
               PROVE  /\ task'[p].parent \in Tasks
                      /\ task'[task'[p].parent].state \notin {"free", "zombie"}
    BY DEF ParentLives, Linked, Zombies
  <2>1. p \notin zs /\ task[p].state # "free"
    BY <1>0 DEF Turn
  <2>2. /\ task[p].parent \in Tasks
        /\ task[task[p].parent].state \notin {"free", "zombie"}
    BY <2>1 DEF FamilyInv, ParentLives, Linked, Zombies
  <2> QED BY <2>1, <2>2 DEF Turn, SameFamily
<1>6. FoundIsDead'
  <2> SUFFICES ASSUME NEW u \in Tasks, task'[u].found \in Tasks
               PROVE  task'[task'[u].found].state = "zombie"
    BY DEF FoundIsDead
  <2>1. u \notin zs
    BY <1>0 DEF Turn
  <2>2. task[task'[u].found].state = "zombie" /\ task'[u].found \notin zs
    BY <2>1 DEF Turn, FamilyInv, FoundIsDead
  <2>3. task'[u].found # t
    BY <2>2 DEF Turn
  <2> QED BY <2>2, <2>3 DEF Turn
<1> QED BY <1>2, <1>3, <1>4, <1>5, <1>6 DEF FamilyInv

-----------------------------------------------------------------------------
(***************************************************************************)
(* Children and sleepers, in terms of the fields.                          *)
(***************************************************************************)
ChildOf(p, u, nothread) ==
    /\ task[p].state # "free"
    /\ IF nothread THEN task[p].parent = u
       ELSE /\ task[p].parent \in Tasks
            /\ task[task[p].parent].state # "free"
            /\ task[task[p].parent].tgid = task[u].tgid

LEMMA ChildrenIs ==
    ASSUME NEW p \in Tasks, NEW u \in Tasks, NEW nothread \in BOOLEAN
    PROVE  p \in Children(u, nothread) <=> ChildOf(p, u, nothread)
  BY DEF Children, ChildOf, Group, Linked

LEMMA ChildrenAreTasks ==
    \A u, nothread : Children(u, nothread) \subseteq Tasks
  BY DEF Children, Linked

Sees(p, a) == a.want = "all" \/ (task[p].clone <=> a.want = "clone")

LEMMA ArgIs ==
    ASSUME TypeOK, NEW u \in Tasks, task[u].state = "waiting"
    PROVE  task[u].arg \in Args /\ task[u].arg.nothread \in BOOLEAN
<1>1. WellFormed(task[u])
  BY TypeIs
<1>2. task[u].arg \in Args
  BY <1>1 DEF WellFormed, WaitStates, Task
<1> QED BY <1>2 DEF Args

DeadChild(z, u, a) ==
    ChildOf(z, u, a.nothread) /\ Sees(z, a) /\ task[z].state = "zombie"

LiveChild(p, u, a) == ChildOf(p, u, a.nothread) /\ task[p].state # "zombie"

LEMMA DeadIs ==
    ASSUME NEW z \in Tasks, NEW u \in Tasks, NEW a \in Args
    PROVE  z \in Dead(u, a) <=> DeadChild(z, u, a)
<1>1. a.nothread \in BOOLEAN
  BY DEF Args
<1> QED BY <1>1, ChildrenIs DEF Dead, Sight, Sees, DeadChild

LEMMA DeadAreTasks == \A u, a : Dead(u, a) \subseteq Tasks
  BY ChildrenAreTasks DEF Dead, Sight

SleepFields ==
    \A u \in Tasks : task[u].state = "waiting" =>
       /\ ~task[u].chld
       /\ \A z \in Tasks : ~DeadChild(z, u, task[u].arg)
       /\ task[u].tgid \notin given => \E p \in Tasks : LiveChild(p, u, task[u].arg)

LEMMA SleepIs == TypeOK => (SleepInv <=> SleepFields)
<1> SUFFICES ASSUME TypeOK PROVE SleepInv <=> SleepFields
  OBVIOUS
<1>1. ASSUME NEW u \in Tasks, task[u].state = "waiting"
      PROVE  /\ Dead(u, task[u].arg) = {} <=>
                   \A z \in Tasks : ~DeadChild(z, u, task[u].arg)
             /\ (\E p \in Children(u, task[u].arg.nothread) : task[p].state # "zombie")
                   <=> \E p \in Tasks : LiveChild(p, u, task[u].arg)
  <2>1. task[u].arg \in Args /\ task[u].arg.nothread \in BOOLEAN
    BY <1>1, ArgIs
  <2>2. \A z \in Tasks : z \in Dead(u, task[u].arg) <=> DeadChild(z, u, task[u].arg)
    BY <2>1, DeadIs
  <2>3. \A p \in Tasks : p \in Children(u, task[u].arg.nothread)
                           <=> ChildOf(p, u, task[u].arg.nothread)
    BY <2>1, ChildrenIs
  <2>4. Dead(u, task[u].arg) = {} <=> \A z \in Tasks : ~DeadChild(z, u, task[u].arg)
    BY <2>2, DeadAreTasks
  <2>5. (\E p \in Children(u, task[u].arg.nothread) : task[p].state # "zombie")
          <=> \E p \in Tasks : LiveChild(p, u, task[u].arg)
    BY <2>3, ChildrenAreTasks DEF LiveChild
  <2> QED BY <2>4, <2>5
<1> QED BY <1>1 DEF SleepInv, NoSleepOverDead, SleepsForLive, SleepFields

\* The parent of a child is there, and the child is not init.
LEMMA ParentIs ==
    ASSUME FamilyInv, NEW p \in Tasks, NEW u \in Tasks, NEW nothread \in BOOLEAN,
           ChildOf(p, u, nothread)
    PROVE  /\ task[p].parent \in Tasks
           /\ task[task[p].parent].state \notin {"free", "zombie"}
<1>1. task[p].parent \in Tasks
  BY DEF ChildOf
<1>2. p # InitTask
  BY <1>1, TasksAssumption DEF FamilyInv, InitLives
<1> QED BY <1>1, <1>2 DEF FamilyInv, ParentLives, Linked, Zombies, ChildOf

\* A turn gives nobody a child, and takes only the dead ones away.
LEMMA TurnChildren ==
    ASSUME FamilyInv, NEW t \in Tasks, NEW zs, Turn(t, zs),
           NEW p \in Tasks, NEW u \in Tasks \ zs, NEW nothread \in BOOLEAN
    PROVE  /\ ChildOf(p, u, nothread)' => p \notin zs /\ ChildOf(p, u, nothread)
           /\ ChildOf(p, u, nothread) /\ p \notin zs => ChildOf(p, u, nothread)'
<1>0. FreeTask.state = "free"
  BY DEF FreeTask
<1>1. ASSUME NEW q \in Tasks
      PROVE  /\ task'[q].state # "free" => q \notin zs
             /\ task'[q].state # "free" => task[q].state # "free"
             /\ task[q].state # "free" /\ q \notin zs => task'[q].state # "free"
             /\ q \notin zs => SameFamily(q)
  BY <1>0 DEF Turn
<1>2. ASSUME ChildOf(p, u, nothread)' PROVE p \notin zs /\ ChildOf(p, u, nothread)
  BY <1>1, <1>2 DEF ChildOf, SameFamily
<1>3. ASSUME ChildOf(p, u, nothread), p \notin zs PROVE ChildOf(p, u, nothread)'
  <2>1. task[p].parent \in Tasks \ zs
    BY <1>3, ParentIs DEF Turn
  <2> QED BY <1>1, <1>3, <2>1 DEF ChildOf, SameFamily
<1> QED BY <1>2, <1>3

(***************************************************************************)
(* Turns and sleepers: t falls asleep only when nobody it waits for is     *)
(* dead and somebody is alive.                                             *)
(***************************************************************************)
SleepSide(t, zs) ==
    /\ task'[t].state = "waiting" =>
          \/ /\ task[t].state = "waiting"
             /\ task'[t].arg = task[t].arg /\ task'[t].chld = task[t].chld
          \/ /\ Dead(t, task'[t].arg) = {} /\ Sight(t, task'[t].arg) # {}
             /\ ~task'[t].chld
    /\ \A u \in Tasks : task'[u].state = "waiting" /\ task[u].tgid \in given =>
          task[u].tgid \in given'

LEMMA SleepTurn ==
    ASSUME FamilyInv, SleepInv, TypeOK', NEW t \in Tasks, NEW zs, Turn(t, zs),
           SleepSide(t, zs)
    PROVE  SleepInv'
<1>0. FreeTask.state = "free"
  BY DEF FreeTask
<1>1. SleepFields
  BY SleepIs DEF FamilyInv
<1>2. SUFFICES SleepFields'
  BY SleepIs, PTL
<1> SUFFICES ASSUME NEW u \in Tasks, task'[u].state = "waiting"
             PROVE  /\ ~task'[u].chld
                    /\ \A z \in Tasks : ~DeadChild(z, u, task[u].arg)'
                    /\ task'[u].tgid \notin given' =>
                          \E p \in Tasks : LiveChild(p, u, task[u].arg)'
  BY DEF SleepFields
<1>3. PICK a : a = task'[u].arg
  OBVIOUS
<1>4. a \in Args /\ a.nothread \in BOOLEAN
  <2>1. TypeOK' /\ task'[u].state = "waiting" => task'[u].arg \in Args
    BY DEF TypeOK, InWait, Task
  <2> QED BY <1>3, <2>1 DEF Args
<1>5. u \notin zs
  BY <1>0 DEF Turn
<1>6. /\ ~task'[u].chld
      /\ \A z \in Tasks : ~DeadChild(z, u, a)
      /\ task[u].tgid \notin given => \E p \in Tasks : LiveChild(p, u, a)
  <2>2. CASE task[u].state = "waiting" /\ a = task[u].arg
             /\ task'[u].chld = task[u].chld
    BY <1>1, <2>2 DEF SleepFields
  <2>3. CASE ~(task[u].state = "waiting" /\ a = task[u].arg
               /\ task'[u].chld = task[u].chld)
    <3>1. u = t
      BY <1>3, <1>5, <2>3 DEF Turn
    <3>2. Dead(u, a) = {} /\ Sight(u, a) # {} /\ ~task'[u].chld
      BY <1>3, <2>3, <3>1 DEF SleepSide
    <3>3. PICK p \in Sight(u, a) : task[p].state # "zombie"
      BY <3>2 DEF Dead
    <3>4. p \in Tasks /\ ChildOf(p, u, a.nothread)
      BY <1>4, <3>3, ChildrenIs, ChildrenAreTasks DEF Sight
    <3>5. \A z \in Tasks : ~DeadChild(z, u, a)
      BY <1>4, <3>2, DeadIs
    <3> QED BY <3>2, <3>3, <3>4, <3>5 DEF LiveChild
  <2> QED BY <2>2, <2>3
<1>7. ASSUME NEW z \in Tasks, DeadChild(z, u, task[u].arg)' PROVE FALSE
  <2>1. /\ ChildOf(z, u, a.nothread)' /\ task'[z].state = "zombie"
        /\ a.want = "all" \/ (task'[z].clone <=> a.want = "clone")
    BY <1>3, <1>7 DEF DeadChild, Sees, ChildOf
  <2>2. z \notin zs /\ ChildOf(z, u, a.nothread)
    BY <1>4, <1>5, <2>1, TurnChildren
  <2>3. task[z].state = "zombie" /\ task'[z].clone = task[z].clone
    BY <2>1, <2>2 DEF Turn, SameFamily
  <2> QED BY <1>6, <2>1, <2>2, <2>3 DEF DeadChild, Sees
<1>8. ASSUME task'[u].tgid \notin given'
      PROVE  \E p \in Tasks : LiveChild(p, u, task[u].arg)'
  <2>1. task[u].tgid \notin given
    BY <1>5, <1>8 DEF Turn, SameFamily, SleepSide
  <2>2. PICK p \in Tasks : LiveChild(p, u, a)
    BY <1>6, <2>1
  <2>3. p \notin zs /\ task'[p].state # "zombie"
    BY <2>2 DEF LiveChild, Turn
  <2>4. ChildOf(p, u, a.nothread)'
    BY <1>4, <1>5, <2>2, <2>3, TurnChildren DEF LiveChild
  <2> QED BY <1>3, <2>3, <2>4 DEF LiveChild, ChildOf
<1> QED BY <1>6, <1>7, <1>8

(***************************************************************************)
(* Turns and the discipline.                                               *)
(***************************************************************************)
Waits(u) == task[u].state \in WaitStates

OneSide(t, zs) ==
    /\ keeps' = keeps
    /\ keeps = "one" =>
         /\ \A u \in Tasks : u # t /\ Waits(u) =>
               /\ task[u].found \notin zs
               /\ action[task[u].tgid] # "ignore" => action'[task[u].tgid] # "ignore"
         /\ Waits(t)' =>
               /\ action'[task[t].tgid] # "ignore"
               /\ \A u \in Tasks : Waits(u) /\ task[u].tgid = task[t].tgid => u = t
               /\ task'[t].found # STALE
               /\ task'[t].found \in Tasks =>
                    \E q \in Tasks : /\ task[task'[t].found].parent = q
                                     /\ task[q].tgid = task[t].tgid

LEMMA OneIs ==
    OneWaits <=>
    (keeps = "one" => \A t \in Tasks : Waits(t) =>
       /\ action[task[t].tgid] # "ignore"
       /\ \A u \in Tasks : Waits(u) /\ task[u].tgid = task[t].tgid => u = t
       /\ task[t].found # STALE
       /\ task[t].found \in Tasks =>
             \E q \in Tasks : /\ task[task[t].found].parent = q
                              /\ task[q].tgid = task[t].tgid)
<1>1. \A t : t \in InWait <=> t \in Tasks /\ Waits(t)
  BY DEF InWait, Waits, WaitStates
<1> QED BY <1>1 DEF OneWaits

\* The same of the next state.
OneNext ==
    keeps' = "one" => \A t \in Tasks : Waits(t)' =>
       /\ action'[task'[t].tgid] # "ignore"
       /\ \A u \in Tasks : Waits(u)' /\ task'[u].tgid = task'[t].tgid => u = t
       /\ task'[t].found # STALE
       /\ task'[t].found \in Tasks =>
             \E q \in Tasks : /\ task'[task'[t].found].parent = q
                              /\ task'[q].tgid = task'[t].tgid

LEMMA OneNextIs == OneNext => OneWaits'
<1>1. \A t : t \in InWait' <=> t \in Tasks /\ Waits(t)'
  BY DEF InWait, Waits, WaitStates
<1> QED BY <1>1 DEF OneWaits, OneNext

LEMMA OneTurn ==
    ASSUME FamilyInv, OneWaits, NEW t \in Tasks, NEW zs, Turn(t, zs), OneSide(t, zs)
    PROVE  OneWaits'
<1>0. FreeTask.state = "free"
  BY DEF FreeTask
<1> SUFFICES ASSUME keeps = "one"
             PROVE  OneNext
  BY OneNextIs DEF OneSide, OneNext
<1>1. \A u \in Tasks : Waits(u)' => u \notin zs
  BY <1>0 DEF Turn, Waits, WaitStates
<1>2. \A u \in Tasks : Waits(u)' /\ u # t =>
         Waits(u) /\ task'[u].found = task[u].found /\ task[u].found \notin zs
  BY <1>1 DEF Turn, Waits, OneSide
<1>3. \A u \in Tasks : Waits(u)' => task'[u].tgid = task[u].tgid
  BY <1>1 DEF Turn, SameFamily
<1>4. ASSUME NEW u \in Tasks, Waits(u)'
      PROVE  /\ action'[task[u].tgid] # "ignore"
             /\ task'[u].found # STALE
             /\ task'[u].found \in Tasks =>
                  /\ task'[u].found \notin zs
                  /\ task[task'[u].found].state = "zombie"
                  /\ \E q \in Tasks : /\ task[task'[u].found].parent = q
                                      /\ task[q].tgid = task[u].tgid
  <2>1. CASE u = t
    BY <1>4, <2>1 DEF OneSide, Turn
  <2>2. CASE u # t
    BY <1>2, <1>4, <2>2, OneIs DEF OneSide, FamilyInv, FoundIsDead
  <2> QED BY <2>1, <2>2
<1>5. ASSUME NEW u \in Tasks, NEW v \in Tasks, Waits(u)', Waits(v)',
             task[u].tgid = task[v].tgid
      PROVE  u = v
  BY <1>2, <1>5, OneIs DEF OneSide
<1>6. ASSUME NEW u \in Tasks, Waits(u)', task'[u].found \in Tasks
      PROVE  \E q \in Tasks : /\ task'[task'[u].found].parent = q
                              /\ task'[q].tgid = task'[u].tgid
  <2> DEFINE z == task'[u].found
  <2>1. z \in Tasks \ zs /\ task[z].state = "zombie"
    BY <1>4, <1>6
  <2>2. PICK q \in Tasks : task[z].parent = q /\ task[q].tgid = task[u].tgid
    BY <1>4, <1>6
  <2>3. z # InitTask
    BY <2>1 DEF FamilyInv, InitLives
  <2>4. q \notin zs
    BY <2>1, <2>2, <2>3 DEF FamilyInv, ParentLives, Linked, Zombies, Turn
  <2>5. task'[z].parent = q /\ task'[q].tgid = task[q].tgid
    BY <2>1, <2>2, <2>4 DEF Turn, SameFamily
  <2> QED BY <1>3, <1>6, <2>2, <2>5
<1> QED BY <1>3, <1>4, <1>5, <1>6 DEF OneNext

(***************************************************************************)
(* Turns and ignored signals.                                              *)
(***************************************************************************)
IgnoreSide(t, zs) ==
    \A z \in Tasks \ zs :
       /\ task[z].state = "zombie" /\ ~task[z].clone /\ ~task'[z].missed
       /\ task[z].parent \in Tasks
       /\ action'[task[task[z].parent].tgid] = "ignore"
       => /\ action[task[task[z].parent].tgid] = "ignore"
          /\ task[z].parent = t /\ task'[t].state # "exiting" /\ task[t].chld
             => task'[t].chld

IgnoreFields ==
    \A z \in Tasks :
       /\ task[z].state = "zombie" /\ ~task[z].clone /\ ~task[z].missed
       /\ task[task[z].parent].state \notin {"exiting", "zombie"}
       /\ action[task[task[z].parent].tgid] = "ignore"
       => task[task[z].parent].chld

LEMMA IgnoreIs == FamilyInv => (IgnoredIsPending <=> IgnoreFields)
<1> SUFFICES ASSUME FamilyInv PROVE IgnoredIsPending <=> IgnoreFields
  OBVIOUS
<1>1. \A z : z \in Zombies(Linked) <=> z \in Tasks /\ task[z].state = "zombie"
  BY DEF Zombies, Linked
<1>2. \A z \in Tasks : task[z].state = "zombie" => task[z].parent \in Tasks
  BY DEF FamilyInv, InitLives, ParentLives, Linked, Zombies
<1>3. \A z \in Tasks : task[z].state = "zombie" =>
         (task[z].parent \notin Leaving <=>
          task[task[z].parent].state \notin {"exiting", "zombie"})
  BY <1>2 DEF Leaving
<1> QED BY <1>1, <1>3 DEF IgnoredIsPending, IgnoreFields

LEMMA IgnoreTurn ==
    ASSUME FamilyInv, FamilyInv', IgnoredIsPending, NEW t \in Tasks, NEW zs,
           Turn(t, zs), IgnoreSide(t, zs)
    PROVE  IgnoredIsPending'
<1>0. FreeTask.state = "free"
  BY DEF FreeTask
<1>1. IgnoreFields
  BY IgnoreIs
<1>2. SUFFICES IgnoreFields'
  BY IgnoreIs, PTL
<1> SUFFICES ASSUME NEW z \in Tasks, task'[z].state = "zombie", ~task'[z].clone,
                    ~task'[z].missed,
                    task'[task'[z].parent].state \notin {"exiting", "zombie"},
                    action'[task'[task'[z].parent].tgid] = "ignore"
             PROVE  task'[task'[z].parent].chld
  BY DEF IgnoreFields
<1>3. z \notin zs /\ z # t /\ task[z].state = "zombie" /\ ~task[z].clone
      /\ task'[z].parent = task[z].parent
  BY <1>0 DEF Turn, SameFamily
<1>4. ~task[z].missed
  <2>1. task[z] \in Task /\ task'[z] \in Task
    BY DEF FamilyInv, TypeOK
  <2> QED BY <1>3, <2>1 DEF Turn, Task
<1>5. z # InitTask
  BY <1>3 DEF FamilyInv, InitLives
<1>6. task[z].parent \in Tasks \ zs
  BY <1>3, <1>5 DEF FamilyInv, ParentLives, Linked, Zombies, Turn
<1>7. action[task[task[z].parent].tgid] = "ignore"
  BY <1>3, <1>6 DEF IgnoreSide, Turn, SameFamily
<1>8. task[task[z].parent].state \notin {"exiting", "zombie"}
  BY <1>3, <1>6 DEF Turn
<1>9. task[task[z].parent].chld
  BY <1>1, <1>3, <1>4, <1>7, <1>8 DEF IgnoreFields
<1>10. CASE task[z].parent = t
  BY <1>3, <1>6, <1>9, <1>10 DEF IgnoreSide, Turn, SameFamily
<1>11. CASE task[z].parent # t
  BY <1>3, <1>6, <1>9, <1>11 DEF Turn
<1> QED BY <1>10, <1>11

-----------------------------------------------------------------------------
(***************************************************************************)
(* The actions that are turns.                                             *)
(***************************************************************************)
Sides(t, zs) == SleepSide(t, zs) /\ OneSide(t, zs) /\ IgnoreSide(t, zs)

LEMMA TurnKeeps ==
    ASSUME WaitInv, TypeOK', NEW t \in Tasks, NEW zs, Turn(t, zs), Sides(t, zs)
    PROVE  WaitInv'
<1>1. FamilyInv'
  BY FamilyTurn DEF WaitInv
<1>2. SleepInv'
  BY SleepTurn DEF WaitInv, Sides
<1>3. OneWaits'
  BY OneTurn DEF WaitInv, Sides
<1>4. IgnoredIsPending'
  BY <1>1, IgnoreTurn DEF WaitInv, Sides
<1> QED BY <1>1, <1>2, <1>3, <1>4 DEF WaitInv

LEMMA RestSame ==
    ASSUME TypeOK, UNCHANGED <<action, keeps, given>>
    PROVE  RestOK'
  BY DEF TypeOK, RestOK

LEMMA OutsideType ==
    ASSUME TypeOK, NEW t \in Tasks, NEW zs
    PROVE  /\ GoesOn(t, zs, Outside(t)) /\ Outside(t).state = "running"
           /\ Outside(t).chld = task[t].chld
<1>1. task[t] \in Task
  BY DEF TypeOK
<1>2. Outside(t) \in Task /\ Outside(t).state = "running" /\ Outside(t).arg = NULL
      /\ Outside(t).found = NULL
  BY <1>1 DEF Outside, Task, States
<1>3. WellFormed(Outside(t))
  BY <1>2 DEF WellFormed, WaitStates
<1>4. /\ Outside(t).parent = task[t].parent /\ Outside(t).tgid = task[t].tgid
      /\ Outside(t).clone = task[t].clone /\ Outside(t).chld = task[t].chld
  BY <1>1 DEF Outside, Task
<1> QED BY <1>2, <1>3, <1>4, TasksAssumption DEF GoesOn

\* t leaves wait4, having released zs.
LEMMA Leaves ==
    ASSUME WaitInv, NEW t \in Tasks, NEW zs \in SUBSET Tasks,
           \A z \in zs : task[z].state = "zombie",
           task[t].state \notin {"free", "exiting", "zombie"},
           Turned(t, zs, Outside(t)), UNCHANGED <<action, keeps, given>>,
           keeps = "one" => \A u \in Tasks : u # t /\ Waits(u) => task[u].found \notin zs
    PROVE  WaitInv'
<1>1. TypeOK
  BY DEF WaitInv, FamilyInv
<1>2. GoesOn(t, zs, Outside(t)) /\ Outside(t).state = "running"
      /\ Outside(t).chld = task[t].chld
  BY <1>1, OutsideType
<1>3. Turn(t, zs) /\ task'[t] = Outside(t)
  BY <1>1, <1>2, TurnedIsTurn
<1>4. TypeOK'
  BY <1>1, <1>2, RestSame, TurnedType DEF GoesOn
<1>5. SleepSide(t, zs)
  BY <1>2, <1>3 DEF SleepSide
<1>6. OneSide(t, zs)
  BY <1>2, <1>3 DEF OneSide, Waits, WaitStates
<1>7. IgnoreSide(t, zs)
  BY <1>2, <1>3 DEF IgnoreSide
<1> QED BY <1>3, <1>4, <1>5, <1>6, <1>7, TurnKeeps DEF Sides

LEMMA DeadAreDead ==
    ASSUME NEW t \in Tasks, NEW a \in Args, NEW z \in Dead(t, a)
    PROVE  /\ z \in Tasks /\ task[z].state = "zombie"
           /\ \E q \in Tasks : task[z].parent = q /\ task[q].tgid = task[t].tgid
<1>1. z \in Tasks
  BY DeadAreTasks
<1>2. DeadChild(z, t, a)
  BY <1>1, DeadIs
<1> QED BY <1>1, <1>2 DEF DeadChild, ChildOf

\* The three ways into one scan of the children.
MayScan(t) ==
    /\ task[t].state \in {"running", "calling", "woken"}
    /\ keeps = "one" => /\ action[task[t].tgid] # "ignore"
                        /\ \A u \in Tasks : Waits(u) /\ task[u].tgid = task[t].tgid
                                            => u = t

LEMMA ScanKeeps ==
    ASSUME WaitInv, NEW t \in Tasks, NEW a \in Args, MayScan(t), Scan(t, a)
    PROVE  WaitInv'
<1>1. TypeOK
  BY DEF WaitInv, FamilyInv
<1>2. UNCHANGED <<action, keeps, given>>
  BY DEF Scan
<1>3. task[t].state \notin {"free", "exiting", "zombie"}
  BY DEF MayScan
<1>4. task[t] \in Task /\ WellFormed(task[t])
  BY <1>1, TypeIs DEF TypeOK
<1>5. CASE ScanReaps(t, a)
  <2>1. PICK z \in Dead(t, a) : task' = [release_task({z}) EXCEPT ![t] = Outside(t)]
    BY <1>5 DEF ScanReaps
  <2>2. /\ z \in Tasks /\ task[z].state = "zombie"
        /\ \E q \in Tasks : task[z].parent = q /\ task[q].tgid = task[t].tgid
    BY DeadAreDead
  <2>3. Turned(t, {z}, Outside(t))
    BY <1>1, <2>1, TurnedMany
  <2>4. ASSUME keeps = "one", NEW u \in Tasks, u # t, Waits(u), task[u].found = z
        PROVE  FALSE
    <3>1. OneWaits
      BY DEF WaitInv
    <3>2. task[u].tgid = task[t].tgid
      BY <2>2, <2>4, <3>1, OneIs
    <3> QED BY <2>4, <3>2 DEF MayScan
  <2> QED BY <1>2, <1>3, <2>2, <2>3, <2>4, Leaves
<1>6. CASE ScanGivesUp(t, a)
  <2>1. Turned(t, {}, Outside(t))
    BY <1>1, <1>6, TurnedOne DEF ScanGivesUp
  <2> QED BY <1>2, <1>3, <2>1, Leaves
<1>7. CASE ScanSleepsInCopy(t, a)
  <2>1. PICK z \in Dead(t, a) :
           task' = [task EXCEPT ![t].state = "copying", ![t].arg = a, ![t].found = z]
    BY <1>7 DEF ScanSleepsInCopy
  <2>2. /\ z \in Tasks /\ task[z].state = "zombie"
        /\ \E q \in Tasks : task[z].parent = q /\ task[q].tgid = task[t].tgid
    BY DeadAreDead
  <2> DEFINE r == [task[t] EXCEPT !.state = "copying", !.arg = a, !.found = z]
  <2>3. Turned(t, {}, r)
    BY <1>1, <2>1, TurnedOne DEF TypeOK
  <2>4. r \in Task /\ r.state = "copying" /\ r.arg = a /\ r.found = z
        /\ r.parent = task[t].parent /\ r.tgid = task[t].tgid
        /\ r.clone = task[t].clone /\ r.chld = task[t].chld
    BY <1>4, <2>2 DEF Task, States
  <2> HIDE DEF r
  <2>5. GoesOn(t, {}, r)
    BY <2>2, <2>4, ArgsAssumption, TasksAssumption DEF GoesOn, WellFormed, WaitStates
  <2>6. Turn(t, {}) /\ task'[t] = r
    BY <1>1, <1>3, <2>3, <2>5, TurnedIsTurn
  <2>7. TypeOK'
    BY <1>1, <1>2, <2>3, <2>5, RestSame, TurnedType DEF GoesOn
  <2>8. SleepSide(t, {})
    BY <1>2, <2>4, <2>6 DEF SleepSide
  <2>9. OneSide(t, {})
    BY <1>2, <2>2, <2>4, <2>6, TasksAssumption DEF OneSide, MayScan
  <2>10. IgnoreSide(t, {})
    BY <1>2, <2>4, <2>6 DEF IgnoreSide
  <2> QED BY <2>6, <2>7, <2>8, <2>9, <2>10, TurnKeeps DEF Sides
<1>8. CASE ScanSleeps(t, a)
  <2> DEFINE st == IF task[t].chld THEN "interrupted" ELSE "waiting"
             r == [task[t] EXCEPT !.arg = a, !.state = st]
  <2>1. Turned(t, {}, r)
    BY <1>1, <1>8, TurnedOne DEF ScanSleeps, TypeOK
  <2>2. st \in {"interrupted", "waiting"}
    OBVIOUS
  <2>3. task[t].found = NULL
    BY <1>4 DEF WellFormed, MayScan
  <2>4. r \in Task /\ r.state = st /\ r.arg = a /\ r.found = NULL
        /\ r.parent = task[t].parent /\ r.tgid = task[t].tgid
        /\ r.clone = task[t].clone /\ r.chld = task[t].chld
    BY <1>4, <2>2, <2>3 DEF Task, States
  <2>5. st = "waiting" => ~task[t].chld
    OBVIOUS
  <2> HIDE DEF r, st
  <2>6. GoesOn(t, {}, r)
    BY <2>2, <2>4, ArgsAssumption, TasksAssumption DEF GoesOn, WellFormed, WaitStates
  <2>7. Turn(t, {}) /\ task'[t] = r
    BY <1>1, <1>3, <2>1, <2>6, TurnedIsTurn
  <2>8. TypeOK'
    BY <1>1, <1>2, <2>1, <2>6, RestSame, TurnedType DEF GoesOn
  <2>9. Dead(t, a) = {} /\ Sight(t, a) # {}
    BY <1>8 DEF ScanSleeps, NoneAlive
  <2>10. SleepSide(t, {})
    BY <1>2, <2>4, <2>5, <2>7, <2>9 DEF SleepSide
  <2>11. OneSide(t, {})
    BY <1>2, <2>4, <2>7, TasksAssumption DEF OneSide, MayScan
  <2>12. IgnoreSide(t, {})
    BY <1>2, <2>4, <2>7 DEF IgnoreSide
  <2> QED BY <2>7, <2>8, <2>10, <2>11, <2>12, TurnKeeps DEF Sides
<1> QED BY <1>5, <1>6, <1>7, <1>8 DEF Scan

LEMMA WaitsKeep ==
    ASSUME WaitInv, NEW t \in Tasks,
           \/ \E a \in WaitArgs[t] : WaitCalls(t, a)
           \/ WaitRestarts(t)
           \/ WaitRefused(t)
           \/ WaitRepeats(t)
           \/ WaitCopied(t)
           \/ WaitFaults(t)
    PROVE  WaitInv'
<1>1. TypeOK /\ OneWaits /\ FoundIsDead
  BY DEF WaitInv, FamilyInv
<1>2. WellFormed(task[t])
  BY <1>1, TypeIs
<1>3. ASSUME NEW a \in WaitArgs[t], WaitCalls(t, a) PROVE WaitInv'
  <2>1. a \in Args
    BY ArgsAssumption
  <2>2. MayScan(t)
    <3>1. task[t].state = "running"
      BY <1>3 DEF WaitCalls, Runs
    <3>2. ASSUME keeps = "one", NEW u \in Tasks, Waits(u), task[u].tgid = task[t].tgid
          PROVE  u = t
      <4>1. u \in InWait /\ u \in Group(t)
        BY <3>2 DEF Waits, WaitStates, InWait, Group, Linked
      <4> QED BY <1>3, <3>2, <4>1 DEF WaitCalls, MayWait
    <3> QED BY <1>3, <3>1, <3>2 DEF MayScan, WaitCalls, MayWait
  <2> QED BY <1>3, <2>1, <2>2, ScanKeeps DEF WaitCalls
<1>4. ASSUME task[t].state \in {"calling", "woken"}, Scan(t, task[t].arg)
      PROVE  WaitInv'
  <2>1. task[t].arg \in Args /\ Waits(t)
    BY <1>2, <1>4 DEF WellFormed, WaitStates, Waits, Task
  <2>2. MayScan(t)
    BY <1>1, <1>4, <2>1, OneIs DEF MayScan
  <2> QED BY <1>4, <2>1, <2>2, ScanKeeps
<1>5. CASE WaitRestarts(t)
  BY <1>4, <1>5 DEF WaitRestarts
<1>6. CASE WaitRepeats(t)
  BY <1>4, <1>6 DEF WaitRepeats
<1>7. CASE WaitRefused(t) \/ WaitFaults(t)
  <2>1. /\ task[t].state \in {"calling", "copying"}
        /\ task' = [task EXCEPT ![t] = Outside(t)]
        /\ UNCHANGED <<action, keeps, given>>
    BY <1>7 DEF WaitRefused, WaitFaults
  <2>2. Turned(t, {}, Outside(t))
    BY <1>1, <2>1, TurnedOne
  <2> QED BY <2>1, <2>2, Leaves
<1>8. CASE WaitCopied(t)
  <2> DEFINE z == task[t].found
  <2>1. /\ task[t].state = "copying" /\ z # STALE
        /\ task' = [release_task({z}) EXCEPT ![t] = Outside(t)]
        /\ UNCHANGED <<action, keeps, given>>
    BY <1>8 DEF WaitCopied
  <2>2. z \in Tasks /\ Waits(t)
    BY <1>2, <2>1 DEF WellFormed, Task, Waits, WaitStates
  <2>3. task[z].state = "zombie"
    BY <1>1, <2>2 DEF FoundIsDead
  <2>4. Turned(t, {z}, Outside(t))
    BY <1>1, <2>1, TurnedMany
  <2>5. ASSUME keeps = "one", NEW u \in Tasks, u # t, Waits(u), task[u].found = z
        PROVE  FALSE
    BY <1>1, <2>2, <2>5, OneIs
  <2> HIDE DEF z
  <2> QED BY <2>1, <2>2, <2>3, <2>4, <2>5, Leaves
<1> QED BY <1>3, <1>5, <1>6, <1>7, <1>8

LEMMA ResumesType ==
    ASSUME TypeOK, NEW t \in Tasks, NEW zs, NEW restart \in BOOLEAN,
           task[t].state \in {"running", "interrupted"}
    PROVE  /\ GoesOn(t, zs, Resumes(t, restart))
           /\ Resumes(t, restart).state \in {"running", "calling"}
           /\ Resumes(t, restart).state = "calling" => Waits(t)
           /\ Resumes(t, restart).found = NULL
<1>1. task[t] \in Task /\ WellFormed(task[t])
  BY TypeIs DEF TypeOK
<1>2. task[t].found = NULL
  BY <1>1 DEF WellFormed
<1> DEFINE st == IF task[t].state = "interrupted" /\ restart THEN "calling" ELSE "running"
           ar == IF restart THEN task[t].arg ELSE NULL
<1>3. Resumes(t, restart) = [task[t] EXCEPT !.chld = FALSE, !.state = st, !.arg = ar]
  BY <1>1 DEF Resumes, Task
<1>4. st \in {"running", "calling"} /\ ar \in Args \cup {NULL}
      /\ (st = "calling" => Waits(t))
  BY <1>1 DEF Task, Waits, WaitStates
<1>5. ar # NULL <=> st \in WaitStates
  BY <1>1 DEF WellFormed, WaitStates
<1> HIDE DEF st, ar
<1>6. Resumes(t, restart) \in Task /\ Resumes(t, restart).state = st
      /\ Resumes(t, restart).arg = ar /\ Resumes(t, restart).found = NULL
      /\ Resumes(t, restart).parent = task[t].parent
      /\ Resumes(t, restart).tgid = task[t].tgid
      /\ Resumes(t, restart).clone = task[t].clone
  BY <1>1, <1>2, <1>3, <1>4 DEF Task, States
<1> QED BY <1>4, <1>5, <1>6, TasksAssumption DEF GoesOn, WellFormed

\* t has dealt with a SIGCHLD, and zs are released.
LEMMA SignalTurns ==
    ASSUME WaitInv, NEW t \in Tasks, NEW zs \in SUBSET Tasks, NEW restart \in BOOLEAN,
           \A z \in zs : task[z].state = "zombie",
           task[t].state \in {"running", "interrupted"},
           Turned(t, zs, Resumes(t, restart)), UNCHANGED <<action, keeps, given>>,
           keeps = "one" => \A u \in Tasks : u # t /\ Waits(u) => task[u].found \notin zs,
           action[task[t].tgid] = "ignore" =>
              \A z \in Tasks \ zs : task[z].state = "zombie" /\ task[z].parent = t
                                    => task[z].clone
    PROVE  WaitInv'
<1>1. TypeOK /\ OneWaits
  BY DEF WaitInv, FamilyInv
<1> DEFINE r == Resumes(t, restart)
<1>2. GoesOn(t, zs, r) /\ r.state \in {"running", "calling"}
      /\ (r.state = "calling" => Waits(t)) /\ r.found = NULL
  BY <1>1, ResumesType
<1> HIDE DEF r
<1>3. Turned(t, zs, r)
  BY DEF r
<1>4. Turn(t, zs) /\ task'[t] = r
  BY <1>1, <1>2, <1>3, TurnedIsTurn
<1>5. TypeOK'
  BY <1>1, <1>2, <1>3, RestSame, TurnedType DEF GoesOn
<1>6. SleepSide(t, zs)
  BY <1>2, <1>4 DEF SleepSide
<1>7. OneSide(t, zs)
  <2>1. Waits(t)' => Waits(t)
    BY <1>2, <1>4 DEF Waits, WaitStates
  <2>2. task'[t].found = NULL /\ task'[t].found \notin Tasks /\ NULL # STALE
    BY <1>2, <1>4, TasksAssumption
  <2> QED BY <1>1, <2>1, <2>2, OneIs DEF OneSide
<1>8. IgnoreSide(t, zs)
  BY <1>4 DEF IgnoreSide, Turn, SameFamily
<1> QED BY <1>4, <1>5, <1>6, <1>7, <1>8, TurnKeeps DEF Sides

LEMMA SignalsKeep ==
    ASSUME WaitInv, NEW t \in Tasks,
           (\E restart \in BOOLEAN : SignalHandled(t, restart)) \/ SignalReaps(t)
    PROVE  WaitInv'
<1>1. TypeOK /\ OneWaits
  BY DEF WaitInv, FamilyInv
<1>2. ASSUME NEW restart \in BOOLEAN, SignalHandled(t, restart) PROVE WaitInv'
  <2>1. Turned(t, {}, Resumes(t, restart))
    BY <1>1, <1>2, TurnedOne DEF SignalHandled
  <2> QED BY <1>2, <2>1, SignalTurns DEF SignalHandled
<1>3. CASE SignalReaps(t)
  <2> DEFINE zs == Dead(t, KernelWait)
  <2>1. KernelWait \in Args /\ KernelWait.want = "normal" /\ KernelWait.nothread = FALSE
    BY DEF KernelWait, Args, Wants
  <2>2. zs \in SUBSET Tasks /\ \A z \in zs : task[z].state = "zombie"
    BY <2>1, DeadAreDead
  <2>3. Turned(t, zs, Resumes(t, TRUE)) /\ action[task[t].tgid] = "ignore"
        /\ task[t].state \in {"running", "interrupted"}
        /\ UNCHANGED <<action, keeps, given>>
    BY <1>1, <1>3, TurnedMany DEF SignalReaps
  <2>4. ASSUME keeps = "one", NEW u \in Tasks, u # t, Waits(u), task[u].found \in zs
        PROVE  FALSE
    <3>1. /\ task[u].found \in Tasks
          /\ \E q \in Tasks : /\ task[task[u].found].parent = q
                              /\ task[q].tgid = task[t].tgid
      BY <2>1, <2>4, DeadAreDead
    <3>2. task[u].tgid = task[t].tgid
      BY <1>1, <2>4, <3>1, OneIs
    <3> QED BY <1>1, <2>3, <2>4, <3>2, OneIs
  <2>5. ASSUME NEW z \in Tasks \ zs, task[z].state = "zombie", task[z].parent = t
        PROVE  task[z].clone
    <3>1. ~DeadChild(z, t, KernelWait)
      BY <2>1, DeadIs
    <3>2. ChildOf(z, t, KernelWait.nothread)
      BY <2>1, <2>3, <2>5 DEF ChildOf
    <3> QED BY <2>1, <2>5, <3>1, <3>2 DEF DeadChild, Sees
  <2> HIDE DEF zs
  <2> QED BY <2>2, <2>3, <2>4, <2>5, SignalTurns
<1> QED BY <1>2, <1>3

\* The dead children of the group of t.
LEMMA GroupDead ==
    ASSUME NEW t \in Tasks, task[t].state # "free", NEW z \in Tasks,
           task[z].state = "zombie", task[z].parent \in Tasks,
           task[task[z].parent].state # "free",
           task[task[z].parent].tgid = task[t].tgid
    PROVE  z \in Zombies(Children(t, FALSE))
<1>1. ChildOf(z, t, FALSE)
  BY DEF ChildOf
<1> QED BY <1>1, ChildrenIs DEF Zombies

LEMMA ZombieParent ==
    ASSUME FamilyInv, NEW z \in Tasks, task[z].state = "zombie"
    PROVE  /\ task[z].parent \in Tasks
           /\ task[task[z].parent].state \notin {"free", "zombie"}
<1>1. z # InitTask
  BY DEF FamilyInv, InitLives
<1> QED BY <1>1 DEF FamilyInv, ParentLives, Linked, Zombies

LEMMA RefusedKeeps ==
    ASSUME WaitInv, NEW t \in Tasks, SignalRefused(t)
    PROVE  WaitInv'
<1>1. TypeOK /\ OneWaits /\ FamilyInv
  BY DEF WaitInv, FamilyInv
<1>2. UNCHANGED <<action, keeps, given>> /\ task[t].state \in {"running", "interrupted"}
  BY DEF SignalRefused
<1> DEFINE r == Resumes(t, TRUE)
           M(u) == task[u].missed \/ u \in Zombies(Children(t, FALSE))
<1>3. task' = [u \in Tasks |-> IF u = t THEN r ELSE [task[u] EXCEPT !.missed = M(u)]]
  <2>1. task \in [Tasks -> Task]
    BY <1>1 DEF TypeOK
  <2> QED BY <2>1 DEF SignalRefused, Task
<1>4. GoesOn(t, {}, r) /\ r.state \in {"running", "calling"}
      /\ (r.state = "calling" => Waits(t)) /\ r.found = NULL
  BY <1>1, <1>2, ResumesType
<1>5. \A u \in Tasks : M(u) \in BOOLEAN /\ (~M(u) => ~task[u].missed)
  BY <1>1 DEF TypeOK, Task
<1> HIDE DEF r
<1>6. task'[t] = r
  BY <1>3
<1>7. ASSUME NEW u \in Tasks, u # t
      PROVE  /\ WellFormed(task'[u]) /\ SameFamily(u)
             /\ task'[u].state = task[u].state /\ task'[u].arg = task[u].arg
             /\ task'[u].chld = task[u].chld /\ task'[u].found = task[u].found
             /\ task'[u].missed = M(u)
  <2> HIDE DEF M
  <2>1. task[u] \in Task /\ WellFormed(task[u])
    BY <1>1, TypeIs DEF TypeOK
  <2>2. task'[u] = [task[u] EXCEPT !.missed = M(u)]
    BY <1>3, <1>7
  <2> QED BY <1>5, <2>1, <2>2 DEF WellFormed, Task, SameFamily
<1>8. \A u \in Tasks : WellFormed(task'[u])
  BY <1>4, <1>6, <1>7 DEF GoesOn
<1>9. TypeOK'
  <2>1. task' \in [Tasks -> Task]
    <3>1. \A u \in Tasks : task'[u] \in Task
      BY <1>8 DEF WellFormed
    <3>2. task' = [u \in Tasks |-> task'[u]]
      BY <1>3
    <3> QED BY <3>1, <3>2
  <2> QED BY <1>1, <1>2, <1>8, <2>1, RestSame, TypePrime
<1>10. Turn(t, {})
  <2>1. \A u \in Tasks : u # t => (task'[u].missed = FALSE => task[u].missed = FALSE)
    BY <1>5, <1>7, <1>1, ZenonT(60) DEF TypeOK, Task
  <2>2. SameFamily(t)
    BY <1>4, <1>6 DEF GoesOn, SameFamily
  <2> HIDE DEF M
  <2> QED BY <1>2, <1>4, <1>6, <1>7, <2>1, <2>2 DEF Turn, GoesOn
<1>11. SleepSide(t, {})
  BY <1>2, <1>4, <1>6 DEF SleepSide
<1>12. OneSide(t, {})
  <2>1. Waits(t)' => Waits(t)
    BY <1>4, <1>6 DEF Waits, WaitStates
  <2>2. task'[t].found = NULL /\ task'[t].found \notin Tasks /\ NULL # STALE
    BY <1>4, <1>6, TasksAssumption
  <2> QED BY <1>1, <1>2, <2>1, <2>2, OneIs DEF OneSide
<1>13. IgnoreSide(t, {})
  <2>1. ASSUME NEW z \in Tasks, task[z].state = "zombie", task[z].parent = t,
               ~task'[z].missed
        PROVE  FALSE
    <3>1. z # t
      BY <1>2, <2>1
    <3>2. z \in Zombies(Children(t, FALSE))
      BY <1>2, <2>1, GroupDead
    <3> QED BY <1>7, <2>1, <3>1, <3>2
  <2> QED BY <1>2, <2>1 DEF IgnoreSide
<1> QED BY <1>9, <1>10, <1>11, <1>12, <1>13, TurnKeeps DEF Sides

LEMMA SigactionKeeps ==
    ASSUME WaitInv, NEW t \in Tasks, NEW new \in {"default", "ignore", "handler"},
           do_sigaction(t, new)
    PROVE  WaitInv'
<1>1. TypeOK /\ OneWaits /\ FamilyInv /\ HasGroup
  BY DEF WaitInv, FamilyInv
<1>2. /\ task[t].state = "running" /\ UNCHANGED <<keeps, given>>
      /\ action' = [action EXCEPT ![task[t].tgid] = new]
      /\ keeps = "one" /\ new = "ignore" => Group(t) \cap InWait = {}
  BY DEF do_sigaction
<1> DEFINE C(u) == task[u].chld /\ (u = t => new = "handler")
           M(u) == task[u].missed
                   \/ (new = "ignore" /\ u \in Zombies(Children(t, FALSE)))
<1>3. task' = [u \in Tasks |-> [task[u] EXCEPT !.chld = C(u), !.missed = M(u)]]
  <2>1. task \in [Tasks -> Task]
    BY <1>1 DEF TypeOK
  <2> QED BY <2>1 DEF do_sigaction, Task
<1>4. \A u \in Tasks : /\ M(u) \in BOOLEAN /\ C(u) \in BOOLEAN
                       /\ ~M(u) => ~task[u].missed
                       /\ u # t => C(u) = task[u].chld
  <2>1. \A u \in Tasks : task[u].missed \in BOOLEAN /\ task[u].chld \in BOOLEAN
    BY <1>1 DEF TypeOK, Task
  <2> QED BY <2>1
<1>5. ASSUME NEW u \in Tasks
      PROVE  /\ WellFormed(task'[u]) /\ SameFamily(u)
             /\ task'[u].state = task[u].state /\ task'[u].arg = task[u].arg
             /\ task'[u].chld = C(u) /\ task'[u].found = task[u].found
             /\ task'[u].missed = M(u)
  <2>0. M(u) \in BOOLEAN /\ C(u) \in BOOLEAN
    BY <1>4
  <2> HIDE DEF M, C
  <2>1. task[u] \in Task /\ WellFormed(task[u])
    BY <1>1, TypeIs DEF TypeOK
  <2>2. task'[u] = [task[u] EXCEPT !.chld = C(u), !.missed = M(u)]
    BY <1>3
  <2> QED BY <2>0, <2>1, <2>2 DEF WellFormed, Task, SameFamily
<1>6. task[t].tgid \in Tasks
  BY <1>1, <1>2 DEF HasGroup
<1>7. TypeOK'
  <2>1. task' \in [Tasks -> Task]
    <3>1. \A u \in Tasks : task'[u] \in Task
      BY <1>5 DEF WellFormed
    <3>2. task' = [u \in Tasks |-> task'[u]]
      BY <1>3
    <3> QED BY <3>1, <3>2
  <2>2. RestOK'
    BY <1>1, <1>2 DEF TypeOK, RestOK
  <2> QED BY <1>5, <2>1, <2>2, TypePrime
<1>8. Turn(t, {})
  <2>1. \A u \in Tasks : u # t =>
           /\ task'[u].missed = FALSE => task[u].missed = FALSE
           /\ task'[u].chld = task[u].chld
    BY <1>1, <1>4, <1>5, ZenonT(60) DEF TypeOK, Task
  <2>2. WellFormed(task[t])
    BY <1>1, TypeIs
  <2>3. task'[t].found = NULL
    BY <1>2, <1>5, <2>2 DEF WellFormed
  <2> HIDE DEF M, C
  <2> QED BY <1>2, <1>5, <2>1, <2>3, TasksAssumption DEF Turn
<1>9. SleepSide(t, {})
  BY <1>2, <1>5 DEF SleepSide
<1>10. OneSide(t, {})
  <2>1. ~Waits(t)'
    BY <1>2, <1>5 DEF Waits, WaitStates
  <2>2. ASSUME keeps = "one", NEW u \in Tasks, Waits(u),
               action[task[u].tgid] # "ignore"
        PROVE  action'[task[u].tgid] # "ignore"
    <3>1. CASE task[u].tgid = task[t].tgid
      <4>1. u \in Group(t) /\ u \in InWait
        BY <2>2, <3>1 DEF Group, Linked, InWait, Waits, WaitStates
      <4> QED BY <1>1, <1>2, <1>6, <2>2, <3>1, <4>1 DEF TypeOK
    <3>2. CASE task[u].tgid # task[t].tgid
      BY <1>1, <1>2, <2>2, <3>2 DEF TypeOK
    <3> QED BY <3>1, <3>2
  <2> QED BY <1>2, <2>1, <2>2 DEF OneSide
<1>11. IgnoreSide(t, {})
  <2>1. ASSUME NEW z \in Tasks, task[z].state = "zombie", task[z].parent \in Tasks,
               ~task'[z].missed, action'[task[task[z].parent].tgid] = "ignore"
        PROVE  /\ action[task[task[z].parent].tgid] = "ignore"
               /\ task[z].parent # t
    <3>1. task[task[z].parent].tgid # task[t].tgid
      <4> SUFFICES ASSUME task[task[z].parent].tgid = task[t].tgid PROVE FALSE
        OBVIOUS
      <4>1. new = "ignore"
        BY <1>1, <1>2, <1>6, <2>1 DEF TypeOK
      <4>2. task[task[z].parent].state # "free"
        BY <1>1, <2>1, ZombieParent
      <4>3. z \in Zombies(Children(t, FALSE))
        BY <1>2, <2>1, <4>2, GroupDead
      <4> QED BY <1>5, <2>1, <4>1, <4>3
    <3>2. task[task[z].parent].tgid \in Tasks
      BY <1>1, <2>1, ZombieParent DEF HasGroup
    <3> QED BY <1>1, <1>2, <2>1, <3>1, <3>2 DEF TypeOK
  <2> QED BY <2>1 DEF IgnoreSide
<1> QED BY <1>7, <1>8, <1>9, <1>10, <1>11, TurnKeeps DEF Sides

LEMMA PolicyKeeps ==
    ASSUME WaitInv, NEW t \in Tasks, PolicyChanges(t)
    PROVE  WaitInv'
<1>1. TypeOK /\ OneWaits /\ FamilyInv /\ FoundIsDead
  BY DEF WaitInv, FamilyInv
<1>2. /\ task[t].state \notin {"free", "exiting", "zombie"}
      /\ UNCHANGED <<action, keeps, given>>
  BY DEF PolicyChanges, Linked, Leaving
<1> DEFINE r == [task[t] EXCEPT !.refused = ~task[t].refused]
<1>3. task[t] \in Task /\ WellFormed(task[t])
  BY <1>1, TypeIs DEF TypeOK
<1>4. Turned(t, {}, r)
  <2>1. task' = [task EXCEPT ![t] = r]
    BY <1>1, <1>3 DEF PolicyChanges, TypeOK, Task
  <2> HIDE DEF r
  <2> QED BY <1>1, <2>1, TurnedOne
<1>5. /\ r \in Task /\ r.state = task[t].state /\ r.arg = task[t].arg
      /\ r.found = task[t].found /\ r.parent = task[t].parent
      /\ r.tgid = task[t].tgid /\ r.clone = task[t].clone /\ r.chld = task[t].chld
  BY <1>3 DEF Task
<1> HIDE DEF r
<1>6. GoesOn(t, {}, r)
  BY <1>1, <1>2, <1>3, <1>5 DEF GoesOn, WellFormed, FoundIsDead
<1>7. Turn(t, {}) /\ task'[t] = r
  BY <1>1, <1>2, <1>4, <1>6, TurnedIsTurn
<1>8. TypeOK'
  BY <1>1, <1>2, <1>4, <1>6, RestSame, TurnedType DEF GoesOn
<1>9. SleepSide(t, {})
  BY <1>2, <1>5, <1>7 DEF SleepSide
<1>10. OneSide(t, {})
  <2>1. Waits(t)' <=> Waits(t)
    BY <1>5, <1>7 DEF Waits
  <2> QED BY <1>1, <1>2, <1>5, <1>7, <2>1, OneIs DEF OneSide
<1>11. IgnoreSide(t, {})
  BY <1>2, <1>5, <1>7 DEF IgnoreSide
<1> QED BY <1>7, <1>8, <1>9, <1>10, <1>11, TurnKeeps DEF Sides

LEMMA ExitBeginsKeeps ==
    ASSUME WaitInv, NEW t \in Tasks, ExitBegins(t)
    PROVE  WaitInv'
<1>1. TypeOK /\ OneWaits /\ FamilyInv /\ HasGroup
  BY DEF WaitInv, FamilyInv
<1>2. task[t].state = "running" /\ t # InitTask /\ keeps' = keeps
  BY DEF ExitBegins, Runs
<1>3. task[t] \in Task /\ WellFormed(task[t])
  BY <1>1, TypeIs DEF TypeOK
<1>4. \/ /\ Group(t) \subseteq Leaving \cup {t}
         /\ action' = [action EXCEPT ![task[t].tgid] = "default"]
         /\ given' = given \ {task[t].tgid}
      \/ UNCHANGED <<action, given>>
  BY DEF ExitBegins
<1>5. \A g \in Tasks : action'[g] = "ignore" => action[g] = "ignore"
  <2>1. task[t].tgid \in Tasks
    BY <1>1, <1>2 DEF HasGroup
  <2> QED BY <1>1, <1>4, <2>1 DEF TypeOK
<1> DEFINE r == [task[t] EXCEPT !.state = "exiting", !.chld = FALSE, !.refused = FALSE]
<1>6. Turned(t, {}, r)
  <2>1. task' = [task EXCEPT ![t] = r]
    BY <1>1 DEF ExitBegins, TypeOK
  <2> HIDE DEF r
  <2> QED BY <1>1, <2>1, TurnedOne
<1>7. /\ r \in Task /\ r.state = "exiting" /\ r.arg = task[t].arg
      /\ r.found = task[t].found /\ r.parent = task[t].parent
      /\ r.tgid = task[t].tgid /\ r.clone = task[t].clone
  BY <1>3 DEF Task, States
<1> HIDE DEF r
<1>8. GoesOn(t, {}, r)
  BY <1>2, <1>3, <1>7, TasksAssumption DEF GoesOn, WellFormed, WaitStates
<1>9. Turn(t, {}) /\ task'[t] = r
  BY <1>1, <1>2, <1>6, <1>8, TurnedIsTurn
<1>10. RestOK'
  BY <1>1, <1>2, <1>4 DEF TypeOK, RestOK
<1>11. TypeOK'
  BY <1>1, <1>6, <1>8, <1>10, TurnedType DEF GoesOn
<1>12. SleepSide(t, {})
  <2>1. ASSUME NEW u \in Tasks, task'[u].state = "waiting", task[u].tgid \in given
        PROVE  task[u].tgid \in given'
    <3>1. u # t /\ task[u].state = "waiting"
      BY <1>7, <1>9, <2>1 DEF Turn
    <3>2. u \notin Leaving
      BY <3>1 DEF Leaving
    <3>3. task[u].tgid = task[t].tgid => u \in Group(t)
      BY <3>1 DEF Group, Linked
    <3> QED BY <1>4, <2>1, <3>1, <3>2, <3>3
  <2> QED BY <1>7, <1>9, <2>1 DEF SleepSide
<1>13. OneSide(t, {})
  <2>1. \A u \in Tasks : Waits(u) => task[u].tgid \in Tasks
    BY <1>1 DEF Waits, WaitStates, HasGroup
  <2> QED BY <1>2, <1>5, <1>7, <1>9, <2>1 DEF OneSide, Waits, WaitStates
<1>14. IgnoreSide(t, {})
  <2>1. \A z \in Tasks : task[z].state = "zombie" => task[task[z].parent].tgid \in Tasks
    BY <1>1, ZombieParent DEF HasGroup
  <2> QED BY <1>5, <1>7, <1>9, <2>1 DEF IgnoreSide
<1> QED BY <1>9, <1>11, <1>12, <1>13, <1>14, TurnKeeps DEF Sides

-----------------------------------------------------------------------------
(***************************************************************************)
(* do_fork.                                                                *)
(***************************************************************************)
LEMMA ForkShape ==
    ASSUME WaitInv, NEW c \in Tasks, NEW p \in Tasks, NEW f \in Forks, Fork(c, p, f)
    PROVE  /\ TypeOK'
           /\ task[p].state = "free" /\ task[c].state = "running"
           /\ \A q \in Tasks : task[q].state # "free" => task[q].tgid # p
           /\ \A u \in Tasks : u # p => task'[u] = task[u]
           /\ task'[p].state = "running" /\ task'[p].found = NULL
           /\ task'[p].tgid \in Tasks
           /\ task'[p].parent \in Tasks /\ task'[p].parent # p
           /\ task[task'[p].parent].state \notin {"free", "zombie"}
           /\ \A g \in Tasks : g # p => action'[g] = action[g]
           /\ keeps' = keeps /\ given' = given
<1>1. TypeOK /\ FamilyInv /\ HasGroup /\ ParentLives
  BY DEF WaitInv, FamilyInv
<1>2. /\ task[p].state = "free" /\ task[c].state = "running"
      /\ \A q \in Linked : task[q].tgid # p
      /\ c = InitTask => ~f.sibling
      /\ keeps' = keeps /\ given' = given
  BY DEF Fork, Runs
<1> DEFINE par == IF f.sibling THEN task[c].parent ELSE c
           tg == IF f.thread THEN task[c].tgid ELSE p
           n == [FreeTask EXCEPT !.state = "running", !.parent = par, !.tgid = tg,
                                 !.clone = f.clone]
<1>3. par \in Tasks /\ task[par].state \notin {"free", "zombie"}
  BY <1>1, <1>2 DEF ParentLives, Linked, Zombies
<1>4. par # p
  BY <1>2, <1>3
<1>5. tg \in Tasks
  BY <1>1, <1>2 DEF HasGroup
<1>6. f.clone \in BOOLEAN
  BY ArgsAssumption
<1>7. task' = [task EXCEPT ![p] = n]
  BY DEF Fork
<1>8. \/ action' = action
      \/ action' = [action EXCEPT ![p] = action[task[c].tgid]]
  BY DEF Fork
<1> HIDE DEF par, tg
<1>9. /\ n \in Task /\ n.state = "running" /\ n.parent = par /\ n.tgid = tg
      /\ n.arg = NULL /\ n.found = NULL
  BY <1>3, <1>5, <1>6 DEF FreeTask, Task, States
<1> HIDE DEF n
<1>10. WellFormed(n)
  BY <1>9 DEF WellFormed, WaitStates
<1>11. Turned(p, {}, n)
  BY <1>1, <1>7, TurnedOne
<1>12. RestOK'
  <2>1. task[c].tgid \in Tasks
    BY <1>1, <1>2 DEF HasGroup
  <2> QED BY <1>1, <1>2, <1>8, <2>1 DEF TypeOK, RestOK
<1>13. TypeOK'
  BY <1>1, <1>10, <1>11, <1>12, TurnedType
<1>14. task'[p] = n /\ \A u \in Tasks : u # p => task'[u] = task[u]
  BY <1>1, <1>7 DEF TypeOK
<1>15. \A q \in Tasks : task[q].state # "free" => task[q].tgid # p
  BY <1>2 DEF Linked
<1>16. \A g \in Tasks : g # p => action'[g] = action[g]
  BY <1>1, <1>8 DEF TypeOK
<1> QED BY <1>2, <1>3, <1>4, <1>5, <1>9, <1>13, <1>14, <1>15, <1>16

LEMMA ForkKeeps ==
    ASSUME WaitInv, NEW c \in Tasks, NEW p \in Tasks, NEW f \in Forks, Fork(c, p, f)
    PROVE  WaitInv'
<1>1. FamilyInv /\ OneWaits /\ SleepInv /\ IgnoredIsPending
  BY DEF WaitInv
<1>2. /\ TypeOK'
      /\ task[p].state = "free" /\ task[c].state = "running"
      /\ \A q \in Tasks : task[q].state # "free" => task[q].tgid # p
      /\ \A u \in Tasks : u # p => task'[u] = task[u]
      /\ task'[p].state = "running" /\ task'[p].found = NULL
      /\ task'[p].tgid \in Tasks
      /\ task'[p].parent \in Tasks /\ task'[p].parent # p
      /\ task[task'[p].parent].state \notin {"free", "zombie"}
      /\ \A g \in Tasks : g # p => action'[g] = action[g]
      /\ keeps' = keeps /\ given' = given
  BY ForkShape
\* p is nobody's parent, and nobody in the list is in a group named p.
<1>3. \A u \in Tasks : task[u].state # "free" /\ task[u].parent \in Tasks =>
         task[u].parent # p /\ task[task[u].parent].state \notin {"free", "zombie"}
  BY <1>1, <1>2, TasksAssumption DEF FamilyInv, InitLives, ParentLives, Linked, Zombies
<1>4. FamilyInv'
  <2>1. InitLives'
    BY <1>1, <1>2, TasksAssumption DEF FamilyInv, InitLives
  <2>2. HasGroup' /\ NotOwnParent'
    BY <1>1, <1>2 DEF FamilyInv, HasGroup, NotOwnParent
  <2>3. ParentLives'
    <3> SUFFICES ASSUME NEW u \in Tasks, task'[u].state # "free", u # InitTask
                 PROVE  /\ task'[u].parent \in Tasks
                        /\ task'[task'[u].parent].state \notin {"free", "zombie"}
      BY DEF ParentLives, Linked, Zombies
    <3>1. CASE u = p
      BY <1>2, <3>1
    <3>2. CASE u # p
      <4>1. task[u].parent \in Tasks
        BY <1>1, <1>2, <3>2 DEF FamilyInv, ParentLives, Linked
      <4> QED BY <1>2, <1>3, <3>2, <4>1
    <3> QED BY <3>1, <3>2
  <2>4. FoundIsDead'
    BY <1>1, <1>2, TasksAssumption DEF FamilyInv, FoundIsDead
  <2> QED BY <1>2, <2>1, <2>2, <2>3, <2>4 DEF FamilyInv
<1>5. SleepInv'
  <2>1. SleepFields
    BY <1>1, SleepIs DEF FamilyInv
  <2>2. SUFFICES SleepFields'
    BY <1>2, SleepIs, PTL
  <2> SUFFICES ASSUME NEW u \in Tasks, task'[u].state = "waiting"
               PROVE  /\ ~task'[u].chld
                      /\ \A z \in Tasks : ~DeadChild(z, u, task[u].arg)'
                      /\ task'[u].tgid \notin given' =>
                            \E q \in Tasks : LiveChild(q, u, task[u].arg)'
    BY DEF SleepFields
  <2>3. u # p /\ task'[u] = task[u]
    BY <1>2
  <2>4. /\ ~task[u].chld
        /\ \A z \in Tasks : ~DeadChild(z, u, task[u].arg)
        /\ task[u].tgid \notin given => \E q \in Tasks : LiveChild(q, u, task[u].arg)
    BY <2>1, <2>3 DEF SleepFields
  <2>5. ASSUME NEW z \in Tasks, DeadChild(z, u, task[u].arg)' PROVE FALSE
    <3>1. z # p /\ task'[z] = task[z]
      BY <1>2, <2>5 DEF DeadChild
    <3>2. task[z].state = "zombie"
      BY <2>5, <3>1 DEF DeadChild
    <3>3. task[z].parent \in Tasks /\ task[z].parent # p
      BY <1>1, <1>2, <3>2, ZombieParent
    <3>4. DeadChild(z, u, task[u].arg)
      BY <1>1, <1>2, <2>3, <2>5, <3>1, <3>2, <3>3, ZombieParent
         DEF DeadChild, ChildOf, Sees
    <3> QED BY <2>4, <3>4
  <2>6. ASSUME NEW q \in Tasks, LiveChild(q, u, task[u].arg)
        PROVE  LiveChild(q, u, task[u].arg)'
    <3>1. q # p /\ task'[q] = task[q]
      BY <1>2, <2>6 DEF LiveChild, ChildOf
    <3>2. task[q].parent \in Tasks /\ task[q].state # "free"
      BY <2>6 DEF LiveChild, ChildOf
    <3>3. task'[task[q].parent] = task[task[q].parent]
      BY <1>2, <1>3, <3>2
    <3> QED BY <2>3, <2>6, <3>1, <3>3 DEF LiveChild, ChildOf
  <2> QED BY <1>2, <2>3, <2>4, <2>5, <2>6
<1>6. OneWaits'
  <2> SUFFICES ASSUME keeps = "one" PROVE OneNext
    BY <1>2, OneNextIs DEF OneNext
  <2>1. \A u \in Tasks : Waits(u)' => /\ u # p /\ task'[u] = task[u] /\ Waits(u)
                                      /\ task[u].tgid \in Tasks /\ task[u].tgid # p
    BY <1>1, <1>2 DEF Waits, WaitStates, FamilyInv, HasGroup
  <2>2. ASSUME NEW u \in Tasks, Waits(u), task[u].found \in Tasks
        PROVE  \E q \in Tasks : /\ task'[task[u].found].parent = q
                                /\ task'[q].tgid = task[u].tgid
    <3>1. task[task[u].found].state = "zombie"
      BY <1>1, <2>2 DEF FamilyInv, FoundIsDead
    <3>2. PICK q \in Tasks : /\ task[task[u].found].parent = q
                             /\ task[q].tgid = task[u].tgid
      BY <1>1, <2>2, OneIs
    <3>3. q # p /\ task[u].found # p
      BY <1>2, <1>3, <2>2, <3>1, <3>2
    <3> QED BY <1>2, <2>2, <3>2, <3>3
  <2> QED BY <1>1, <1>2, <2>1, <2>2, OneIs DEF OneNext
<1>7. IgnoredIsPending'
  <2>1. IgnoreFields
    BY <1>1, IgnoreIs
  <2>2. SUFFICES IgnoreFields'
    BY <1>4, IgnoreIs, PTL
  <2> SUFFICES ASSUME NEW z \in Tasks, task'[z].state = "zombie"
               PROVE  /\ task'[z] = task[z] /\ task'[task[z].parent] = task[task[z].parent]
                      /\ action'[task[task[z].parent].tgid]
                            = action[task[task[z].parent].tgid]
    BY <2>1 DEF IgnoreFields
  <2>3. task'[z] = task[z] /\ task[z].state = "zombie"
    BY <1>2
  <2>4. /\ task[z].parent \in Tasks /\ task[z].parent # p
        /\ task[task[z].parent].state # "free"
    BY <1>1, <1>2, <2>3, ZombieParent
  <2>5. task[task[z].parent].tgid \in Tasks /\ task[task[z].parent].tgid # p
    BY <1>1, <1>2, <2>4, SMTT(30) DEF FamilyInv, HasGroup
  <2> QED BY <1>2, <2>3, <2>4, <2>5
<1> QED BY <1>4, <1>5, <1>6, <1>7 DEF WaitInv

-----------------------------------------------------------------------------
(***************************************************************************)
(* exit_notify.  The children of c, the new parents of the dead among      *)
(* them, who is sent a SIGCHLD and who is woken.                           *)
(***************************************************************************)
Kids(c) == {p \in Linked : task[p].parent = c}
Heirs(c, reaper) == {NewParent(p, reaper) : p \in Zombies(Kids(c))}
Cloned(c, u, sig) == IF u \in Kids(c) THEN FALSE
                     ELSE IF u = c THEN sig # "SIGCHLD" ELSE task[u].clone
Sent(c, reaper, sig) ==
    Heirs(c, reaper) \cup IF sig = "SIGCHLD" THEN {task[c].parent} ELSE {}
Roused(c, reaper) ==
    {u \in UNION {WokenBy(t) : t \in Heirs(c, reaper) \cup {task[c].parent}} :
        task[u].state = "waiting"}

LEMMA ExitIs ==
    ASSUME NEW c \in Tasks, NEW reaper \in Tasks,
           NEW sig, Exit(c, reaper, sig)
    PROVE  /\ task[c].state = "exiting" /\ reaper \in Reapers(c)
           /\ UNCHANGED <<action, keeps>>
           /\ given' = IF reaper \in Kids(c) THEN given \cup {task[c].tgid} ELSE given
  BY DEF Exit, Kids

\* Who takes the children: somebody of the group, if anybody is left there.
LEMMA ReaperIs ==
    ASSUME FamilyInv, NEW c \in Tasks, task[c].state = "exiting",
           NEW reaper \in Tasks, reaper \in Reapers(c)
    PROVE  /\ task[reaper].state \notin {"free", "exiting", "zombie"} /\ reaper # c
           /\ \A u \in Tasks : /\ task[u].tgid = task[c].tgid
                               /\ task[u].state \notin {"free", "exiting", "zombie"}
                               => task[reaper].tgid = task[c].tgid
<1>1. \A u \in Tasks : u \in Group(c) \ Leaving <=>
         /\ task[u].tgid = task[c].tgid
         /\ task[u].state \notin {"free", "exiting", "zombie"}
  BY DEF Group, Linked, Leaving
<1>2. \/ reaper \in Group(c) \ Leaving
      \/ reaper = InitTask /\ Group(c) \ Leaving = {}
  BY DEF Reapers
<1> QED BY <1>1, <1>2 DEF FamilyInv, InitLives

\* A task that still sleeps is in no group that was woken.
LEMMA NotRoused ==
    ASSUME NEW c \in Tasks, NEW reaper \in Tasks, NEW sig, NEW u \in Tasks,
           task[u].state = "waiting", u \notin Roused(c, reaper)
    PROVE  /\ task[u].tgid # task[task[c].parent].tgid
           /\ \A z \in Tasks : z \in Zombies(Kids(c)) =>
                 task[u].tgid # task[NewParent(z, reaper)].tgid
           /\ u \notin Sent(c, reaper, sig)
<1>1. \A t : t \in Heirs(c, reaper) \cup {task[c].parent} => u \notin WokenBy(t)
  BY DEF Roused
<1>2. \A t : t \in Heirs(c, reaper) \cup {task[c].parent} => task[u].tgid # task[t].tgid
  BY <1>1 DEF WokenBy, Group, Linked
<1>3. \A z : z \in Zombies(Kids(c)) => NewParent(z, reaper) \in Heirs(c, reaper)
  BY DEF Heirs
<1> QED BY <1>2, <1>3 DEF Sent

LEMMA ExitShape ==
    ASSUME WaitInv, NEW c \in Tasks, NEW reaper \in Tasks,
           NEW sig, Exit(c, reaper, sig)
    PROVE  /\ TypeOK'
           /\ \A u \in Tasks :
                /\ task'[u].tgid = task[u].tgid /\ task'[u].arg = task[u].arg
                /\ task'[u].found = task[u].found
                /\ task'[u].state = IF u = c THEN "zombie"
                                    ELSE IF u \in Roused(c, reaper) THEN "woken"
                                    ELSE task[u].state
                /\ task'[u].parent = IF u \in Kids(c) THEN NewParent(u, reaper)
                                     ELSE task[u].parent
                /\ u \notin Kids(c) /\ u # c => task'[u].clone = task[u].clone
                /\ c \notin Kids(c) => (task'[c].clone <=> sig # "SIGCHLD")
                /\ u \notin Zombies(Kids(c)) => task'[u].missed = task[u].missed
                /\ task'[u].chld <=> task[u].chld \/ (u \in Sent(c, reaper, sig) /\ Gets(u))
<1>1. FamilyInv /\ TypeOK /\ HasGroup
  BY DEF WaitInv, FamilyInv
<1>2. task[c].state = "exiting" /\ UNCHANGED <<action, keeps>>
  BY ExitIs
<1> DEFINE S(u) == IF u = c THEN "zombie"
                   ELSE IF u \in Roused(c, reaper) THEN "woken" ELSE task[u].state
           P(u) == IF u \in Kids(c) THEN NewParent(u, reaper) ELSE task[u].parent
           L(u) == Cloned(c, u, sig)
           C(u) == task[u].chld \/ (u \in Sent(c, reaper, sig) /\ Gets(u))
           M(u) == IF u \in Zombies(Kids(c)) THEN FALSE ELSE task[u].missed
<1>3. \A u \in Tasks : task[u] \in Task /\ WellFormed(task[u])
  BY <1>1, TypeIs DEF TypeOK
<1>4. task' = [u \in Tasks |-> [task[u] EXCEPT !.state = S(u), !.parent = P(u),
                                  !.clone = L(u), !.chld = C(u), !.missed = M(u)]]
  <2>1. task \in [Tasks -> Task]
    BY <1>1 DEF TypeOK
  <2>2. task' = [u \in Tasks |->
                [task[u] EXCEPT
                   !.state  = IF u = c THEN "zombie"
                              ELSE IF u \in Roused(c, reaper) THEN "woken" ELSE @,
                   !.parent = IF u \in Kids(c) THEN NewParent(u, reaper) ELSE @,
                   !.clone  = Cloned(c, u, sig),
                   !.chld   = @ \/ (u \in Sent(c, reaper, sig) /\ Gets(u)),
                   !.missed = IF u \in Zombies(Kids(c)) THEN FALSE ELSE @]]
    BY DEF Exit, Kids, Heirs, Sent, Roused, Cloned
  <2> QED BY <2>1, <2>2 DEF Task
<1>5. ASSUME NEW u \in Tasks
      PROVE  /\ S(u) \in States /\ P(u) \in Tasks \cup {NULL} /\ L(u) \in BOOLEAN
             /\ C(u) \in BOOLEAN /\ M(u) \in BOOLEAN
             /\ S(u) \in WaitStates <=> task[u].state \in WaitStates
             /\ S(u) = "copying" <=> task[u].state = "copying"
  <2>1. task[u].state \in States /\ task[u].parent \in Tasks \cup {NULL}
        /\ task[u].clone \in BOOLEAN /\ task[u].chld \in BOOLEAN
        /\ task[u].missed \in BOOLEAN
    BY <1>3 DEF Task
  <2>2. u \in Roused(c, reaper) => task[u].state = "waiting"
    BY DEF Roused
  <2>3. NewParent(u, reaper) \in Tasks
    BY TasksAssumption DEF NewParent
  <2>4. S(u) \in States
    BY <2>1 DEF States
  <2>5. P(u) \in Tasks \cup {NULL}
    BY <2>1, <2>3
  <2>6. L(u) \in BOOLEAN /\ M(u) \in BOOLEAN
    <3>1. Cloned(c, u, sig) \in BOOLEAN
      BY <2>1 DEF Cloned
    <3> QED BY <2>1, <3>1
  <2>7. C(u) \in BOOLEAN
    OBVIOUS
  <2>8. /\ S(u) \in WaitStates <=> task[u].state \in WaitStates
        /\ S(u) = "copying" <=> task[u].state = "copying"
    BY <1>2, <2>2 DEF WaitStates
  <2> QED BY <2>4, <2>5, <2>6, <2>7, <2>8
<1> HIDE DEF S, P, L, C, M
<1>6. ASSUME NEW u \in Tasks
      PROVE  /\ WellFormed(task'[u])
             /\ task'[u].tgid = task[u].tgid /\ task'[u].arg = task[u].arg
             /\ task'[u].found = task[u].found
             /\ task'[u].state = S(u) /\ task'[u].parent = P(u)
             /\ task'[u].clone = L(u) /\ task'[u].chld = C(u) /\ task'[u].missed = M(u)
  <2>1. task'[u] = [task[u] EXCEPT !.state = S(u), !.parent = P(u),
                                   !.clone = L(u), !.chld = C(u), !.missed = M(u)]
    BY <1>4
  <2>2. task[u] \in Task /\ WellFormed(task[u])
    BY <1>3
  <2> QED BY <1>5, <2>1, <2>2, ZenonT(60) DEF WellFormed, Task
<1>7. TypeOK'
  <2>1. task' \in [Tasks -> Task]
    <3>1. \A u \in Tasks : task'[u] \in Task
      BY <1>6 DEF WellFormed
    <3>2. task' = [u \in Tasks |-> task'[u]]
      BY <1>4
    <3> QED BY <3>1, <3>2
  <2>2. task[c].tgid \in Tasks
    BY <1>1, <1>2 DEF HasGroup
  <2>3. given' = given \/ given' = given \cup {task[c].tgid}
    BY ExitIs
  <2>4. RestOK'
    BY <1>1, <1>2, <2>2, <2>3 DEF RestOK, TypeOK
  <2> QED BY <1>6, <2>1, <2>4, TypePrime
<1>8. ASSUME NEW u \in Tasks
      PROVE  /\ task'[u].state = IF u = c THEN "zombie"
                                 ELSE IF u \in Roused(c, reaper) THEN "woken"
                                 ELSE task[u].state
             /\ task'[u].parent = IF u \in Kids(c) THEN NewParent(u, reaper)
                                  ELSE task[u].parent
             /\ u \notin Kids(c) /\ u # c => task'[u].clone = task[u].clone
             /\ u \notin Zombies(Kids(c)) => task'[u].missed = task[u].missed
  BY <1>6 DEF S, P, L, M, Cloned
<1>9. ASSUME NEW u \in Tasks
      PROVE  task'[u].chld <=> task[u].chld \/ (u \in Sent(c, reaper, sig) /\ Gets(u))
  BY <1>6 DEF C
<1>10. c \notin Kids(c) => (task'[c].clone <=> sig # "SIGCHLD")
  BY <1>6, Zenon DEF L, Cloned
<1> QED BY <1>6, <1>7, <1>8, <1>9, <1>10

LEMMA ExitFamily ==
    ASSUME WaitInv, NEW c \in Tasks, NEW reaper \in Tasks,
           NEW sig, Exit(c, reaper, sig)
    PROVE  FamilyInv'
<1>1. FamilyInv
  BY DEF WaitInv
<1>2. task[c].state = "exiting" /\ reaper \in Reapers(c)
  BY ExitIs
<1>3. task[reaper].state \notin {"free", "exiting", "zombie"} /\ reaper # c
  BY <1>1, <1>2, ReaperIs
<1>4. TypeOK'
  BY ExitShape
<1>5. \A u \in Tasks : /\ task'[u].tgid = task[u].tgid
                       /\ task'[u].found = task[u].found
                       /\ u # c => \/ task'[u].state = task[u].state
                                   \/ task'[u].state = "woken" /\ task[u].state = "waiting"
                       /\ u = c => task'[u].state = "zombie"
                       /\ u \in Kids(c) => task'[u].parent = NewParent(u, reaper)
                       /\ u \notin Kids(c) => task'[u].parent = task[u].parent
  <2>1. \A u : u \in Roused(c, reaper) => task[u].state = "waiting"
    BY DEF Roused
  <2> QED BY <2>1, ExitShape
<1>6. InitTask # c /\ InitTask \notin Kids(c)
  BY <1>1, <1>2, TasksAssumption DEF FamilyInv, InitLives, Kids
<1>7. InitLives'
  BY <1>1, <1>5, <1>6, TasksAssumption DEF FamilyInv, InitLives
<1>8. HasGroup'
  BY <1>1, <1>2, <1>5 DEF FamilyInv, HasGroup
<1>9. NotOwnParent'
  BY <1>1, <1>5, <1>6 DEF FamilyInv, NotOwnParent, NewParent
<1>10. ParentLives'
  <2> SUFFICES ASSUME NEW u \in Tasks, task'[u].state # "free", u # InitTask
               PROVE  /\ task'[u].parent \in Tasks
                      /\ task'[task'[u].parent].state \notin {"free", "zombie"}
    BY DEF ParentLives, Linked, Zombies
  <2>1. task[u].state # "free"
    BY <1>2, <1>5
  <2>2. CASE u \in Kids(c)
    <3>1. task'[u].parent \in {InitTask, reaper}
      BY <1>5, <2>2 DEF NewParent
    <3>2. \A q \in {InitTask, reaper} : task'[q].state \notin {"free", "zombie"}
      BY <1>1, <1>3, <1>5, <1>6, TasksAssumption DEF FamilyInv, InitLives
    <3> QED BY <3>1, <3>2, TasksAssumption
  <2>3. CASE u \notin Kids(c)
    <3>1. /\ task[u].parent \in Tasks
          /\ task[task[u].parent].state \notin {"free", "zombie"}
      BY <1>1, <2>1 DEF FamilyInv, ParentLives, Linked, Zombies
    <3>2. task[u].parent # c
      BY <2>1, <2>3 DEF Kids, Linked
    <3> QED BY <1>5, <2>3, <3>1, <3>2
  <2> QED BY <2>2, <2>3
<1>11. FoundIsDead'
  BY <1>1, <1>2, <1>5 DEF FamilyInv, FoundIsDead
<1> QED BY <1>4, <1>7, <1>8, <1>9, <1>10, <1>11 DEF FamilyInv

LEMMA ExitSleep ==
    ASSUME WaitInv, NEW c \in Tasks, NEW reaper \in Tasks,
           NEW sig, Exit(c, reaper, sig)
    PROVE  SleepInv'
<1>1. FamilyInv /\ TypeOK /\ SleepFields
  BY SleepIs DEF WaitInv, FamilyInv
<1>2. task[c].state = "exiting" /\ reaper \in Reapers(c)
  BY ExitIs
<1>3. /\ task[reaper].state \notin {"free", "exiting", "zombie"} /\ reaper # c
      /\ \A u \in Tasks : /\ task[u].tgid = task[c].tgid
                          /\ task[u].state \notin {"free", "exiting", "zombie"}
                          => task[reaper].tgid = task[c].tgid
  BY <1>1, <1>2, ReaperIs
<1>4. SUFFICES SleepFields'
  <2>1. TypeOK'
    BY ExitShape
  <2> QED BY <2>1, SleepIs, PTL
<1> SUFFICES ASSUME NEW u \in Tasks, task'[u].state = "waiting"
             PROVE  /\ ~task'[u].chld
                    /\ \A z \in Tasks : ~DeadChild(z, u, task[u].arg)'
                    /\ task'[u].tgid \notin given' =>
                          \E p \in Tasks : LiveChild(p, u, task[u].arg)'
  BY DEF SleepFields
<1>5. u # c /\ task[u].state = "waiting" /\ u \notin Roused(c, reaper)
      /\ task'[u].arg = task[u].arg /\ task'[u].tgid = task[u].tgid
  BY ExitShape
<1>6. /\ task[u].tgid # task[task[c].parent].tgid
      /\ \A z \in Tasks : z \in Zombies(Kids(c)) =>
            task[u].tgid # task[NewParent(z, reaper)].tgid
      /\ u \notin Sent(c, reaper, sig)
  BY <1>5, NotRoused
<1>7. /\ ~task[u].chld
      /\ \A z \in Tasks : ~DeadChild(z, u, task[u].arg)
      /\ task[u].tgid \notin given => \E p \in Tasks : LiveChild(p, u, task[u].arg)
  BY <1>1, <1>5 DEF SleepFields
<1>8. ~task'[u].chld
  BY <1>6, <1>7, ExitShape
<1>9. \A q \in Tasks : /\ task'[q].tgid = task[q].tgid
                       /\ task'[q].state # "free" <=> task[q].state # "free"
                       /\ q # c => (task'[q].state = "zombie" <=> task[q].state = "zombie")
                       /\ q \in Kids(c) => task'[q].parent = NewParent(q, reaper)
                       /\ q \notin Kids(c) => /\ task'[q].parent = task[q].parent
                                              /\ q # c => task'[q].clone = task[q].clone
  <2>1. \A q : q \in Roused(c, reaper) => task[q].state = "waiting"
    BY DEF Roused
  <2> QED BY <1>2, <2>1, ExitShape
<1>10. c \notin Kids(c)
  BY <1>1 DEF FamilyInv, NotOwnParent, Kids
<1>11. ASSUME NEW z \in Tasks, DeadChild(z, u, task[u].arg)' PROVE FALSE
  <2>1. task'[z].state = "zombie" /\ ChildOf(z, u, task[u].arg.nothread)'
    BY <1>11 DEF DeadChild
  <2>2. task[task'[z].parent].tgid = task[u].tgid
    BY <1>5, <1>9, <2>1 DEF ChildOf
  <2>3. CASE z = c
    BY <1>6, <1>9, <1>10, <2>2, <2>3
  <2>4. CASE z # c /\ z \in Kids(c)
    <3>1. z \in Zombies(Kids(c))
      BY <1>9, <2>1, <2>4 DEF Zombies
    <3> QED BY <1>6, <1>9, <2>2, <2>4, <3>1
  <2>5. CASE z # c /\ z \notin Kids(c)
    <3>1. task[z].state = "zombie"
      BY <1>9, <2>1, <2>5
    <3>2. task[z].parent \in Tasks /\ task[task[z].parent].state # "free"
      BY <1>1, <3>1, ZombieParent
    <3>3. ChildOf(z, u, task[u].arg.nothread)
      BY <1>5, <1>9, <2>1, <2>5, <3>1, <3>2 DEF ChildOf
    <3>4. DeadChild(z, u, task[u].arg)
      BY <1>5, <1>9, <1>11, <2>5, <3>1, <3>3 DEF DeadChild, Sees
    <3> QED BY <1>7, <3>4
  <2> QED BY <2>3, <2>4, <2>5
<1>12. ASSUME task'[u].tgid \notin given'
       PROVE  \E p \in Tasks : LiveChild(p, u, task[u].arg)'
  <2>1. /\ task[u].tgid \notin given
        /\ reaper \in Kids(c) => task[u].tgid # task[c].tgid
    <3>1. given' = IF reaper \in Kids(c) THEN given \cup {task[c].tgid} ELSE given
      BY ExitIs
    <3> QED BY <1>5, <1>12, <3>1
  <2>2. PICK p \in Tasks : LiveChild(p, u, task[u].arg)
    BY <1>7, <2>1
  <2>3. ChildOf(p, u, task[u].arg.nothread) /\ task[p].state # "zombie"
    BY <2>2 DEF LiveChild
  <2>4. task[p].parent \in Tasks /\ task[task[p].parent].tgid = task[u].tgid
    BY <2>3 DEF ChildOf
  <2>5. p # c
    BY <1>6, <2>4
  <2>6. task'[p].state # "zombie" /\ task'[p].state # "free"
    BY <1>9, <2>3, <2>5 DEF ChildOf
  <2>7. CASE p \notin Kids(c)
    <3>1. ChildOf(p, u, task[u].arg.nothread)'
      BY <1>5, <1>9, <2>3, <2>6, <2>7 DEF ChildOf
    <3> QED BY <2>6, <3>1 DEF LiveChild
  <2>8. CASE p \in Kids(c)
    <3>1. task[p].parent = c
      BY <2>8 DEF Kids
    <3>2. task[u].arg.nothread = FALSE /\ task[u].tgid = task[c].tgid
      <4>1. task[u].arg.nothread \in BOOLEAN
        BY <1>1, <1>5, ArgIs
      <4> QED BY <1>5, <2>3, <2>4, <3>1, <4>1 DEF ChildOf
    <3>3. task[reaper].tgid = task[u].tgid
      BY <1>3, <1>5, <3>2
    <3>4. task'[p].parent = reaper
      BY <1>9, <2>1, <2>8, <3>2 DEF NewParent
    <3>5. ChildOf(p, u, task[u].arg.nothread)'
      BY <1>3, <1>5, <1>9, <2>6, <3>2, <3>3, <3>4 DEF ChildOf
    <3> QED BY <2>6, <3>5 DEF LiveChild
  <2> QED BY <2>7, <2>8
<1> QED BY <1>8, <1>11, <1>12

LEMMA ExitOne ==
    ASSUME WaitInv, NEW c \in Tasks, NEW reaper \in Tasks,
           NEW sig, Exit(c, reaper, sig)
    PROVE  OneWaits'
<1>1. FamilyInv /\ OneWaits
  BY DEF WaitInv
<1>2. task[c].state = "exiting" /\ reaper \in Reapers(c) /\ action' = action
      /\ keeps' = keeps
  BY ExitIs
<1>3. /\ task[reaper].state \notin {"free", "exiting", "zombie"}
      /\ \A u \in Tasks : /\ task[u].tgid = task[c].tgid
                          /\ task[u].state \notin {"free", "exiting", "zombie"}
                          => task[reaper].tgid = task[c].tgid
  BY <1>1, <1>2, ReaperIs
<1> SUFFICES ASSUME keeps = "one" PROVE OneNext
  BY <1>2, OneNextIs DEF OneNext
<1>4. \A u \in Tasks : /\ Waits(u)' => Waits(u)
                       /\ task'[u].tgid = task[u].tgid
                       /\ task'[u].found = task[u].found
                       /\ task'[u].parent = IF u \in Kids(c) THEN NewParent(u, reaper)
                                            ELSE task[u].parent
  <2>1. \A q : q \in Roused(c, reaper) => task[q].state = "waiting"
    BY DEF Roused
  <2> QED BY <1>2, <2>1, ExitShape DEF Waits, WaitStates
<1>5. ASSUME NEW u \in Tasks, Waits(u), task[u].found \in Tasks
      PROVE  \E q \in Tasks : /\ task'[task[u].found].parent = q
                              /\ task[q].tgid = task[u].tgid
  <2> DEFINE z == task[u].found
  <2>1. task[z].state = "zombie"
    BY <1>1, <1>5 DEF FamilyInv, FoundIsDead
  <2>2. PICK q \in Tasks : task[z].parent = q /\ task[q].tgid = task[u].tgid
    BY <1>1, <1>5, OneIs
  <2>3. CASE z \notin Kids(c)
    BY <1>4, <1>5, <2>2, <2>3
  <2>4. CASE z \in Kids(c)
    <3>1. q = c
      BY <2>2, <2>4 DEF Kids
    <3>2. task[reaper].tgid = task[u].tgid
      BY <1>3, <1>5, <2>2, <3>1 DEF Waits, WaitStates
    <3>3. task'[z].parent = reaper
      BY <1>3, <1>4, <1>5, <2>1, <2>4 DEF NewParent
    <3> QED BY <3>2, <3>3
  <2> QED BY <2>3, <2>4
<1> QED BY <1>1, <1>2, <1>4, <1>5, OneIs DEF OneNext

LEMMA ExitIgnored ==
    ASSUME WaitInv, NEW c \in Tasks, NEW reaper \in Tasks,
           NEW sig, Exit(c, reaper, sig)
    PROVE  IgnoredIsPending'
<1>1. FamilyInv /\ IgnoreFields /\ FamilyInv'
  BY IgnoreIs, ExitFamily DEF WaitInv
<1>2. task[c].state = "exiting" /\ action' = action
  BY ExitIs
<1>3. SUFFICES IgnoreFields'
  BY <1>1, IgnoreIs, PTL
<1> SUFFICES ASSUME NEW z \in Tasks, task'[z].state = "zombie", ~task'[z].clone,
                    ~task'[z].missed,
                    task'[task'[z].parent].state \notin {"exiting", "zombie"},
                    action'[task'[task'[z].parent].tgid] = "ignore"
             PROVE  task'[task'[z].parent].chld
  BY DEF IgnoreFields
<1> DEFINE f == task'[z].parent
<1>4. f \in Tasks
  <2>1. z # InitTask
    BY <1>1 DEF FamilyInv, InitLives
  <2> QED BY <1>1, <2>1 DEF FamilyInv, ParentLives, Linked, Zombies
<1>5. task'[f].tgid = task[f].tgid /\ action[task[f].tgid] = "ignore"
  BY <1>2, <1>4, ExitShape
<1>6. task[f].state \notin {"exiting", "zombie"}
  <2>1. f # c
    BY <1>4, ExitShape
  <2>2. f \in Roused(c, reaper) => task[f].state = "waiting"
    BY DEF Roused
  <2> QED BY <1>4, <2>1, <2>2, ExitShape
<1>7. Gets(f)
  BY <1>5, <1>6 DEF Gets, Leaving
<1>8. f \in Sent(c, reaper, sig) \/ task[f].chld
  <2>1. CASE z = c
    <3>1. c \notin Kids(c)
      BY <1>1 DEF FamilyInv, NotOwnParent, Kids
    <3>2. f = task[c].parent /\ sig = "SIGCHLD"
      BY <2>1, <3>1, ExitShape
    <3> QED BY <3>2 DEF Sent
  <2>2. CASE z # c
    <3>1. task[z].state = "zombie"
      <4>1. z \in Roused(c, reaper) => task[z].state = "waiting"
        BY DEF Roused
      <4> QED BY <2>2, <4>1, ExitShape
    <3>2. CASE z \in Kids(c)
      <4>1. z \in Zombies(Kids(c)) /\ f = NewParent(z, reaper)
        BY <3>1, <3>2, ExitShape DEF Zombies
      <4> QED BY <4>1 DEF Sent, Heirs
    <3>3. CASE z \notin Kids(c)
      <4>1. z \notin Zombies(Kids(c))
        BY <3>3 DEF Zombies
      <4>2. f = task[z].parent /\ ~task[z].clone /\ ~task[z].missed
        BY <2>2, <3>3, <4>1, ExitShape
      <4> QED BY <1>1, <1>5, <1>6, <3>1, <4>2 DEF IgnoreFields
    <3> QED BY <3>2, <3>3
  <2> QED BY <2>1, <2>2
<1> HIDE DEF f
<1>9. task'[f].chld
  BY <1>4, <1>7, <1>8, ExitShape
<1> QED BY <1>9 DEF f

-----------------------------------------------------------------------------
(***************************************************************************)
(* The invariant, and the theorems.                                        *)
(***************************************************************************)
LEMMA WaitInit == Init => WaitInv
<1> SUFFICES ASSUME Init PROVE WaitInv
  OBVIOUS
<1> DEFINE i == [FreeTask EXCEPT !.state = "running", !.tgid = InitTask]
<1>1. task = [t \in Tasks |-> IF t = InitTask THEN i ELSE FreeTask]
  BY DEF Init
<1>2. /\ i \in Task /\ i.state = "running" /\ i.tgid = InitTask /\ i.parent = NULL
      /\ i.arg = NULL /\ i.found = NULL
  BY TasksAssumption DEF FreeTask, Task, States
<1>3. /\ FreeTask \in Task /\ FreeTask.state = "free" /\ FreeTask.parent = NULL
      /\ FreeTask.arg = NULL /\ FreeTask.found = NULL
  BY DEF FreeTask, Task, States
<1> HIDE DEF i
<1>4. \A t \in Tasks : /\ task[t].state = IF t = InitTask THEN "running" ELSE "free"
                       /\ task[t].parent = NULL /\ task[t].found = NULL
                       /\ WellFormed(task[t])
  BY <1>1, <1>2, <1>3 DEF WellFormed, WaitStates
<1>5. TypeOK
  <2>1. RestOK
    BY DEF Init, RestOK
  <2>2. task \in [Tasks -> Task]
    BY <1>1, <1>2, <1>3
  <2> QED BY <1>4, <2>1, <2>2, TypeIs
<1>6. InitLives /\ NotOwnParent /\ FoundIsDead
  BY <1>4, TasksAssumption DEF InitLives, NotOwnParent, FoundIsDead
<1>7. HasGroup
  BY <1>1, <1>2, <1>4, TasksAssumption DEF HasGroup
<1>8. ParentLives
  BY <1>4 DEF ParentLives, Linked
<1>9. OneWaits
  BY <1>4 DEF OneWaits, InWait
<1>10. SleepInv
  BY <1>4 DEF SleepInv, NoSleepOverDead, SleepsForLive
<1>11. IgnoredIsPending
  BY <1>4 DEF IgnoredIsPending, Zombies, Linked
<1> QED BY <1>5, <1>6, <1>7, <1>8, <1>9, <1>10, <1>11 DEF WaitInv, FamilyInv

LEMMA WaitStep == WaitInv /\ [Next]_vars => WaitInv'
<1> SUFFICES ASSUME WaitInv, [Next]_vars PROVE WaitInv'
  OBVIOUS
<1>1. CASE UNCHANGED vars
  <2>1. task' = task /\ action' = action /\ keeps' = keeps /\ given' = given
    BY <1>1 DEF vars
  <2>2. TypeOK' = TypeOK
    BY <2>1 DEF TypeOK, InWait
  <2>3. InitLives' = InitLives /\ HasGroup' = HasGroup /\ NotOwnParent' = NotOwnParent
    BY <2>1 DEF InitLives, HasGroup, NotOwnParent
  <2>4. ParentLives' = ParentLives /\ FoundIsDead' = FoundIsDead
    BY <2>1 DEF ParentLives, FoundIsDead, Linked, Zombies
  <2>5. OneWaits' = OneWaits
    BY <2>1 DEF OneWaits, InWait
  <2>6. NoSleepOverDead' = NoSleepOverDead
    BY <2>1 DEF NoSleepOverDead, Dead, Sight, Children, Group, Linked
  <2>7. SleepsForLive' = SleepsForLive
    BY <2>1 DEF SleepsForLive, Children, Group, Linked
  <2>8. IgnoredIsPending' = IgnoredIsPending
    BY <2>1 DEF IgnoredIsPending, Zombies, Linked, Leaving
  <2> QED BY <2>2, <2>3, <2>4, <2>5, <2>6, <2>7, <2>8 DEF WaitInv, FamilyInv, SleepInv
<1>2. CASE Next
  <2>1. PICK t \in Tasks :
           \/ \E a \in WaitArgs[t] : WaitCalls(t, a)
           \/ WaitRestarts(t) \/ WaitRefused(t) \/ WaitRepeats(t)
           \/ WaitCopied(t) \/ WaitFaults(t)
           \/ \E p \in Tasks, f \in Forks : Fork(t, p, f)
           \/ ExitBegins(t)
           \/ \E reaper \in Tasks, sig \in {"SIGCHLD", "other"} : Exit(t, reaper, sig)
           \/ \E new \in {"default", "ignore", "handler"} : do_sigaction(t, new)
           \/ \E restart \in BOOLEAN : SignalHandled(t, restart)
           \/ SignalReaps(t) \/ SignalRefused(t) \/ PolicyChanges(t)
    BY <1>2, Zenon DEF Next
  <2>2. ASSUME NEW reaper \in Tasks, NEW sig, Exit(t, reaper, sig)
        PROVE  WaitInv'
    BY <2>2, ExitFamily, ExitSleep, ExitOne, ExitIgnored DEF WaitInv
  <2> QED BY <2>1, <2>2, WaitsKeep, ForkKeeps, ExitBeginsKeeps, SigactionKeeps,
             SignalsKeep, RefusedKeeps, PolicyKeeps, Zenon
<1> QED BY <1>1, <1>2

LEMMA WaitInvariant == Spec => []WaitInv
  BY WaitInit, WaitStep, PTL DEF Spec

(***************************************************************************)
(* Types, and that a task has arguments of wait4 exactly while it is in    *)
(* the call and a zombie in hand exactly while it copies.                  *)
(***************************************************************************)
THEOREM WaitTypes == Spec => []TypeOK
<1>1. WaitInv => TypeOK
  BY DEF WaitInv, FamilyInv
<1> QED BY <1>1, WaitInvariant, PTL

(***************************************************************************)
(* For any number of tasks and groups: the zombie sys_wait4 found before   *)
(* it slept in put_user is still there afterwards, if one thread of a      *)
(* group waits at a time and none does while SIGCHLD is ignored.           *)
(***************************************************************************)
THEOREM HeldZombieStays == Spec => []HeldIsThere
<1>1. WaitInv => HeldIsThere
  <2> SUFFICES ASSUME WaitInv, keeps = "one", NEW t \in Tasks, task[t].found = STALE
               PROVE  FALSE
    BY DEF HeldIsThere
  <2>1. WellFormed(task[t])
    BY TypeIs DEF WaitInv, FamilyInv
  <2>2. Waits(t)
    BY <2>1, TasksAssumption DEF WellFormed, Waits, WaitStates
  <2> QED BY <2>2, OneIs DEF WaitInv
<1> QED BY <1>1, WaitInvariant, PTL

(***************************************************************************)
(* No thread sleeps in sys_wait4 over a dead child it would report, nor    *)
(* over a SIGCHLD, whoever of its group is or becomes the parent.          *)
(***************************************************************************)
THEOREM NobodySleepsOverDead == Spec => []NoSleepOverDead
<1>1. WaitInv => NoSleepOverDead
  BY DEF WaitInv, SleepInv
<1> QED BY <1>1, WaitInvariant, PTL

(***************************************************************************)
(* A thread asleep in sys_wait4 has a child left to wake it, except in a   *)
(* group one of whose threads forget_original_parent gave to init.         *)
(***************************************************************************)
THEOREM SleepersHaveChildren == Spec => []SleepsForSomeone
<1>1. WaitInv => SleepsForSomeone
  BY DEF WaitInv, SleepInv, SleepsForLive, SleepsForSomeone
<1> QED BY <1>1, WaitInvariant, PTL

(***************************************************************************)
(* A dead child of a task that ignores SIGCHLD has the signal that gets it *)
(* reaped on the way, unless the one for it was spent before.              *)
(***************************************************************************)
THEOREM IgnoredChildrenArePending == Spec => []IgnoredIsPending
<1>1. WaitInv => IgnoredIsPending
  BY DEF WaitInv
<1> QED BY <1>1, WaitInvariant, PTL

(***************************************************************************)
(* In any division into thread groups, every task but init has a parent    *)
(* that is there and is no zombie.                                         *)
(***************************************************************************)
THEOREM ThreadParentsLive == Spec => []ParentLives
<1>1. WaitInv => ParentLives
  BY DEF WaitInv, FamilyInv
<1> QED BY <1>1, WaitInvariant, PTL
=============================================================================
