# The OS HW1 process policy: a TLA+ verification project

The repository is a Linux 2.4.18 kernel with one addition: a *policy* that can be
switched on for a process. A process whose policy is on has a level from 0 to 2
and a log. `fork` needs level 2, `wait4` and `sched_yield` need level 1; a call
above the level is refused with `-EINVAL` and leaves a record in the log, which
`get_process_log` hands out and deletes. This project models that addition and
the parts of the kernel it is built into: fork and pid allocation, exit, wait4
and SIGCHLD, and the scheduler. Paths below are relative to
`src/linux-2.4.18-14custom/` unless they start with `user_files/`.

## 1. Inventory

| component | state | operations | meets |
|---|---|---|---|
| policy calls, `kernel/hw1_syscalls.c` | `policy_on`, `policy_level`, `logArray` of `task_struct`; `struct log_array` (ring: `indexWrite`, `indexRead`, `size`, `full`, `array`) | enable (243), disable (244), set capabilities (245), get log (246) | kmalloc, copy_to_user, the pid hash |
| wrappers, `user_files/hw1_syscalls.h` | none | checks in user space, then `int $0x80` | policy calls |
| hooks in `do_fork`, `sys_wait4`, `sys_sched_yield` | write the ring of `current` | refuse and record | everything that forks, waits or yields, the kernel's own code included |
| life cycle, `kernel/fork.c`, `kernel/exit.c` | task state, parent links, thread groups, zombies | `do_fork`, `do_exit`/`exit_notify`, `sys_wait4`, `release_task` | reset of the policy fields in the child; the log is freed in `release_task` |
| parent notification, `kernel/signal.c` | wait queue of the parent's group | `do_notify_parent`, `wake_up_parent` | `exit_notify`, `sys_wait4` |
| signal delivery, `arch/i386/kernel/signal.c` | pending signals, actions | `do_signal`, `do_sigaction`, restart of `-ERESTARTSYS`, in-kernel `sys_wait4` | the hooks |
| O(1) scheduler, `kernel/sched.c` | run queue, two priority arrays, time slices, sleep averages | `schedule`, `scheduler_tick`, wake-ups, fork and exit, yield, nice, setscheduler | hooks, fork |
| pid allocation, `get_pid` | `last_pid`, `next_safe`, `nr_threads`, the user's process count | `get_pid`, the limits and failure paths of `do_fork`, `setsid`, `setpgid` | the task list |
| page allocator, `mm/page_alloc.c` | - | `yield()` when memory is tight | the hook of `sys_sched_yield` |
| draft `kernel/hw1_syscall.c` | - | not built | - |
| tests, `user_files/` | - | state what the calls should do | - |

What is hard here: the ring's empty/full ambiguity and its behaviour at the
limit; allocation and copy failures half way through a call; stale `logArray`
pointers (never cleared); the log outliving the process as part of a zombie;
calls about *another* process, with no lock, across sleeps in `kmalloc` and
`copy_to_user`; wait4 sleeping across a change of the policy; hooks reached from
inside the kernel; a pid handed out on the word of an old scan; limits tested
before a sleep and counted after it; two threads that find one zombie; children
that change parents while both exit; a run queue changed by interrupts between
any two steps. `PROJECT.json` lists these hazards by line.

The kernel is configured without `CONFIG_SMP` and 2.4 kernels do not preempt
themselves, so code between two sleeps is one atomic step. All interleaving
comes from sleeping and, in the scheduler, from interrupts.

## 2. Modules

| module | models | instance |
|---|---|---|
| `LogArray` | the ring as pure operators: what a hook writes, what get reads, the header after success and after a failed copy; the reference meaning `Count`/`Contents` | used by the next two |
| `PolicySys` | every call as one step: wrappers + the four calls, the hooks, fork, exit, wait4, release_task | `MCPolicySys` |
| `PolicySleep` | the four calls split at `kmalloc` and `copy_to_user`, processes acting on one another, release, the hook in every sleep through the allocator's `yield()` | `MCPolicySleep` |
| `PolicySpec` | the promise: a process has a level and a *queue* of records; no ring, no heap, no pointers | refined by `PolicySys` |
| `ForkPid` | `get_pid`, `do_fork` split where it sleeps, its limits, counters and failures, exit, release, `setsid`, `setpgid` | `MCForkPid` |
| `WaitGroup` | thread groups: wait4 with its sleep in `put_user`, exit in two steps, new parents, SIGCHLD and its action, the kernel's own wait4, the hook | `MCWaitGroup` |
| `Sched` | the run queue of one CPU: `schedule`, the tick, sleep and wake-up, fork and exit, yield with its hook, nice, setscheduler, the allocator's loop | `MCSched` |
| `PolicySysProofs`, `PolicyRingProofs`, `PolicyFamilyProofs` | theorems about `PolicySys` | - |
| `PolicyRefineProofs` | `PolicySys` implements `PolicySpec` | - |
| `PolicySleepProofs`, `ForkPidProofs`, `WaitGroupProofs`, `SchedProofs` | theorems about the module of that name | - |

### PolicySys and PolicySleep

`task[p]` holds the fields of p's `task_struct` that matter (`state`, `parent`,
the `pid` argument of a wait in progress, and the three policy fields); `"free"` is
a pid under which nothing is hashed. `logs` and `arrays` are the live heap blocks:
their domains grow with kmalloc and shrink with kfree, so a pointer outside the
domain is dangling, and which free block kmalloc gives out is a nondeterministic
choice, so a block can be reused. `ret` and `user_mem` are what the last call
returned and copied out; the wrapper's `-1` with `errno` is the one value
`-errno`. Every failing path is an action of its own (`EnableNoHeader`,
`EnableNoArray`, `GetNoMem`, `GetFault`, `WaitFault`, ...). A wait that sleeps is in
state `"waiting"` until `exit_notify` makes it `"woken"`; `WaitLoop` is one pass
from the label `repeat`.

In `PolicySleep`, `call[c]` is the place a call of c sleeps in and the locals it
will use afterwards. A header fresh from kmalloc is `Garbage`. Using a freed
`task_struct`, a freed log or a header that is `Garbage` sets `wild` and ends the
behaviour: what happens after that is not modelled. `queue[p]` is a history variable:
the serial numbers of the refused calls of p that nobody has been handed. Records carry
these numbers, so "each once, the oldest first" says of a ring what a second queue would.
`keeps` is the discipline the callers keep to, chosen in `Init`. `"any"` asks nothing.
`"family"` asks that a process calls about itself or a child of its own only (`Parent`)
and that no two calls about one process overlap. The second rule alone would not do:
nothing in the code keeps p from exiting and being reaped while another process is
asleep in a call about it. What does is who would do it: p itself has not exited while
it is in a call, and its parent reaps nobody while it is in one. That is the guard of
`Release`, in every discipline; everybody else can exit and be reaped at any moment.

`KernelYield` is the hook run by `yield()` of `__alloc_pages` for a process asleep in a
call, in a `kmalloc` or in the page fault of `copy_to_user`; it writes the log of that
process, which may be the one the call is about. The hooks' comment assumes "that the
size of the log array is large enough", so `Denied` does not meet a full ring, but for
one case: while a get copies, `indexRead` has moved on and the ring has room that it
will not have if the copy fails. `crowded` is a history variable: the logs in which the
hook used up that room. In these, and in these only, the family discipline does not
keep the records.

### ForkPid

A task is `"forking"` from the moment `do_fork` has its pid until it is linked into
the task list (`ForkLinks`) or given up (`ForkFails`); between the two its parent
sleeps in the copy functions and anybody else may run. `GetPid(x, n)` says what
`get_pid` returns and leaves in `next_safe`, for the path that trusts `next_safe` and
for the scan (all ids above `last_pid`, then those from `RESERVED_PIDS` on). The
scan looks at the four ids of every *linked* task. `unseen` is a history variable,
true from the first event after which an id in use may be overlooked:

- the ids are exhausted, and `next_safe` is left at whatever the last round met;
- the ids wrap while a fork is asleep, whose pid the scan cannot see;
- `setpgid` changes the group of a task asleep in `do_fork`: the child still brings
  the old group into the list.

### WaitGroup

`found` is the zombie a thread has in hand while it sleeps in `put_user`; when
somebody else releases that task it becomes `STALE`. `Exit` is `exit_notify` with
`forget_original_parent` and both notifications; its third argument is the signal the
task dies with, which is SIGCHLD whenever the exec ids differ (`kernel/exit.c:461`): the
ids are not variables, and since any task may have gone through exec or been reparented
both outcomes are possible for a clone child. `ExitBegins` is all of `do_exit`
before it. `Gets` and `WokenBy` are `send_sig_info` and `wake_up_parent`. `keeps = "one"`
is the discipline under which `HeldIsThere` holds: one thread of a group waits at a
time, and none while SIGCHLD is ignored. Two history variables name the exceptions
of the properties: `given` (a group one of whose threads would have become its own
parent and went to init) and `missed` (a dead child whose SIGCHLD was spent on
another action, or on a call of the kernel the hook refused).

### Sched

Each C function is an operator on `s = [task, rq]` with the name it has in the code
(`dequeue_task`, `effective_prio`, `activate_task`, ...); an action applies the ones its
caller applies. `ShareSlice` and `SplitSlice` are the two halves of what `do_fork` does to
the time slices, before and after it looks for a parent left with none. Arrays are named by role, so the switch of the arrays swaps roles.
`jiffies` only enters as a difference, so a task keeps the time since it fell asleep
and the run queue the time since the first task expired, each up to the value above
which the code does not tell them apart. A task that loops in `__alloc_pages` may yield,
reschedule in reclaim when `need_resched` is set (`AllocReclaims`: the two scans of
`mm/vmscan.c` and `kmem_cache_reap`), sleep in `wakeup_kswapd` (`AllocSleeps`, then
`Block` or, when kswapd is overloaded, `NoSleep`), or get its page.

## 3. Runs

| run | instance | checks | result |
|---|---|---|---|
| `family` | 3 processes, sizes 0 and 1, failing kmalloc, logs that overflow | `TypeOK`, `HeapOwned`, `RingSafe`, `NoLostWakeup`, `ParentAlive`; `WaitAnswered` under fairness | hold |
| `ring` | 1 process, sizes up to 3, all argument errors, a moving clock | `Refines` | holds |
| `life` | 2 processes, calls about one another | `Refines` | holds |
| `sleep` | a parent and its child, with and without the family discipline | `TypeOK`; in the discipline `NoUseAfterFree`, `NoLeakIfKept`, `KeptLogIsQueue` | hold |
| `fork` | init and 4 tasks, 4 pids | `GapIsFree`, `PidsUnique`, `CountersExact`, `ThreadsBounded` | hold |
| `wait` | init and 3 tasks in any groups | `TypeOK`, `HeldIsThere`, `NoSleepOverDead`, `SleepsForSomeone`, `IgnoredIsPending`, `ParentLives` | hold |
| `sched` | 2 tasks, every call into the scheduler but the allocator's | `TypeOK`, `RunqueueOK`, `PreemptKept` | hold |
| `fair` | 3 tasks: one sleeps, one runs, one allocates | `ExpiredReturns`, `AllocLetsOthersRun` under fairness | hold |
| `race_leak` | overlapping enable calls | `NoLeak` | violated |
| `race_lost` | the family discipline, 3 refused calls | `LogIsQueue` | violated |
| `nice` | as `sched`, no real-time policies | `PreemptPending` | violated |
| `kernel_yield` | as `fair`, the allocating task at level 0 | `AllocLetsOthersRun` | violated |

What the passing runs say beyond "it works":

- `sleep` says how far one can rely on the policy calls: memory is safe if processes call
  about themselves and their own children, one call about a process at a time. Even
  then the log is exact only as long as it never fills up while it is being read: a
  caller has to leave as many slots free as the kernel's own `yield()` may use during
  the get, which it cannot know. Calls about strangers are not safe however rare.
- `wait`: one waiter per group can rely on the zombie it found. Two cannot: both may
  find the same one, and the second release is of freed memory. A task that ignores
  SIGCHLD has its dead children reaped, except those whose SIGCHLD was spent before
  the action became SIG_IGN and, with the policy, those whose reaping the hook
  refused; the latter stay zombies until some other child dies. A thread can sleep
  in wait4 for ever when the only child of its group was another thread that
  `forget_original_parent` gave to init.
- `fork`: the comment at `kernel/fork.c:676`, that the counters are "protected by
  the kernel lock", is not what bounds them: the test and the increment are
  separated by sleeps. What holds is `ThreadsBounded`: every fork in flight needs a
  task of its own, so at most `2 * max_threads - 2` threads.
- `sched`: only `set_user_nice` and `setscheduler` can lose a preemption; wake-ups,
  ticks, forks, yields and switches never do.
- `fair`: expired tasks come back. The two ways round EXPIRED_STARVING, to be a
  real-time task or to fall asleep just after one's slice ended, are named in the
  property.

What the violations show:

- `race_leak`: `policy_on` is tested before `kmalloc` sleeps and set after. Two calls
  about one process both pass; the second overwrites `p->logArray`.
- `race_lost`: while get sleeps in `copy_to_user` a process may be refused a call, even
  the caller itself, by the `yield()` of the page fault (`mm/page_alloc.c:561`). The get
  then restores an old `indexRead`, or resets both indexes, or clears `full`. With a log
  of one slot, full: a get of that record, the hook, and the reset loses the new one.
  With two slots, one used: a get of that record, the hook, and a fault loses both.
- `nice`: `set_user_nice` compares the new priority with `p->static_prio` after it
  has stored it there, so a task made better than the running one does not
  preempt it, although the comment there says so.
- `kernel_yield`: `yield()` is `sys_sched_yield()`, so the allocator's yield is refused
  to a level-0 process (and logged as the process's own). The loop of `__alloc_pages`
  then keeps the CPU, although it has other points that reschedule: those of reclaim
  (`mm/vmscan.c:240`, `:578`, and `conditional_schedule()` at `mm/slab.c:1845`) are
  reached only while there is something to reclaim, and `wakeup_kswapd` sleeps
  (`mm/vmscan.c:836`) only while `kswapd_overloaded` is 0. Once it is 1, it is cleared
  when kswapd runs again (`mm/vmscan.c:863`), which the looping task prevents. The
  comment at `mm/page_alloc.c:557` counts on the yield.

### Bounds

- `PolicySys`: what the policy does about one process depends on that process and
  its caller, so two processes give all pairs; with three, an orphan is inherited by
  init while others live and wait. The theorems of section 4 cover any number.
  Sizes 0 to 3 contain the empty and the one-slot ring, the wrap, and partial reads on
  both sides of it. `MaxJiffies` 1 is enough to see records out of order, which
  `Refines` excludes while logs are large enough (`LogLargeEnough`, the assumption
  the hooks' comment makes); `family` drops that assumption. `LogIds` and `ArrIds`
  have two blocks for `family`, so that an enable may find no memory.
- `PolicySleep`: the family discipline needs sizes up to 3, since with fewer slots every
  hook that runs during a copy crowds the log, and 4 refused calls, so that the largest
  ring wraps. Without a discipline there are most interleavings, so there one refused
  call and calls of sizes up to 2 (constraint `SmallIfAny`) have to do; the property
  checked there is `TypeOK`. Two processes are the two roles there are: the one a
  call is about, and its parent or a stranger.
- `ForkPid`: `PID_MAX` 5 and `RESERVED_PIDS` 2 make ids wrap and run out;
  `max_threads` 3 with 5 slots lets the limit be overrun; `RLIMIT_NPROC` 4 binds all
  but `Capable`. States in which `unseen` holds are checked but not left (constraint
  `Seen`): the first two properties say nothing there. The theorems have none of these bounds.
- `WaitGroup` (the theorems have none of these bounds): three tasks besides init give a group of two with a child and a group of
  three. `init` forks only when it is alone. `SomeWaits` has waits for normal children of
  the whole group and for one's own clone children, and init's for all. One task is
  at level 0 at a time (constraint `OneRefused`): the hook looks at its caller alone.
- `Sched`: three user priorities and two real-time ones, slices of 1 or 2 ticks,
  `MAX_SLEEP_AVG` of 1 or 2: enough for a bonus to move a task over another and for
  `TASK_INTERACTIVE` to depend on it. `sched` has two tasks and all calls, 0.7 million
  states: both tasks sleep, t1 in `vfork` and t2 in either way as well, so that the CPU also
  idles; the theorems have none of these bounds. `fair` has three tasks and the calls
  liveness is about: t1 sleeps at will and t3 for kswapd, so that both get interactive
  while t2 expires.

Symmetry permutes heap blocks (`life`, `sleep`, `race_leak`) or the tasks other than
init (`fork`, `wait`), about which the models only ask equality. Runs with
liveness use none, and no run uses a view.

### Fairness

`PolicySys!LiveSpec` asks weak fairness of `WaitRepeats` only: a woken task gets the
CPU. No process is assumed to exit, wait or return from user mode. That is a
condition on the load, not a fact: `Sched` shows that an expired task returns to the
active array but that a task *of* the active array may wait for ever behind better
ones that never expire.

`Sched!LiveSpec` has weak fairness of the timer and of the task that has set its
state to sleep (it calls `schedule` or sets it back), and strong fairness of the
test of `need_resched` on the way to user mode and of the turn of the allocator's
loop: a task that makes other calls in between passes them again and again.
Nothing is asked of `AllocReclaims`, a reschedule inside reclaim, nor of `AllocSleeps`,
the sleep for kswapd: the code does not always reach them.

Deadlock is allowed where the system may stop: in `PolicySleep` all processes may have
left, or `wild` has ended the behaviour; in `WaitGroup` all tasks may be waiting for
each other.

## 4. Theorems

### PolicySys

For any `Pids` containing 1, any arguments, any set of heap blocks not containing
`NULL`/`UNINIT`, any clock bound and, but for the last theorem, both values of
`LogLargeEnough`.

- `TypeCorrect`: `Spec => []TypeOK`. Inductive as it stands, one step per action.
- `HeapIsOwned`: `Spec => []HeapOwned`. The inductive invariant is `HeapInv`, i.e.
  `TypeOK /\ HeapOwned /\ FreeOff`; `FreeOff` (an unused pid has its policy off) is
  needed because fork must not drop an owner. Steps are of three kinds: enable adds
  one owner and fresh blocks, disable and release remove one owner and its blocks,
  every other step is *neutral* (`SamePolicy`). One lemma per kind.
- `RingIsSafe`: `Spec => []RingSafe`. `RingInv` strengthens it to the slots between
  `indexRead` and `indexWrite`: those hold records the hook wrote and all are in the
  array. The window argument covers a full ring that is written over, so the
  theorem does not need the large-log assumption.
- `WakeupsAreNotLost`, `ParentsAreAlive`: `Spec => []NoLostWakeup` and
  `Spec => []ParentAlive`, from one inductive invariant `FamilyInv`. It adds that init
  lives and has no parent (so the orphans `exit_notify` gives it have someone to reap
  them) and that nobody is its own parent (else an exiting process would be left
  with a zombie parent: itself). Every step is first shown to be a `FamilyStep`
  (fork, exit, reap, leave wait4, fall asleep, or nothing), then one lemma per kind.

- `PolicyImplementsSpec`: `LogLargeEnough => (Spec => Refines)`, the refinement the runs
  `ring` and `life` check. The assumption is needed, and is the one in the comment at
  each hook: a hook that meets a full log writes over its oldest record, which no step
  of `PolicySpec` does. The proof has two layers. `ContentsPut`,
  `ContentsGet` and `NewContents` say that the three operations on a ring are those of
  a queue (append, take a prefix, make empty), for every size, position and wrap. Then
  one lemma per call shows that the call is a step of `PolicySpec`
  (`DisableSteps`, `GetSteps`, `ForkSteps`, `ReapSteps`, ...) or leaves the mapped
  state alone; other processes keep their mapped state because `HeapOwned` gives each its own
  blocks (`AbsKept`, `AbsFreed`). The inductive invariant is
  `RefineInv == HeapInv /\ RingInv /\ MeetInv`. `MeetInv`, that `full` is set only where
  the indexes meet, is what `RingInv` does not say and what fails once a full ring is
  written over: a get from such a ring would leave the wrong records.

### PolicySleep

For any processes and parents, sizes, heap blocks and bounds on the refused calls; `WordsAssumption`
says that an unset word is told apart from every number and block, as `Garbage` is in
the model.

- `SleepTypes`: `Spec => []TypeOK`, with or without a discipline, races included, from
  `TypeInv`, which adds the shape of a sleeping call: where it sleeps, about whom, with
  which saved `indexRead`.
- `SleepersFindTheirLog`, `SleepersLeakNothing`: `Spec => []NoUseAfterFree` and
  `Spec => []NoLeakIfKept`, from `KeptInv`. Neither is inductive: one has to say what a
  sleeping call comes back to (`Expects`: the policy is still off for an enable, the header
  it allocated is still its own and still `Garbage`, the log is still there for a get)
  and that no other call is about the same process (`CallsApart`). That p is still there
  has to be proved, not assumed: whoever sleeps in a call about p is p or its parent, so
  `Release(p)` finds nobody in such a call (`ReleaseIsQuiet`). A step about p leaves
  the calls, the task, the header and the array of everybody else alone (`CallFrame`,
  `HeapFrame`, `LogFrame`, `ArrayFrame`); one lemma per part then covers all actions.
- `FamilyKeepsTheQueue`: `Spec => []KeptLogIsQueue`, from `QueueInv`. While a get sleeps in
  `copy_to_user`, `indexRead` has moved and the records are neither in the ring nor handed
  out, so the invariant speaks of the ring a failed copy would restore (`Restored`), and
  says that what the call has taken are the oldest records of that ring (`Taken`). A hook
  that writes meanwhile writes that ring too (`PutWhileCopying`), at its end and without
  filling it, which is what `crowded` is for: a full flag set now would be cleared by the
  end of the call.

### ForkPid

For any finite set of tasks, any `PID_MAX > RESERVED_PIDS > 1`, any
`max_threads > 1`, any user limit and any set of capable tasks.

- `NextSafeIsTrusted`, `PidsAreUnique`: `Spec => []GapIsFree` and
  `Spec => []PidsUnique`, from `IdInv == TypeOK /\ Pairs /\ Flight /\ GapIsFree /\ PidsUnique`.
  Neither is inductive alone: a child asleep in `do_fork` is not in the list the gap
  speaks of, and will be. `Pairs` ties every fork in flight to one live parent and
  one child of its own; `Flight` says that, until an id is missed, the ids that child
  will bring are behind `last_pid` or are its parent's. So linking it puts nothing
  into the gap, a scan that starts behind `last_pid` cannot choose its pid, and the
  three events that set `unseen` are exactly those that break `Flight` or the scan.
- `CountersAreExact`, `ThreadsAreBounded`: `Spec => []CountersExact` and
  `Spec => []ThreadsBounded`, from `CountInv`. A fork begins with
  `nr_threads < max_threads`; forks in flight have distinct parents in the list, and
  the one that begins was not among them, so `nr_threads` plus the forks in flight is at
  most twice `max_threads - 1`; linking moves one from the second count to the first.

### WaitGroup

For any finite set of tasks, any kinds of fork and any options of wait4; all six
properties of the run `wait`: `WaitTypes`, `HeldZombieStays`, `NobodySleepsOverDead`,
`SleepersHaveChildren`, `IgnoredChildrenArePending`, `ThreadParentsLive`. The inductive
invariant is `WaitInv`, four parts that rest on the first:

- `FamilyInv`: types, parents are alive, nobody is its own parent (else the wake-up
  of an exit would go to the wrong group), init lives, a zombie in hand is one.
- `SleepInv`: `NoSleepOverDead` and, stronger than `SleepsForSomeone`, that a sleeper
  has a *living* child: a dead one may be reaped by another thread without a wake-up,
  while the death of a living one wakes the whole group.
- `OneWaits`: under the discipline one thread of a group is in wait4, and the zombie
  in its hand is a child of its group. `forget_original_parent` keeps it there, since
  the waiter itself is a thread that can inherit.
- `IgnoredIsPending`, inductive given `FamilyInv`.

All actions but two are *turns* (`Turn(t, zs)`: task t goes on and the zombies zs are
released) and share one lemma per part, with what is particular to an action in
`Sides`; `do_fork` and `exit_notify` have lemmas of their own.

### Sched

For any finite set of tasks, any number of priorities, any bonus, interactivity and
starvation constants and any time slices of at least one tick.

- `SchedTypes`, `RunqueueAgrees`: `Spec => []TypeOK` and `Spec => []RunqueueOK`.
  `TypeOK` includes that no task runs out of its slice, which is the `BUG()` of `do_fork`.
- `PreemptionKept`: `Spec => PreemptKept`, the action property of the run `sched`.

All three rest on the inductive invariant `SchedInv(s)`, stated of a state
`s = [task, rq]` and not of the variables, since a function such as `set_user_nice` passes
through states that no task ever sees: a task taken off its queue still counts as running.
Its core is `Consistent(s, P)`: the queues, the bitmaps and `nr_active` are those of the
tasks in P. `dequeue_task` leads from `Consistent(s, P)` to `Consistent(s, P \ {p})` and
`enqueue_task` back, so the lemma of each C function says between which sets it leads, and
an action's lemma composes them. `Counted` (`nr_running`, `nr_uninterruptible`) and
`Placed` (a task is queued iff it is runnable or current) complete it; `Placed` is what makes
`schedule` never pick a sleeper. `Pending` is followed in the same
lemmas (`Steps`), for every step but `Reprioritise`.

### What is only model-checked

- Liveness: `WaitAnswered`, `ExpiredReturns` and `AllocLetsOthersRun`. Fairness and
  ENABLED are out of the prover's reach.
- The four violations are counterexamples of an instance.

Every other property of a passing run is stated by a theorem.

## 5. Not modelled

- In `PolicySleep`, threads: a process is one task, so its parent is in no other call when
  it reaps. A second thread of the parent could reap p while the first sleeps in a call
  about p, and the family discipline would have to be one of thread groups.
- In `WaitGroup`, a table of signal actions shared (`CLONE_SIGHAND`) by tasks that are not
  threads of one group: the action of SIGCHLD is kept per group.
- `PolicySpec` lets any call fail with any error code and change nothing, so `Refines` says
  what a record may be and what becomes of it, but excludes neither a hook that refuses
  without a record nor a wrong error code.
- In the modelled parts: ptrace, stopped tasks, waits for a process group, blocked
  signals and signals other than SIGCHLD; of exec only what it does to an exit signal; `CLONE_PARENT` in `ForkPid` (`WaitGroup` has
  it); SMP: the build has no `CONFIG_SMP`, so `load_balance` and migration are not
  compiled; the reuse of a pid while a policy call about its old owner sleeps (such a
  call is already `wild` in `PolicySleep`); the store through the unassigned array of
  a size-0 log, whose target is no state of the model; the 32-bit wrap of
  `size * sizeof` and of `jiffies`.
- The system call table, the draft that is not built and the test programs have no
  state. The wrappers' `errno` is folded into the return value.
- The rest of the tree: drivers, file systems, networking, other architectures and
  most of memory management are the stock kernel. They are more than 99% of the
  lines of the repository, this project's work does not touch them, and the policy
  meets them only through the calls above. Modelling them would say nothing about
  this system.

## 6. Plan

1. Proofs: which events end a preemption that `set_user_nice` lost; the family
   discipline for processes of several threads.
2. `Wrappers`: what user space sees per call (`errno` and the return value as two
   variables) against the values the tests ask for (`test04.c:39`).
3. Stopped tasks and `ptrace` in `WaitGroup`: `do_notify_parent` for `CLD_STOPPED` and
   the second parent link.
