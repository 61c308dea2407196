------------------------------ MODULE WaitGroup ------------------------------
(***************************************************************************)
(* Thread groups: sys_wait4 and the exit of a thread (kernel/exit.c),      *)
(* do_notify_parent (kernel/signal.c) and what do_signal does with a       *)
(* SIGCHLD (arch/i386/kernel/signal.c).                                    *)
(*                                                                         *)
(* Every thread of a group may wait for the children of all of them.       *)
(* sys_wait4 drops tasklist_lock before it copies the exit code out, which *)
(* may sleep, and releases the child afterwards; do_exit sleeps between    *)
(* PF_EXITING and exit_notify; a task that ignores SIGCHLD has the kernel  *)
(* call sys_wait4 for it, hook of the policy included.                     *)
(*                                                                         *)
(* Left out: ptrace, stopped tasks, exec but for what it does to an        *)
(* exit_signal, waiting for a certain pid or group (PolicySys has the      *)
(* pid), blocking SIGCHLD, other signals, and tasks that share the table   *)
(* of actions (CLONE_SIGHAND) without being threads of one group: here the *)
(* action of SIGCHLD belongs to the group, as do_fork makes it for threads *)
(* created with both flags.                                                *)
(***************************************************************************)
EXTENDS Naturals, FiniteSets

CONSTANTS Tasks,      \* task_structs
          InitTask,   \* the child reaper, which never exits
          Forks,      \* kinds of do_fork: [thread, sibling, clone : BOOLEAN]
          WaitArgs,   \* per task, the options of sys_wait4 it may use
          MayRefuse,  \* tasks that are put at level 0 now and then
          NULL, STALE

Wants == {"normal", "clone", "all"}  \* no flag, __WCLONE, __WALL

Args == [want : Wants, nothread : BOOLEAN, nohang : BOOLEAN]

ASSUME TasksAssumption == /\ IsFiniteSet(Tasks) /\ InitTask \in Tasks
                          /\ NULL \notin Tasks /\ STALE \notin Tasks /\ NULL # STALE
                          /\ MayRefuse \subseteq Tasks
ASSUME ArgsAssumption ==
    /\ Forks \subseteq [thread : BOOLEAN, sibling : BOOLEAN, clone : BOOLEAN]
    /\ WaitArgs \in [Tasks -> SUBSET Args] /\ NULL \notin Args

VARIABLES task,
          action,  \* of SIGCHLD, per thread group
          keeps,   \* the discipline of the callers: "any" or "one"
          given    \* history: groups with a thread that was given to init

vars == <<task, action, keeps, given>>

(***************************************************************************)
(* "running": not in a call that matters here.  "calling": about to        *)
(* execute wait4 again.  "waiting": in schedule() of sys_wait4.  "woken":  *)
(* on the way out of it.  "copying": asleep in put_user of sys_wait4.      *)
(* "interrupted": left sys_wait4 with -ERESTARTSYS.  "exiting":            *)
(* PF_EXITING, not yet in exit_notify.                                     *)
(***************************************************************************)
States == {"free", "running", "calling", "waiting", "woken", "copying",
           "interrupted", "exiting", "zombie"}

Task == [state : States, parent : Tasks \cup {NULL}, tgid : Tasks \cup {NULL},
         clone : BOOLEAN,                  \* exit_signal is not SIGCHLD
         arg : Args \cup {NULL},           \* of the wait4 it is in
         found : Tasks \cup {NULL, STALE}, \* the zombie sys_wait4 will release
         chld : BOOLEAN,                   \* SIGCHLD is pending
         refused : BOOLEAN,                \* policy_on with level 0
         missed : BOOLEAN]                 \* history: its SIGCHLD was spent

FreeTask == [state |-> "free", parent |-> NULL, tgid |-> NULL, clone |-> FALSE,
             arg |-> NULL, found |-> NULL, chld |-> FALSE, refused |-> FALSE,
             missed |-> FALSE]

\* init, which has a handler for SIGCHLD
Init ==
    /\ task = [t \in Tasks |-> IF t = InitTask
                               THEN [FreeTask EXCEPT !.state = "running", !.tgid = t]
                               ELSE FreeTask]
    /\ action = [t \in Tasks |-> IF t = InitTask THEN "handler" ELSE "default"]
    /\ keeps \in {"any", "one"}
    /\ given = {}

-----------------------------------------------------------------------------
Linked == {t \in Tasks : task[t].state # "free"}
Group(t) == {u \in Linked : task[u].tgid = task[t].tgid}
Leaving == {t \in Tasks : task[t].state \in {"exiting", "zombie"}}
InWait == {t \in Tasks : task[t].state \in {"calling", "waiting", "woken",
                                            "copying", "interrupted"}}

\* In user mode, where do_signal has left no signal pending.
Runs(t) == task[t].state = "running" /\ ~task[t].chld

Children(t, nothread) ==
    {p \in Linked : task[p].parent \in IF nothread THEN {t} ELSE Group(t)}

\* The children one scan of sys_wait4 sets flag for, and the dead among them.
Sight(t, a) == {p \in Children(t, a.nothread) :
                   a.want = "all" \/ (task[p].clone <=> a.want = "clone")}

Dead(t, a) == {p \in Sight(t, a) : task[p].state = "zombie"}

Zombies(S) == {p \in S : task[p].state = "zombie"}

-----------------------------------------------------------------------------
(***************************************************************************)
(* sys_wait4.                                                              *)
(***************************************************************************)
\* The caller after end_wait4.
Outside_NoReset(t) == [task[t] EXCEPT !.arg = NULL, !.found = NULL]

Outside(t) == [task[t] EXCEPT !.state = "running", !.arg = NULL, !.found = NULL]

\* release_task; a task that sleeps with one of zs in hand is left with a
\* pointer to freed memory.
release_task(zs) ==
    [u \in Tasks |-> IF u \in zs THEN FreeTask
                     ELSE IF task[u].found \in zs THEN [task[u] EXCEPT !.found = STALE]
                     ELSE task[u]]

\* No page of the caller is touched that is not there.
ScanReaps(t, a) ==
    \E z \in Dead(t, a) : task' = [release_task({z}) EXCEPT ![t] = Outside(t)]

ScanSleepsInCopy(t, a) ==
    \E z \in Dead(t, a) :
       task' = [task EXCEPT ![t].state = "copying", ![t].arg = a, ![t].found = z]

NoneAlive_Never(t, a) == FALSE

\* flag is still 0.
NoneAlive(t, a) == Sight(t, a) = {}

\* -ECHILD, or 0 with WNOHANG
ScanGivesUp(t, a) ==
    /\ Dead(t, a) = {}
    /\ NoneAlive(t, a) \/ a.nohang
    /\ task' = [task EXCEPT ![t] = Outside(t)]

ScanSleeps(t, a) ==
    /\ Dead(t, a) = {} /\ ~NoneAlive(t, a) /\ ~a.nohang
    /\ task' = [task EXCEPT ![t].arg = a,
                            ![t].state = IF task[t].chld THEN "interrupted"
                                         ELSE "waiting"]

Scan(t, a) == /\ \/ ScanReaps(t, a)
                 \/ ScanSleepsInCopy(t, a)
                 \/ ScanGivesUp(t, a)
                 \/ ScanSleeps(t, a)
              /\ UNCHANGED <<action, keeps, given>>

\* The discipline: one thread of a group waits at a time, and none does while
\* SIGCHLD is ignored.
MayWait(t) == keeps = "one" => /\ action[task[t].tgid] # "ignore"
                               /\ Group(t) \cap InWait \subseteq {t}

WaitCalls(t, a) == Runs(t) /\ MayWait(t) /\ ~task[t].refused /\ Scan(t, a)

\* do_signal has set the registers back; the hook is passed once more.
WaitRestarts(t) ==
    task[t].state = "calling" /\ ~task[t].refused /\ Scan(t, task[t].arg)

WaitRefused(t) ==
    /\ task[t].state = "calling" /\ task[t].refused
    /\ task' = [task EXCEPT ![t] = Outside(t)]
    /\ UNCHANGED <<action, keeps, given>>

\* From the label repeat.
WaitRepeats(t) == task[t].state = "woken" /\ Scan(t, task[t].arg)

\* put_user is done.  With a stale pointer the rest is undefined and left out.
WaitCopied(t) ==
    /\ task[t].state = "copying" /\ task[t].found # STALE
    /\ task' = [release_task({task[t].found}) EXCEPT ![t] = Outside(t)]
    /\ UNCHANGED <<action, keeps, given>>

\* -EFAULT: the zombie stays.
WaitFaults(t) ==
    /\ task[t].state = "copying"
    /\ task' = [task EXCEPT ![t] = Outside(t)]
    /\ UNCHANGED <<action, keeps, given>>

-----------------------------------------------------------------------------
(***************************************************************************)
(* do_fork and do_exit.                                                    *)
(***************************************************************************)
\* get_pid gives no pid that is the tgid of a task.  (Bound: init forks when it
\* is alone; what it forks is not a matter of these properties.)
Fork(c, p, f) ==
    /\ Runs(c) /\ ~task[c].refused
    /\ task[p].state = "free" /\ \A q \in Linked : task[q].tgid # p
    /\ c = InitTask => ~f.thread /\ ~f.sibling /\ Linked = {InitTask}
    /\ task' = [task EXCEPT
                  ![p] = [FreeTask EXCEPT
                            !.state = "running",
                            !.parent = IF f.sibling THEN task[c].parent ELSE c,
                            !.tgid = IF f.thread THEN task[c].tgid ELSE p,
                            !.clone = f.clone]]
    /\ action' = IF f.thread THEN action
                 ELSE [action EXCEPT ![p] = action[task[c].tgid]]
    /\ UNCHANGED <<keeps, given>>

\* PF_EXITING, then exit_files and others, which sleep.  exit_sighand: the
\* last thread to leave frees the actions of the group.
ExitBegins(c) ==
    /\ Runs(c) /\ c # InitTask
    /\ task' = [task EXCEPT ![c].state = "exiting", ![c].chld = FALSE,
                            ![c].refused = FALSE]
    /\ IF Group(c) \subseteq Leaving \cup {c}
       THEN /\ action' = [action EXCEPT ![task[c].tgid] = "default"]
            /\ given' = given \ {task[c].tgid}
       ELSE UNCHANGED <<action, given>>
    /\ UNCHANGED keeps

\* forget_original_parent: a thread of the group that is not exiting, or init.
Reapers_Exiting(c) == LET threads == Group(c) \ {c}
                      IN  IF threads = {} THEN {InitTask} ELSE threads

Reapers(c) == LET threads == Group(c) \ Leaving
              IN  IF threads = {} THEN {InitTask} ELSE threads

\* send_sig_info of a SIGCHLD to t: lost on a task that has left its handlers
\* behind, and on one whose action is the default.
Gets_NotIgnored(t) == t \notin Leaving /\ action[task[t].tgid] = "handler"

Gets(t) == t \notin Leaving /\ action[task[t].tgid] # "default"

\* wake_up_parent: every thread of the group of t.
WokenBy_One(t) == {t}

WokenBy(t) == Group(t)

\* Nobody becomes its own parent.
NewParent_DeadToInit(p, reaper) ==
    IF p = reaper \/ task[p].state = "zombie" THEN InitTask ELSE reaper

NewParent(p, reaper) == IF p = reaper THEN InitTask ELSE reaper

(***************************************************************************)
(* exit_notify: the parent is told of c; the children of c get a new       *)
(* parent and SIGCHLD as their exit_signal, and it is told of dead ones.   *)
(* exit_signal: what c dies with, SIGCHLD instead of its own when it or    *)
(* its parent was reparented or went through exec since the fork; this may *)
(* have happened to any task.                                              *)
(***************************************************************************)
Exit(c, reaper, exit_signal) ==
    LET kids  == {p \in Linked : task[p].parent = c}
        dead  == Zombies(kids)
        heirs == {NewParent(p, reaper) : p \in dead}
        sent  == heirs \cup IF exit_signal = "SIGCHLD" THEN {task[c].parent} ELSE {}
        woken == {u \in UNION {WokenBy(t) : t \in heirs \cup {task[c].parent}} :
                     task[u].state = "waiting"}
    IN
    /\ task[c].state = "exiting"
    /\ reaper \in Reapers(c)
    /\ exit_signal = "SIGCHLD" \/ task[c].clone
    /\ task' = [u \in Tasks |->
          [task[u] EXCEPT
             !.state  = IF u = c THEN "zombie" ELSE IF u \in woken THEN "woken" ELSE @,
             !.parent = IF u \in kids THEN NewParent(u, reaper) ELSE @,
             !.clone  = IF u \in kids THEN FALSE
                        ELSE IF u = c THEN exit_signal # "SIGCHLD" ELSE @,
             !.chld   = @ \/ (u \in sent /\ Gets(u)),
             !.missed = IF u \in dead THEN FALSE ELSE @]]
    /\ given' = IF reaper \in kids THEN given \cup {task[c].tgid} ELSE given
    /\ UNCHANGED <<action, keeps>>

-----------------------------------------------------------------------------
(***************************************************************************)
(* Signals and the policy.                                                 *)
(***************************************************************************)
\* A pending SIGCHLD, which came while the new action was copied in, goes when
\* that is "ignore" or "default".
\* (missed: a child that is dead by then is not announced again.)
do_sigaction(t, new) ==
    /\ task[t].state = "running" /\ t # InitTask
    /\ keeps = "one" /\ new = "ignore" => Group(t) \cap InWait = {}
    /\ action' = [action EXCEPT ![task[t].tgid] = new]
    /\ task' = [u \in Tasks |->
          [task[u] EXCEPT
             !.chld   = @ /\ (u = t => new = "handler"),
             !.missed = @ \/ (new = "ignore" /\ u \in Zombies(Children(t, FALSE)))]]
    /\ UNCHANGED <<keeps, given>>

\* do_signal with a SIGCHLD: after a handler an interrupted wait4 may end with
\* -EINTR, otherwise it is executed again.
Resumes(t, restart) ==
    [task[t] EXCEPT !.chld = FALSE,
                    !.state = IF @ = "interrupted" /\ restart THEN "calling" ELSE "running",
                    !.arg = IF restart THEN @ ELSE NULL]

SignalHandled(t, restart) ==
    /\ task[t].state \in {"running", "interrupted"} /\ task[t].chld
    /\ action[task[t].tgid] # "ignore"
    /\ action[task[t].tgid] = "default" => restart
    /\ task' = [task EXCEPT ![t] = Resumes(t, restart)]
    /\ UNCHANGED <<action, keeps, given>>

\* sys_wait4(-1, NULL, WNOHANG, NULL), until it finds no more.
KernelWait == [want |-> "normal", nothread |-> FALSE, nohang |-> TRUE]

SignalReaps(t) ==
    /\ task[t].state \in {"running", "interrupted"} /\ task[t].chld
    /\ action[task[t].tgid] = "ignore" /\ ~task[t].refused
    /\ task' = [release_task(Dead(t, KernelWait)) EXCEPT ![t] = Resumes(t, TRUE)]
    /\ UNCHANGED <<action, keeps, given>>

\* The hook refuses the kernel's own call.
SignalRefused(t) ==
    /\ task[t].state \in {"running", "interrupted"} /\ task[t].chld
    /\ action[task[t].tgid] = "ignore" /\ task[t].refused
    /\ task' = [u \in Tasks |->
          IF u = t THEN Resumes(t, TRUE)
          ELSE [task[u] EXCEPT !.missed = @ \/ u \in Zombies(Children(t, FALSE))]]
    /\ UNCHANGED <<action, keeps, given>>

\* The policy calls of PolicySys, by anyone, about t.
PolicyChanges(t) ==
    /\ t \in MayRefuse /\ t \in Linked \ Leaving
    /\ task' = [task EXCEPT ![t].refused = ~@]
    /\ UNCHANGED <<action, keeps, given>>

Next == \E t \in Tasks :
    \/ \E a \in WaitArgs[t] : WaitCalls(t, a)
    \/ WaitRestarts(t)
    \/ WaitRefused(t)
    \/ WaitRepeats(t)
    \/ WaitCopied(t)
    \/ WaitFaults(t)
    \/ \E p \in Tasks, f \in Forks : Fork(t, p, f)
    \/ ExitBegins(t)
    \/ \E reaper \in Tasks, sig \in {"SIGCHLD", "other"} : Exit(t, reaper, sig)
    \/ \E new \in {"default", "ignore", "handler"} : do_sigaction(t, new)
    \/ \E restart \in BOOLEAN : SignalHandled(t, restart)
    \/ SignalReaps(t)
    \/ SignalRefused(t)
    \/ PolicyChanges(t)

Spec == Init /\ [][Next]_vars

-----------------------------------------------------------------------------
TypeOK ==
    /\ task \in [Tasks -> Task]
    /\ action \in [Tasks -> {"default", "ignore", "handler"}]
    /\ keeps \in {"any", "one"}
    /\ given \subseteq Tasks
    /\ \A t \in Tasks : /\ task[t].arg # NULL <=> t \in InWait
                        /\ task[t].found # NULL <=> task[t].state = "copying"

(***************************************************************************)
(* sys_wait4 releases the zombie it found before it slept: it must still   *)
(* be there, whoever else waits, exits or inherits in between.  Callers    *)
(* that keep to the discipline can rely on it.                             *)
(***************************************************************************)
HeldIsThere == keeps = "one" => \A t \in Tasks : task[t].found # STALE

(***************************************************************************)
(* Nobody sleeps in sys_wait4 while a child it would report is dead, or    *)
(* with a SIGCHLD to look at: whichever thread is the parent, and although *)
(* children change parents and exit_signal on the way.                     *)
(***************************************************************************)
NoSleepOverDead ==
    \A t \in Tasks : task[t].state = "waiting" =>
       Dead(t, task[t].arg) = {} /\ ~task[t].chld

(***************************************************************************)
(* Nobody sleeps in sys_wait4 with no child left to wake it.  The one      *)
(* exception is forget_original_parent's: a child that would become its    *)
(* own parent goes to init, and a thread that waited for it is not told.   *)
(***************************************************************************)
SleepsForSomeone ==
    \A t \in Tasks : task[t].state = "waiting" /\ task[t].tgid \notin given =>
       Children(t, task[t].arg.nothread) # {}

(***************************************************************************)
(* "SIG_IGN means that the signal isn't actually ignored, but does         *)
(* automatic child reaping" (kernel/signal.c): a dead child of a task with *)
(* this action has a SIGCHLD on the way, unless the one for it was spent   *)
(* before: on another action, or on a call of sys_wait4 the hook refused.  *)
(***************************************************************************)
IgnoredIsPending ==
    \A z \in Zombies(Linked) :
       LET f == task[z].parent IN
       /\ ~task[z].clone /\ ~task[z].missed
       /\ f \notin Leaving /\ action[task[f].tgid] = "ignore"
       => task[f].chld

(***************************************************************************)
(* The parent of a task is never a zombie or gone, so each zombie has      *)
(* someone who can reap it; a thread that has begun to exit is still the   *)
(* parent of its children, and gets no new ones from others.               *)
(***************************************************************************)
ParentLives ==
    \A p \in Linked \ {InitTask} :
       task[p].parent \in Linked \ Zombies(Linked)
=============================================================================
