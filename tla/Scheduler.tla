------------------------------ MODULE Scheduler ------------------------------
(***************************************************************************)
(* The scheduler of plugin tasks: BungeeScheduler, BungeeTask, the lazily  *)
(* created thread pool of a plugin, and what the shutdown of the proxy     *)
(* does to both.                                                           *)
(*                                                                         *)
(* A task is touched by three kinds of threads at once: the one that       *)
(* schedules it, the pool thread that runs it, and whoever cancels it.     *)
(* The two maps of the scheduler change only together, under one lock, and *)
(* are one set here; the flag `running' of a task and the field `service'  *)
(* of a plugin are read and written without it, so each access is a step   *)
(* of its own.  Delays and periods are sleeps of unspecified length; an    *)
(* interrupted sleep is a short one.                                       *)
(***************************************************************************)
EXTENDS Naturals, FiniteSets

CONSTANTS
    Tasks,      \* one call of schedule() each
    Plugins,
    Owner,      \* the plugin a task belongs to
    Periodic,   \* the tasks with a period greater than 0
    Threads,    \* threads that cancel tasks: plugins, commands, unloadPlugin
    None

\* Whoever calls getExecutorService: the thread that schedules a task, named
\* after the task, and the shutdown thread, named after the plugin.
Callers == Tasks \cup Plugins

\* Whoever cancels tasks: a thread, or the shutdown thread at a plugin.
Cancellers == Threads \cup Plugins

ASSUME TasksAssumption ==
    /\ Owner \in [Tasks -> Plugins]
    /\ Periodic \subseteq Tasks
    /\ Tasks \cap Plugins = {}
    /\ Threads \cap Plugins = {}
    /\ None \notin Callers

PluginOf == [c \in Callers |-> IF c \in Tasks THEN Owner[c] ELSE c]

VARIABLES
    registered, \* the tasks in `tasks' and `tasksByPlugin'
    running,    \* BungeeTask.running
    at,         \* where a caller is
    worker,     \* where the pool thread of a task is
    service,    \* Plugin.service: a pool, named after the caller that made it
    got,        \* the pool a caller was handed
    closed,     \* the pools shut down
    todo,       \* what a call of cancel(Plugin) still has to cancel
    removing,   \* the task a canceller is about to take out of the maps
    made,       \* history: the pools created
    late,       \* history: runs of a task begun after it was cancelled
    lateStarts  \* history: the tasks a pool accepted after the shutdown of
                \* their plugin

taskVars == <<registered, running, worker, late>>
poolVars == <<service, got, closed, made, lateStarts>>
cancelVars == <<todo, removing>>
vars == <<taskVars, at, poolVars, cancelVars>>

Init ==
    /\ registered = {}
    /\ running = [t \in Tasks |-> TRUE]
    /\ at = [c \in Callers |-> IF c \in Tasks THEN "new" ELSE "up"]
    /\ worker = [t \in Tasks |-> "none"]
    /\ service = [p \in Plugins |-> None]
    /\ got = [c \in Callers |-> None]
    /\ closed = {}
    /\ todo = [c \in Cancellers |-> {}]
    /\ removing = [c \in Cancellers |-> None]
    /\ made = {}
    /\ late = [t \in Tasks |-> 0]
    /\ lateStarts = {}

-----------------------------------------------------------------------------
(* Scheduling a task *)

\* schedule(), first half: the task enters the maps.
Put(t) ==
    /\ at[t] = "new"
    /\ registered' = registered \cup {t}
    /\ at' = [at EXCEPT ![t] = "lookup"]
    /\ UNCHANGED <<running, worker, late, poolVars, cancelVars>>

\* getExecutorService: the field is read, perhaps a pool is made and written,
\* and the field is read again for the answer, all without a lock.
Lookup(c) ==
    /\ at[c] = "lookup"
    /\ at' = [at EXCEPT ![c] =
                IF service[PluginOf[c]] = None THEN "create" ELSE "fetch"]
    /\ UNCHANGED <<taskVars, poolVars, cancelVars>>

Create(c) ==
    /\ at[c] = "create"
    /\ service' = [service EXCEPT ![PluginOf[c]] = c]
    /\ made' = made \cup {c}
    /\ at' = [at EXCEPT ![c] = "fetch"]
    /\ UNCHANGED <<taskVars, got, closed, lateStarts, cancelVars>>

Fetch(c) ==
    /\ at[c] = "fetch"
    /\ got' = [got EXCEPT ![c] = service[PluginOf[c]]]
    /\ at' = [at EXCEPT ![c] = "use"]
    /\ UNCHANGED <<taskVars, service, closed, made, lateStarts, cancelVars>>

\* schedule(), second half: a cached pool has no queue, so an open one gives
\* the task a thread at once.
Execute(t) ==
    /\ at[t] = "use"
    /\ got[t] \notin closed
    /\ at' = [at EXCEPT ![t] = "returned"]
    /\ worker' = [worker EXCEPT ![t] = "delay"]
    /\ lateStarts' = IF at[Owner[t]] = "down"
                     THEN lateStarts \cup {t} ELSE lateStarts
    /\ UNCHANGED <<registered, running, late, service, got, closed, made,
                   cancelVars>>

\* A closed one throws RejectedExecutionException through schedule().
Reject(t) ==
    /\ at[t] = "use"
    /\ got[t] \in closed
    /\ at' = [at EXCEPT ![t] = "rejected"]
    /\ UNCHANGED <<taskVars, poolVars, cancelVars>>

-----------------------------------------------------------------------------
(* The pool thread: BungeeTask.run *)

WorkerGoes(t, from, to) ==
    /\ worker[t] = from
    /\ worker' = [worker EXCEPT ![t] = to]
    /\ UNCHANGED <<at, poolVars, cancelVars>>

\* The delay, and later the period, is over.
Wake(t) ==
    /\ \/ WorkerGoes(t, "delay", "check")
       \/ WorkerGoes(t, "period", "check")
    /\ UNCHANGED <<registered, running, late>>

\* Mutant of Check: the loop does not look at the flag.
CheckBlindly(t) ==
    /\ WorkerGoes(t, "check", "begin")
    /\ UNCHANGED <<registered, running, late>>

\* while ( running.get() )
Check(t) ==
    /\ WorkerGoes(t, "check", IF running[t] THEN "begin" ELSE "cancel")
    /\ UNCHANGED <<registered, running, late>>

\* task.run() is entered, an instruction after the flag was read.
Begin(t) ==
    /\ WorkerGoes(t, "begin", "body")
    /\ late' = [late EXCEPT ![t] = IF running[t] THEN @ ELSE @ + 1]
    /\ UNCHANGED <<registered, running>>

\* Mutant of Finish: a task that runs once does not cancel itself afterwards.
FinishWithoutCancel(t) ==
    /\ WorkerGoes(t, "body", IF t \in Periodic THEN "period" ELSE "ended")
    /\ UNCHANGED <<registered, running, late>>

\* task.run() returned or threw.
Finish(t) ==
    /\ WorkerGoes(t, "body", IF t \in Periodic THEN "period" ELSE "cancel")
    /\ UNCHANGED <<registered, running, late>>

\* cancel() by the task itself, after its loop: getAndSet, then cancel0.
CancelSelf(t) ==
    /\ WorkerGoes(t, "cancel", IF running[t] THEN "remove" ELSE "ended")
    /\ running' = [running EXCEPT ![t] = FALSE]
    /\ UNCHANGED <<registered, late>>

RemoveSelf(t) ==
    /\ WorkerGoes(t, "remove", "ended")
    /\ registered' = registered \ {t}
    /\ UNCHANGED <<running, late>>

-----------------------------------------------------------------------------
(* Cancelling *)

\* Mutant of Flip: the answer of getAndSet is taken the wrong way round.
FlipInverted(c, t) ==
    /\ removing[c] = None
    /\ running' = [running EXCEPT ![t] = FALSE]
    /\ removing' = [removing EXCEPT ![c] = IF running[t] THEN None ELSE t]
    /\ UNCHANGED <<registered, worker, late, at, poolVars>>

\* The getAndSet of BungeeTask.cancel, in a canceller's hands.
Flip(c, t) ==
    /\ removing[c] = None
    /\ running' = [running EXCEPT ![t] = FALSE]
    /\ removing' = [removing EXCEPT ![c] = IF running[t] THEN t ELSE None]
    /\ UNCHANGED <<registered, worker, late, at, poolVars>>

\* cancel(int), of a task found in the maps, and cancel(ScheduledTask), of one
\* whose schedule() returned.
Cancel(c, t) ==
    /\ t \in registered \/ at[t] = "returned"
    /\ todo[c] = {}
    /\ Flip(c, t)
    /\ UNCHANGED todo

\* cancel(Plugin), first half: a snapshot under the lock ...
Snapshot(c, p) ==
    /\ todo[c] = {}
    /\ removing[c] = None
    /\ todo' = [todo EXCEPT ![c] = {t \in registered : Owner[t] = p}]
    /\ UNCHANGED <<taskVars, poolVars, removing>>

\* ... and second half: each task of it, in any order, outside the lock.
CancelNext(c) ==
    \E t \in todo[c] :
        /\ Flip(c, t)
        /\ todo' = [todo EXCEPT ![c] = @ \ {t}]

\* Mutant of Remove: the entry stays in the maps.
RemoveNothing(c) ==
    /\ removing[c] # None
    /\ removing' = [removing EXCEPT ![c] = None]
    /\ UNCHANGED <<taskVars, at, poolVars, todo>>

\* cancel0
Remove(c) ==
    /\ removing[c] # None
    /\ registered' = registered \ {removing[c]}
    /\ removing' = [removing EXCEPT ![c] = None]
    /\ UNCHANGED <<running, worker, late, at, poolVars, todo>>

-----------------------------------------------------------------------------
(* The shutdown of the proxy: one thread takes the plugins one by one *)

StopPlugin(p) ==
    /\ at[p] = "up"
    /\ \A q \in Plugins : at[q] \in {"up", "down"}
    /\ Snapshot(p, p)
    /\ at' = [at EXCEPT ![p] = "cancelling"]

\* Mutant of StopPool: the field is used as it is, although no task may have
\* created the pool yet.
StopPoolUnasked(p) ==
    /\ at[p] = "cancelling"
    /\ todo[p] = {}
    /\ removing[p] = None
    /\ got' = [got EXCEPT ![p] = service[p]]
    /\ at' = [at EXCEPT ![p] = "use"]
    /\ UNCHANGED <<taskVars, service, closed, made, lateStarts, cancelVars>>

\* All of them are cancelled; the pool comes next, and is made if there is none.
StopPool(p) ==
    /\ at[p] = "cancelling"
    /\ todo[p] = {}
    /\ removing[p] = None
    /\ at' = [at EXCEPT ![p] = "lookup"]
    /\ UNCHANGED <<taskVars, poolVars, cancelVars>>

\* Mutant of ShutdownNow: the tasks are cancelled and the pool is left open.
ShutdownLeavesPool(p) ==
    /\ at[p] = "use"
    /\ at' = [at EXCEPT ![p] = "down"]
    /\ UNCHANGED <<taskVars, poolVars, cancelVars>>

ShutdownNow(p) ==
    /\ at[p] = "use"
    /\ closed' = closed \cup {got[p]}
    /\ at' = [at EXCEPT ![p] = "down"]
    /\ UNCHANGED <<taskVars, service, got, made, lateStarts, cancelVars>>

-----------------------------------------------------------------------------

Scheduling(t) == Put(t) \/ Execute(t) \/ Reject(t)

FetchPool(c) == Lookup(c) \/ Create(c) \/ Fetch(c)

Work(t) ==
    \/ Wake(t) \/ Check(t) \/ Begin(t) \/ Finish(t)
    \/ CancelSelf(t) \/ RemoveSelf(t)

Cancelling(c) == CancelNext(c) \/ Remove(c)

CancelPlugin(c, p) == Snapshot(c, p) /\ UNCHANGED at

Stopping(p) == StopPlugin(p) \/ StopPool(p) \/ ShutdownNow(p)

Next ==
    \/ \E t \in Tasks : Scheduling(t) \/ Work(t)
    \/ \E c \in Callers : FetchPool(c)
    \/ \E c \in Cancellers : Cancelling(c)
    \/ \E c \in Threads, t \in Tasks : Cancel(c, t)
    \/ \E c \in Threads, p \in Plugins : CancelPlugin(c, p)
    \/ \E p \in Plugins : Stopping(p)

\* Threads are scheduled fairly, and the body of a task returns; nobody has to
\* schedule a task, to cancel one or to stop the proxy.
Fairness ==
    /\ \A t \in Tasks : WF_vars(Execute(t) \/ Reject(t)) /\ WF_vars(Work(t))
    /\ \A c \in Callers : WF_vars(FetchPool(c))
    /\ \A c \in Cancellers : WF_vars(Cancelling(c))

Spec == Init /\ [][Next]_vars

FairSpec == Spec /\ Fairness

-----------------------------------------------------------------------------
(* Properties *)

CallerStates == {"new", "lookup", "create", "fetch", "use", "returned",
                 "rejected", "up", "cancelling", "down"}

WorkerStates == {"none", "delay", "check", "begin", "body", "period",
                 "cancel", "remove", "ended"}

\* The type invariant.
TypeOK ==
    /\ registered \subseteq Tasks
    /\ running \in [Tasks -> BOOLEAN]
    /\ at \in [Callers -> CallerStates]
    /\ worker \in [Tasks -> WorkerStates]
    /\ service \in [Plugins -> Callers \cup {None}]
    /\ got \in [Callers -> Callers \cup {None}]
    /\ closed \subseteq Callers
    /\ todo \in [Cancellers -> SUBSET Tasks]
    /\ removing \in [Cancellers -> Tasks \cup {None}]
    /\ made \subseteq Callers
    /\ late \in [Tasks -> Nat]
    /\ lateStarts \subseteq Tasks

\* Somebody is about to take the task out of the maps.
BeingRemoved(t) ==
    \/ worker[t] = "remove"
    \/ \E c \in Cancellers : removing[c] = t

\* A scheduled task is in the maps exactly while it is not cancelled or while
\* the one thread that cancelled it has yet to remove it: neither a cancel
\* racing with the end of a task nor two cancels leave an entry behind, or
\* remove one too early.
EntriesMatchFlags ==
    \A t \in Tasks : at[t] # "new" =>
        (t \in registered <=> running[t] \/ BeingRemoved(t))

\* An entry that nobody is about to remove belongs to a task that will run or
\* is running, or to one whose pool refused it: only a rejected task stays in
\* the maps with no thread to take it out.
EntriesAreAlive ==
    \A t \in registered :
        \/ BeingRemoved(t)
        \/ worker[t] \notin {"none", "ended"}
        \/ at[t] # "returned"

\* A cancelled task runs at most once more, when the cancel fell between the
\* worker's look at the flag and its call of the task.
OneLateRun == \A t \in Tasks : late[t] <= 1

\* No pool accepts a task of a plugin whose pool the shutdown has closed,
\* unless two threads had each created a pool for that plugin: the
\* unsynchronised getExecutorService is the only way round the shutdown.
LateStartNeedsTwoPools ==
    \A t \in lateStarts :
        \E c, d \in made : c # d /\ PluginOf[c] = Owner[t]
                                 /\ PluginOf[d] = Owner[t]

\* A cancelled task comes to an end, in the maps and in its pool, whoever
\* cancelled it and whenever.
CancelledTasksEnd ==
    \A t \in Tasks :
        ~running[t] ~> /\ t \notin registered
                       /\ at[t] \in {"returned", "rejected"}
                       /\ worker[t] \in {"none", "ended"}
=============================================================================
