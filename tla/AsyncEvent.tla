----------------------------- MODULE AsyncEvent -----------------------------
(***************************************************************************)
(* api/event/AsyncEvent.java: the event the login waits on (PreLoginEvent, *)
(* LoginEvent, ProxyPingEvent).  Handlers run one after the other on the   *)
(* posting thread; a handler may register an intent and hand the work to a *)
(* background task, which completes the intent on a thread of its own.     *)
(* EventBus.post then runs postCall, and the callback (done) continues the *)
(* login.  The atomics and the map of the class are read and written one   *)
(* at a time, so every access is a step of its own here: intents.get and   *)
(* the put or increment that follows it are two.  The AtomicInteger that a *)
(* registration puts into the map is named by the task it was put for.     *)
(*                                                                         *)
(* Discipline of the callers (the contract of registerIntent): an intent   *)
(* is registered by a handler, or by a task that still holds an intent;    *)
(* every task completes its intent exactly once.                           *)
(***************************************************************************)
EXTENDS Integers, FiniteSets

CONSTANTS
  Task,      \* background tasks; each completes the one intent made for it
  Plugin,    \* plugins, the keys of the map "intents"
  Owner,     \* the plugin each task works for
  NoTask

ASSUME TaskAssumption == IsFiniteSet(Task) /\ NoTask \notin Task
ASSUME OwnerAssumption == Owner \in [Task -> Plugin]

Poster == "poster"

VARIABLES
  fired,     \* AtomicBoolean fired
  latch,     \* AtomicInteger latch
  intents,   \* Map<Plugin, AtomicInteger> intents: the counter of each plugin
  count,     \* the value of the counter put for each task
  made,      \* the tasks whose registration put a counter (history)
  got,       \* intentCount, the counter fetched for each task's intent
  post,      \* program counter of the posting thread
  postNew,   \* the task the posting thread registers an intent for
  pc,        \* program counter of each task
  new,       \* the task each task registers an intent for
  done       \* number of times the callback ran

counters == <<intents, count, made, got>>
vars == <<fired, latch, counters, post, postNew, pc, new, done>>

PostStates == {"handlers", "registerGet", "registerCount", "registerLatch",
               "postCall", "callDone", "setFired", "returned"}
TaskStates == {"idle", "working", "registerGet", "registerCount", "registerLatch",
               "completeCheck", "refused", "completeIntent", "readFired",
               "decrementFired", "decrementUnfired", "callDone", "finished"}

Init ==
  /\ fired = FALSE
  /\ latch = 0
  /\ intents = [p \in Plugin |-> NoTask]
  /\ count = [t \in Task |-> 0]
  /\ made = {}
  /\ got = [t \in Task |-> NoTask]
  /\ post = "handlers"
  /\ postNew = NoTask
  /\ pc = [t \in Task |-> "idle"]
  /\ new = [t \in Task |-> NoTask]
  /\ done = 0

\* A task some thread is registering an intent for, but that has not started.
Claimed == {postNew} \cup {new[t] : t \in Task}

-----------------------------------------------------------------------------
\* registerIntent(plugin) for task n, in the threads that call it: the plugin's
\* counter is fetched, put or incremented, and then the latch counts the intent.

GetCounter(n) ==
  /\ got' = [got EXCEPT ![n] = intents[Owner[n]]]
  /\ UNCHANGED <<intents, count, made>>

PutCounter(n) ==                  \* it replaces whatever was put meanwhile
  /\ got[n] = NoTask
  /\ intents' = [intents EXCEPT ![Owner[n]] = n]
  /\ count' = [count EXCEPT ![n] = 1]
  /\ made' = made \cup {n}
  /\ UNCHANGED got

\* Mutant of IncrementCounter: a further intent of a plugin is not counted.
CounterNotIncremented(n) ==
  /\ got[n] # NoTask
  /\ UNCHANGED counters

IncrementCounter(n) ==
  /\ got[n] # NoTask
  /\ count' = [count EXCEPT ![got[n]] = @ + 1]
  /\ UNCHANGED <<intents, made, got>>

-----------------------------------------------------------------------------
\* The posting thread: handlers, then postCall.

HandlerRegister(t) ==             \* checkState(!fired), then a handler goes on
  /\ post = "handlers" /\ ~fired
  /\ pc[t] = "idle" /\ t \notin Claimed
  /\ post' = "registerGet" /\ postNew' = t
  /\ UNCHANGED <<fired, latch, counters, pc, new, done>>

HandlerGetCounter ==
  /\ post = "registerGet" /\ post' = "registerCount"
  /\ GetCounter(postNew)
  /\ UNCHANGED <<fired, latch, postNew, pc, new, done>>

HandlerCountIntent ==
  /\ post = "registerCount" /\ post' = "registerLatch"
  /\ PutCounter(postNew) \/ IncrementCounter(postNew)
  /\ UNCHANGED <<fired, latch, postNew, pc, new, done>>

HandlerCountLatch ==              \* the task is submitted afterwards
  /\ post = "registerLatch"
  /\ latch' = latch + 1
  /\ pc' = [pc EXCEPT ![postNew] = "working"]
  /\ post' = "handlers" /\ postNew' = NoTask
  /\ UNCHANGED <<fired, counters, new, done>>

HandlersReturn ==
  /\ post = "handlers"
  /\ post' = "postCall"
  /\ UNCHANGED <<fired, latch, counters, postNew, pc, new, done>>

\* Mutant of PostReadLatch: postCall continues whatever is outstanding.
PostIgnoresLatch ==
  /\ post = "postCall" /\ post' = "callDone"
  /\ UNCHANGED <<fired, latch, counters, postNew, pc, new, done>>

PostReadLatch ==
  /\ post = "postCall"
  /\ post' = IF latch = 0 THEN "callDone" ELSE "setFired"
  /\ UNCHANGED <<fired, latch, counters, postNew, pc, new, done>>

PostDone ==
  /\ post = "callDone"
  /\ done' = done + 1
  /\ post' = "setFired"
  /\ UNCHANGED <<fired, latch, counters, postNew, pc, new>>

PostSetFired ==
  /\ post = "setFired"
  /\ fired' = TRUE
  /\ post' = "returned"
  /\ UNCHANGED <<latch, counters, postNew, pc, new, done>>

-----------------------------------------------------------------------------
\* A background task: it may register intents for further tasks while the
\* event has not fired, and completes its own.

Goto(t, from, to) == pc[t] = from /\ pc' = [pc EXCEPT ![t] = to]

TaskRegister(t, u) ==
  /\ ~fired
  /\ pc[u] = "idle" /\ u \notin Claimed
  /\ Goto(t, "working", "registerGet")
  /\ new' = [new EXCEPT ![t] = u]
  /\ UNCHANGED <<fired, latch, counters, post, postNew, done>>

TaskGetCounter(t) ==
  /\ Goto(t, "registerGet", "registerCount")
  /\ GetCounter(new[t])
  /\ UNCHANGED <<fired, latch, post, postNew, new, done>>

TaskCountIntent(t) ==
  /\ Goto(t, "registerCount", "registerLatch")
  /\ PutCounter(new[t]) \/ IncrementCounter(new[t])
  /\ UNCHANGED <<fired, latch, post, postNew, new, done>>

TaskCountLatch(t) ==
  /\ pc[t] = "registerLatch"
  /\ latch' = latch + 1
  /\ pc' = [pc EXCEPT ![t] = "working", ![new[t]] = "working"]
  /\ new' = [new EXCEPT ![t] = NoTask]
  /\ UNCHANGED <<fired, counters, post, postNew, done>>

TaskComplete(t) ==                \* completeIntent: intents.get( plugin )
  /\ Goto(t, "working", "completeCheck")
  /\ GetCounter(t)
  /\ UNCHANGED <<fired, latch, post, postNew, new, done>>

TaskCheck(t) ==                   \* checkState: it throws when nothing is counted
  /\ Goto(t, "completeCheck", IF got[t] # NoTask /\ count[got[t]] > 0
                              THEN "completeIntent" ELSE "refused")
  /\ UNCHANGED <<fired, latch, counters, post, postNew, new, done>>

TaskDecrementIntent(t) ==
  /\ Goto(t, "completeIntent", "readFired")
  /\ count' = [count EXCEPT ![got[t]] = @ - 1]
  /\ UNCHANGED <<fired, latch, intents, made, got, post, postNew, new, done>>

TaskReadFired(t) ==
  /\ Goto(t, "readFired", IF fired THEN "decrementFired" ELSE "decrementUnfired")
  /\ UNCHANGED <<fired, latch, counters, post, postNew, new, done>>

\* Mutant of TaskDecrementFired: the latch is compared before the decrement.
DecrementComparesBefore(t) ==
  /\ Goto(t, "decrementFired", IF latch = 0 THEN "callDone" ELSE "finished")
  /\ latch' = latch - 1
  /\ UNCHANGED <<fired, counters, post, postNew, new, done>>

TaskDecrementFired(t) ==          \* if ( latch.decrementAndGet() == 0 )
  /\ Goto(t, "decrementFired", IF latch - 1 = 0 THEN "callDone" ELSE "finished")
  /\ latch' = latch - 1
  /\ UNCHANGED <<fired, counters, post, postNew, new, done>>

TaskDecrementUnfired(t) ==
  /\ Goto(t, "decrementUnfired", "finished")
  /\ latch' = latch - 1
  /\ UNCHANGED <<fired, counters, post, postNew, new, done>>

TaskDone(t) ==
  /\ Goto(t, "callDone", "finished")
  /\ done' = done + 1
  /\ UNCHANGED <<fired, latch, counters, post, postNew, new>>

-----------------------------------------------------------------------------
PostStep ==
  \/ HandlerGetCounter \/ HandlerCountIntent \/ HandlerCountLatch
  \/ HandlersReturn \/ PostReadLatch \/ PostDone \/ PostSetFired

RegisterStep(t) == TaskGetCounter(t) \/ TaskCountIntent(t) \/ TaskCountLatch(t)

CompleteStep(t) ==
  \/ TaskComplete(t) \/ TaskCheck(t) \/ TaskDecrementIntent(t) \/ TaskReadFired(t)
  \/ TaskDecrementFired(t) \/ TaskDecrementUnfired(t) \/ TaskDone(t)

Next ==
  \/ PostStep
  \/ \E t \in Task : HandlerRegister(t)
  \/ \E t \in Task : CompleteStep(t) \/ RegisterStep(t)
  \/ \E t, u \in Task : TaskRegister(t, u)

Spec == Init /\ [][Next]_vars

\* The posting thread runs postCall after its handlers; a task that was
\* submitted runs and completes its intent.  Registering is never required.
Fairness ==
  /\ WF_vars(PostStep)
  /\ \A t \in Task : WF_vars(CompleteStep(t) \/ RegisterStep(t))

FairSpec == Spec /\ Fairness

-----------------------------------------------------------------------------
TypeOK ==
  /\ fired \in BOOLEAN
  /\ latch \in Nat
  /\ intents \in [Plugin -> Task \cup {NoTask}]
  /\ count \in [Task -> Int]
  /\ made \in SUBSET Task
  /\ got \in [Task -> Task \cup {NoTask}]
  /\ post \in PostStates
  /\ postNew \in Task \cup {NoTask}
  /\ pc \in [Task -> TaskStates]
  /\ new \in [Task -> Task \cup {NoTask}]
  /\ done \in Nat

\* Tasks whose intent is still counted in the latch; a refused completion has
\* thrown before it could decrement it.
LatchStates == {"working", "registerGet", "registerCount", "registerLatch",
                "completeCheck", "refused", "completeIntent", "readFired",
                "decrementFired", "decrementUnfired"}
Holders == {t \in Task : pc[t] \in LatchStates}

\* Two registrations of the plugin both found no counter and both put one: the
\* later put dropped the earlier counter with the intents it had counted.
Overwritten(p) ==
  \E t, u \in made : t # u /\ Owner[t] = p /\ Owner[u] = p

\* The intents counted for a plugin: 0 before its first.
CountOf(p) == IF intents[p] = NoTask THEN 0 ELSE count[intents[p]]

\* The callback continues the login at most once: postCall and the last
\* completeIntent never both run it, nor do two completions.
DoneOnce == done <= 1

\* The callback runs only after every handler has returned and every task has
\* completed its intent: nothing can still object to the login, and every
\* counter that was never overwritten is back at zero.
DoneOnlyWhenComplete ==
  done > 0 => /\ Holders = {}
              /\ post \in {"setFired", "returned"}
              /\ \A p \in Plugin : ~Overwritten(p) => CountOf(p) = 0

\* The counters implement the barrier the javadoc describes.
Barrier == INSTANCE EventBarrier WITH
             accepting <- post \in {"handlers", "registerGet", "registerCount",
                                    "registerLatch"},
             outstanding <- Holders,
             proceeded <- done

\* Every step of the counters is a step of that barrier: an intent is opened or
\* completed, the handlers return, or the login goes on, once and last.
ImplementsBarrier == Barrier!Spec

\* completeIntent's checkState refuses a task that holds an intent only if the
\* counter of its plugin was overwritten: two threads registered the plugin's
\* first intents at once.  Otherwise the per-plugin counter is never behind the
\* tasks that are still working.
RefusedOnlyWhenOverwritten ==
  \A t \in Task : pc[t] = "refused" => Overwritten(Owner[t])

\* A completion that read "not fired" is still to decrement although postCall
\* has already read a latch above zero: neither will run the callback.
Raced ==
  /\ post \in {"setFired", "returned"} /\ done = 0
  /\ \E t \in Task : pc[t] = "decrementUnfired"

\* AsyncEvent's javadoc: the event proceeds once every registered background
\* task has completed its intent.
ProceedsOnceCompleted == <>(done = 1)

NoneRefused == \A t \in Task : pc[t] # "refused"

\* The same, unless postCall reads the latch between a completion's read of
\* "fired" and its decrement, or a completion is refused (its plugin's counter was
\* overwritten) and the latch keeps its intent for ever: there is no third way.
ProceedsUnlessRaced == [](~Raced) /\ []NoneRefused => <>(done = 1)
=============================================================================
