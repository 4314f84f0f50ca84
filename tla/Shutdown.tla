------------------------------ MODULE Shutdown ------------------------------
(***************************************************************************)
(* The end of the proxy: BungeeCord.independentThreadStop, called by the   *)
(* threads of stop() and by the JVM's shutdown hook, among the listeners,  *)
(* the users who are still on or still logging in, the store of reconnect  *)
(* locations with its timer, and /greload.                                 *)
(*                                                                         *)
(* Outside of the code are the JVM (the first System.exit or signal starts *)
(* the hook, and the JVM halts when the hook's thread ends; whoever calls  *)
(* System.exit waits) and netty (a loop that shuts down closes its         *)
(* channels, runs their handlers and then ends).  A user has one name and  *)
(* joins once; how users move between servers is the matter of Routing.    *)
(***************************************************************************)
EXTENDS Naturals, FiniteSets

CONSTANTS
    Users,
    Listeners,   \* the configured listeners and query sockets
    Stoppers,    \* the threads that stop() makes
    Hook,        \* the thread of the shutdown hook
    Console,     \* the thread that carries out /greload
    None,
    MaxReloads   \* bound: /greload

ASSUME ThreadAssumption ==
    /\ MaxReloads \in Nat
    /\ Hook \notin Stoppers /\ Console \notin Stoppers /\ Hook # Console
    /\ None \notin Stoppers \cup {Hook, Console}

Ending == Stoppers \cup {Hook}
Threads == Ending \cup {Console}

VARIABLES
    jvm,         \* "up", "exiting" (the hook runs), "halted"
    lock,        \* shutdownLock: its holder
    isRunning,
    at,          \* where a thread is
    left,        \* what the iterator of a thread has yet to give
    modified,    \* the threads whose iterator over `listeners' is stale
    bound,       \* the listeners whose channel is open
    binding,     \* those whose bind() is under way
    listeners,
    reloads,
    client,      \* the channel of a user
    backend,     \* the channel to the user's server
    connections,
    reading,     \* the read lock of connectionLock is held
    stored,      \* the users whose location the handler knows (data)
    copy,        \* the copy the shutdown's save made of it
    timer,       \* where the thread "Reconnect Saver" is
    timerCopy,   \* its copy
    cancelled,   \* saveThread.cancel() was called
    file,        \* locations.yml
    torn,        \* ... is truncated, or the mixture of two writers
    met,         \* a save of the timer and that of the shutdown overlapped
    failed,      \* the shutdown's save failed, or a write of the timer since
    closed,      \* reconnectHandler.close() was called
    plugins,     \* "enabled", "disabled"
    loops        \* "up", "closing", "ended"

procVars == <<jvm, lock, isRunning>>
listenVars == <<modified, bound, binding, listeners, reloads>>
userVars == <<client, backend, connections>>
fileVars == <<file, torn, met, failed>>
timerVars == <<timer, timerCopy, cancelled>>
vars == <<procVars, at, left, listenVars, userVars, reading, stored, copy,
          timerVars, fileVars, closed, plugins, loops>>

\* The end of start(): its binds may still be under way.
Init ==
    /\ jvm = "up" /\ lock = None /\ isRunning = TRUE
    /\ at = [t \in Threads |-> "idle"]
    /\ left = [t \in Threads |-> {}]
    /\ modified = {} /\ bound = {} /\ binding = Listeners /\ listeners = {}
    /\ reloads = 0
    /\ client = [u \in Users |-> "away"]
    /\ backend = [u \in Users |-> "none"]
    /\ connections = {} /\ reading = FALSE
    /\ stored = {} /\ copy = {}
    /\ timer = "idle" /\ timerCopy = {} /\ cancelled = FALSE
    /\ file = {} /\ torn = FALSE /\ met = FALSE /\ failed = FALSE
    /\ closed = FALSE /\ plugins = "enabled" /\ loops = "up"

Goes(t, p, q) == at[t] = p /\ at' = [at EXCEPT ![t] = q]

-----------------------------------------------------------------------------
(* startListeners and stopListeners *)

\* The callback of bind(), on a boss thread.  An address that is still taken
\* by an open channel cannot be bound.
Bound(l) ==
    /\ l \in binding /\ loops = "up"
    /\ binding' = binding \ {l}
    /\ bound' = bound \cup {l}
    /\ listeners' = IF l \in bound THEN listeners ELSE listeners \cup {l}
    /\ modified' = IF l \in bound THEN modified
                   ELSE modified \cup {t \in Threads : at[t] = "listeners"}
    /\ UNCHANGED <<procVars, at, left, reloads, userVars, reading, stored,
                   copy, timerVars, fileVars, closed, plugins, loops>>

\* One round of the loop: next() of a HashSet refuses to go on after somebody
\* else's change; what is given is closed, and the close waited for.
CloseListener(t, l) ==
    /\ at[t] = "listeners" /\ t \notin modified
    /\ l \in left[t]
    /\ left' = [left EXCEPT ![t] = @ \ {l}]
    /\ bound' = bound \ {l}
    /\ UNCHANGED <<procVars, at, modified, binding, listeners, reloads, userVars,
                   reading, stored, copy, timerVars, fileVars, closed, plugins,
                   loops>>

\* ConcurrentModificationException: nobody catches it for a thread that stops
\* the proxy; that of the console is caught by dispatchCommand.
Throw(t) ==
    /\ at[t] = "listeners" /\ t \in modified
    /\ left[t] # {}
    /\ at' = [at EXCEPT ![t] = IF t = Console THEN "idle" ELSE "dead"]
    /\ left' = [left EXCEPT ![t] = {}]
    /\ modified' = modified \ {t}
    /\ UNCHANGED <<procVars, bound, binding, listeners, reloads, userVars,
                   reading, stored, copy, timerVars, fileVars, closed, plugins,
                   loops>>

\* listeners.clear(), which makes the iterators of others stale.
Cleared(t) ==
    /\ at[t] = "listeners" /\ left[t] = {}
    /\ listeners' = {}
    /\ modified' = {s \in Threads : at[s] = "listeners"} \ {t}

\* CommandReload: the listeners are closed and bound again.
Reload ==
    /\ jvm # "halted" /\ reloads < MaxReloads
    /\ Goes(Console, "idle", "listeners")
    /\ left' = [left EXCEPT ![Console] = listeners]
    /\ reloads' = reloads + 1
    /\ UNCHANGED <<procVars, modified, bound, binding, listeners, userVars,
                   reading, stored, copy, timerVars, fileVars, closed, plugins,
                   loops>>

StartListeners ==
    /\ Cleared(Console)
    /\ Goes(Console, "listeners", "idle")
    /\ binding' = IF loops = "up" THEN Listeners ELSE {}
    /\ UNCHANGED <<procVars, left, bound, reloads, userVars, reading, stored,
                   copy, timerVars, fileVars, closed, plugins, loops>>

-----------------------------------------------------------------------------
(* Users.  The handlers of both channels of a user run in one event loop. *)

Accept(u) ==
    /\ client[u] = "away" /\ bound # {} /\ loops = "up"
    /\ client' = [client EXCEPT ![u] = "logging"]
    /\ UNCHANGED <<procVars, at, left, listenVars, backend, connections, reading,
                   stored, copy, timerVars, fileVars, closed, plugins, loops>>

LeaveLogin(u) ==
    /\ client[u] = "logging"
    /\ client' = [client EXCEPT ![u] = "gone"]
    /\ UNCHANGED <<procVars, at, left, listenVars, backend, connections, reading,
                   stored, copy, timerVars, fileVars, closed, plugins, loops>>

\* The task that follows the LoginEvent: addConnection takes the write lock,
\* and then the reconnect handler is asked for a server.
Run(u) ==
    /\ client[u] = "logging" /\ ~reading
    /\ client' = [client EXCEPT ![u] = "open"]
    /\ connections' = connections \cup {u}
    /\ UNCHANGED <<procVars, at, left, listenVars, backend, reading, stored,
                   copy, timerVars, fileVars, closed, plugins, loops>>

\* An attempt succeeds: not once the loop closes its channels.
Join(u) ==
    /\ client[u] = "open" /\ backend[u] = "none" /\ loops = "up"
    /\ backend' = [backend EXCEPT ![u] = "open"]
    /\ UNCHANGED <<procVars, at, left, listenVars, client, connections, reading,
                   stored, copy, timerVars, fileVars, closed, plugins, loops>>

ServerDisconnect(u) ==
    IF backend[u] = "open" THEN [backend EXCEPT ![u] = "closing"] ELSE backend

\* Mutant of UpstreamDisconnected: a user is removed only while the proxy runs.
DisconnectedWhileRunning(u) ==
    /\ client[u] \in {"open", "closing"} /\ ~reading
    /\ client' = [client EXCEPT ![u] = "gone"]
    /\ connections' = IF isRunning THEN connections \ {u} ELSE connections
    /\ backend' = ServerDisconnect(u)
    /\ UNCHANGED <<procVars, at, left, listenVars, reading, stored, copy,
                   timerVars, fileVars, closed, plugins, loops>>

\* UpstreamBridge.disconnected; removeConnection takes the write lock.
UpstreamDisconnected(u) ==
    /\ client[u] \in {"open", "closing"} /\ ~reading
    /\ client' = [client EXCEPT ![u] = "gone"]
    /\ connections' = connections \ {u}
    /\ backend' = ServerDisconnect(u)
    /\ UNCHANGED <<procVars, at, left, listenVars, reading, stored, copy,
                   timerVars, fileVars, closed, plugins, loops>>

\* DownstreamBridge.disconnected: setServer; and a user who is still on goes
\* to another server or is disconnected.
DownstreamDisconnected(u) ==
    /\ backend[u] \in {"open", "closing"}
    /\ stored' = stored \cup {u}
    /\ \/ /\ client[u] = "open"
          /\ backend' = [backend EXCEPT ![u] = "none"]
          /\ UNCHANGED client
       \/ /\ backend' = [backend EXCEPT ![u] = "gone"]
          /\ client' = [client EXCEPT ![u] = IF @ = "open" THEN "closing" ELSE @]
    /\ UNCHANGED <<procVars, at, left, listenVars, connections, reading, copy,
                   timerVars, fileVars, closed, plugins, loops>>

User(u) ==
    \/ Accept(u) \/ LeaveLogin(u) \/ Run(u) \/ Join(u)
    \/ UpstreamDisconnected(u) \/ DownstreamDisconnected(u)

-----------------------------------------------------------------------------
(* YamlReconnectHandler.save, by the timer: a copy of data under the lock; *)
(* new FileWriter, which truncates the file; and the dump.  Each of the    *)
(* last two may fail: the IOException is caught, and all goes on.          *)

saving == \E t \in Ending : at[t] \in {"open", "write"}
saved == closed \/ \E t \in Ending : at[t] = "close"

\* Mutant of TimerBegins: the copy is forgotten.
TimerCopiesNothing ==
    /\ timer = "idle" /\ ~cancelled
    /\ timer' = "open"
    /\ met' = (met \/ saving)
    /\ UNCHANGED <<procVars, at, left, listenVars, userVars, reading, stored,
                   copy, timerCopy, cancelled, file, torn, failed, closed,
                   plugins, loops>>

TimerBegins ==
    /\ timer = "idle" /\ ~cancelled
    /\ timer' = "open" /\ timerCopy' = stored
    /\ met' = (met \/ saving)
    /\ UNCHANGED <<procVars, at, left, listenVars, userVars, reading, stored,
                   copy, cancelled, file, torn, failed, closed, plugins, loops>>

TimerOpens ==
    /\ timer = "open" /\ timer' = "write"
    /\ file' = {} /\ torn' = TRUE
    /\ UNCHANGED <<procVars, at, left, listenVars, userVars, reading, stored,
                   copy, timerCopy, cancelled, met, failed, closed, plugins, loops>>

\* Two writers that met may leave a mixture.
Write(c) == file' = c /\ torn' \in {FALSE, met}

TimerWrites ==
    /\ timer = "write" /\ timer' = "idle"
    /\ Write(timerCopy) /\ timerCopy' = {}
    /\ UNCHANGED <<procVars, at, left, listenVars, userVars, reading, stored,
                   copy, cancelled, met, failed, closed, plugins, loops>>

\* A write that fails leaves part of what it was to write.
TimerFails ==
    /\ timer' = "idle" /\ timerCopy' = {}
    /\ \/ timer = "open" /\ UNCHANGED <<torn, failed>>
       \/ timer = "write" /\ failed' = (failed \/ saved) /\ torn' = TRUE
    /\ UNCHANGED <<procVars, at, left, listenVars, userVars, reading, stored,
                   copy, cancelled, file, met, closed, plugins, loops>>

Timer == TimerBegins \/ TimerOpens \/ TimerWrites \/ TimerFails

-----------------------------------------------------------------------------
(* independentThreadStop *)

\* stop() makes a thread.
Stop(t) ==
    /\ t \in Stoppers
    /\ Goes(t, "idle", "lock")
    /\ UNCHANGED <<procVars, left, listenVars, userVars, reading, stored, copy,
                   timerVars, fileVars, closed, plugins, loops>>

\* Mutant of Acquire: tryLock.
TryAcquire(t) ==
    /\ Goes(t, "lock", IF lock = None THEN "test" ELSE "exit")
    /\ lock' = IF lock = None THEN t ELSE lock
    /\ UNCHANGED <<jvm, isRunning, left, listenVars, userVars, reading, stored,
                   copy, timerVars, fileVars, closed, plugins, loops>>

Acquire(t) ==
    /\ lock = None
    /\ Goes(t, "lock", "test")
    /\ lock' = t
    /\ UNCHANGED <<jvm, isRunning, left, listenVars, userVars, reading, stored,
                   copy, timerVars, fileVars, closed, plugins, loops>>

AlreadyStopping(t) ==
    /\ ~isRunning
    /\ Goes(t, "test", "done")
    /\ lock' = None
    /\ UNCHANGED <<jvm, isRunning, left, listenVars, userVars, reading, stored,
                   copy, timerVars, fileVars, closed, plugins, loops>>

StopListeners(t) ==
    /\ isRunning /\ isRunning' = FALSE
    /\ Goes(t, "test", "listeners")
    /\ left' = [left EXCEPT ![t] = listeners]
    /\ UNCHANGED <<jvm, lock, listenVars, userVars, reading, stored, copy,
                   timerVars, fileVars, closed, plugins, loops>>

\* The listeners are closed; the read lock is taken and the users iterated.
Sweep(t) ==
    /\ Cleared(t)
    /\ Goes(t, "listeners", "sweep")
    /\ reading' = TRUE
    /\ left' = [left EXCEPT ![t] = connections]
    /\ UNCHANGED <<procVars, bound, binding, reloads, userVars, stored, copy,
                   timerVars, fileVars, closed, plugins, loops>>

\* UserConnection.disconnect0: closes are started and not waited for.
Disconnect(t, u) ==
    /\ at[t] = "sweep" /\ u \in left[t]
    /\ left' = [left EXCEPT ![t] = @ \ {u}]
    /\ client' = [client EXCEPT ![u] = IF @ = "open" THEN "closing" ELSE @]
    /\ backend' = IF client[u] = "open" THEN ServerDisconnect(u) ELSE backend
    /\ UNCHANGED <<procVars, at, listenVars, connections, reading, stored, copy,
                   timerVars, fileVars, closed, plugins, loops>>

\* Mutant of SweepEnds: the closes are waited for, as those of the listeners.
SweepWaits(t) ==
    /\ left[t] = {} /\ \A u \in Users : client[u] # "closing"
    /\ Goes(t, "sweep", "sleep")
    /\ reading' = FALSE
    /\ UNCHANGED <<procVars, left, listenVars, userVars, stored, copy, timerVars,
                   fileVars, closed, plugins, loops>>

SweepEnds(t) ==
    /\ left[t] = {}
    /\ Goes(t, "sweep", "sleep")
    /\ reading' = FALSE
    /\ UNCHANGED <<procVars, left, listenVars, userVars, stored, copy, timerVars,
                   fileVars, closed, plugins, loops>>

\* 500 ms later, whatever has happened by then: save().
Save(t) ==
    /\ Goes(t, "sleep", "open")
    /\ copy' = stored
    /\ met' = (met \/ timer # "idle")
    /\ UNCHANGED <<procVars, left, listenVars, userVars, reading, stored,
                   timerVars, file, torn, failed, closed, plugins, loops>>

SaveOpens(t) ==
    /\ Goes(t, "open", "write")
    /\ file' = {} /\ torn' = TRUE
    /\ UNCHANGED <<procVars, left, listenVars, userVars, reading, stored, copy,
                   timerVars, met, failed, closed, plugins, loops>>

SaveWrites(t) ==
    /\ Goes(t, "write", "close")
    /\ Write(copy)
    /\ UNCHANGED <<procVars, left, listenVars, userVars, reading, stored, copy,
                   timerVars, met, failed, closed, plugins, loops>>

SaveFails(t) ==
    /\ \/ Goes(t, "open", "close") /\ UNCHANGED torn
       \/ Goes(t, "write", "close") /\ torn' = TRUE
    /\ failed' = TRUE
    /\ UNCHANGED <<procVars, left, listenVars, userVars, reading, stored, copy,
                   timerVars, file, met, closed, plugins, loops>>

Close(t) ==
    /\ Goes(t, "close", "cancel")
    /\ closed' = TRUE
    /\ UNCHANGED <<procVars, left, listenVars, userVars, reading, stored, copy,
                   timerVars, fileVars, plugins, loops>>

CancelTimer(t) ==
    /\ Goes(t, "cancel", "plugins")
    /\ cancelled' = TRUE
    /\ UNCHANGED <<procVars, left, listenVars, userVars, reading, stored, copy,
                   timer, timerCopy, fileVars, closed, plugins, loops>>

\* What a plugin throws is caught.
DisablePlugins(t) ==
    /\ Goes(t, "plugins", "loops")
    /\ plugins' = "disabled"
    /\ UNCHANGED <<procVars, left, listenVars, userVars, reading, stored, copy,
                   timerVars, fileVars, closed, loops>>

\* shutdownGracefully of both groups: listeners are closed, binds fail.
ShutdownGracefully(t) ==
    /\ Goes(t, "loops", "await")
    /\ loops' = "closing"
    /\ bound' = {} /\ binding' = {}
    /\ UNCHANGED <<procVars, left, modified, listeners, reloads, userVars,
                   reading, stored, copy, timerVars, fileVars, closed, plugins>>

\* awaitTermination: a loop ends when its channels are closed and handled.
AwaitTermination(t) ==
    /\ \A u \in Users : client[u] \in {"away", "gone"}
                        /\ backend[u] \in {"none", "gone"}
    /\ Goes(t, "await", "unlock")
    /\ loops' = "ended"
    /\ UNCHANGED <<procVars, left, listenVars, userVars, reading, stored, copy,
                   timerVars, fileVars, closed, plugins>>

\* Mutant of Unlock: the lock is kept for System.exit.
KeepLock(t) ==
    /\ Goes(t, "unlock", "exit")
    /\ UNCHANGED <<procVars, left, listenVars, userVars, reading, stored, copy,
                   timerVars, fileVars, closed, plugins, loops>>

\* The command threads of FlameCord are told, and the lock is released.
Unlock(t) ==
    /\ Goes(t, "unlock", "exit")
    /\ lock' = None
    /\ UNCHANGED <<jvm, isRunning, left, listenVars, userVars, reading, stored,
                   copy, timerVars, fileVars, closed, plugins, loops>>

\* The hook ends; another thread calls System.exit, for ever.
Exit(t) ==
    /\ at[t] = "exit"
    /\ jvm' = IF jvm = "up" /\ t # Hook THEN "exiting" ELSE jvm
    /\ at' = [s \in Threads |->
                IF s = t THEN IF t = Hook THEN "done" ELSE "blocked"
                ELSE IF s = Hook /\ jvm = "up" THEN "lock" ELSE at[s]]
    /\ UNCHANGED <<lock, isRunning, left, listenVars, userVars, reading, stored,
                   copy, timerVars, fileVars, closed, plugins, loops>>

Stops(t) ==
    \/ Acquire(t) \/ AlreadyStopping(t) \/ StopListeners(t)
    \/ Sweep(t) \/ SweepEnds(t)
    \/ Save(t) \/ SaveOpens(t) \/ SaveWrites(t) \/ SaveFails(t)
    \/ Close(t) \/ CancelTimer(t)
    \/ DisablePlugins(t) \/ ShutdownGracefully(t) \/ AwaitTermination(t)
    \/ Unlock(t) \/ Exit(t)
    \/ \E u \in Users : Disconnect(t, u)

Closes(t) == Throw(t) \/ \E l \in Listeners : CloseListener(t, l)

-----------------------------------------------------------------------------
(* The JVM *)

Signal ==
    /\ jvm = "up" /\ jvm' = "exiting"
    /\ Goes(Hook, "idle", "lock")
    /\ UNCHANGED <<lock, isRunning, left, listenVars, userVars, reading, stored,
                   copy, timerVars, fileVars, closed, plugins, loops>>

Halt ==
    /\ jvm = "exiting" /\ at[Hook] \in {"done", "dead"}
    /\ jvm' = "halted"
    /\ UNCHANGED <<lock, isRunning, at, left, listenVars, userVars, reading,
                   stored, copy, timerVars, fileVars, closed, plugins, loops>>

Halted == jvm = "halted" /\ UNCHANGED vars

Next ==
    \/ /\ jvm # "halted"
       /\ \/ Signal \/ Halt \/ Timer \/ Reload \/ StartListeners
          \/ \E l \in Listeners : Bound(l)
          \/ \E t \in Threads : Closes(t)
          \/ \E t \in Ending : Stop(t) \/ Stops(t)
          \/ \E u \in Users : User(u)
    \/ Halted

Spec == Init /\ [][Next]_vars

\* Channels that are being closed come to an end, and so do all of them when
\* their loop shuts down.
Settles(u) ==
    \/ /\ client[u] = "closing" \/ loops = "closing"
       /\ UpstreamDisconnected(u) \/ LeaveLogin(u)
    \/ /\ backend[u] = "closing" \/ loops = "closing"
       /\ DownstreamDisconnected(u)

\* Threads run, sleeps end, closes complete.  Nobody has to stop the proxy.
FairSpec ==
    /\ Spec
    /\ \A t \in Ending : WF_vars(jvm # "halted" /\ (Stops(t) \/ Closes(t)))
    /\ WF_vars(jvm # "halted" /\ (StartListeners \/ Closes(Console)))
    /\ \A u \in Users : WF_vars(jvm # "halted" /\ Settles(u))
    /\ WF_vars(Halt)

-----------------------------------------------------------------------------
(* Properties *)

AfterSave == {"close", "cancel", "plugins", "loops", "await", "unlock"}
Section == {"test", "listeners", "sweep", "sleep", "open", "write"} \cup AfterSave

DataOK ==
    /\ jvm \in {"up", "exiting", "halted"}
    /\ lock \in Ending \cup {None} /\ isRunning \in BOOLEAN
    /\ at \in [Threads -> {"idle", "lock", "exit", "blocked", "done", "dead"}
                          \cup Section]
    /\ left \in [Threads -> SUBSET (Listeners \cup Users)]
    /\ modified \subseteq Threads
    /\ bound \subseteq Listeners /\ binding \subseteq Listeners
    /\ listeners \subseteq Listeners /\ reloads \in 0 .. MaxReloads
    /\ client \in [Users -> {"away", "logging", "open", "closing", "gone"}]
    /\ backend \in [Users -> {"none", "open", "closing", "gone"}]
    /\ connections \subseteq Users /\ reading \in BOOLEAN
    /\ stored \subseteq Users /\ copy \subseteq Users
    /\ timer \in {"idle", "open", "write"} /\ timerCopy \subseteq Users
    /\ cancelled \in BOOLEAN /\ file \subseteq Users
    /\ torn \in BOOLEAN /\ met \in BOOLEAN /\ failed \in BOOLEAN /\ closed \in BOOLEAN
    /\ plugins \in {"enabled", "disabled"}
    /\ loops \in {"up", "closing", "ended"}

\* shutdownLock is held in the section and for ever by a thread that died in
\* it; the read lock of connectionLock is held during the sweep.
LocksOK ==
    /\ \A t \in Ending : at[t] \in Section \cup {"dead"} <=> lock = t
    /\ reading <=> \E t \in Ending : at[t] = "sweep"

\* Types, and who holds the locks.
TypeOK == DataOK /\ LocksOK

thrown == \E t \in Ending : at[t] = "dead"
asked == \E t \in Ending : at[t] # "idle"

\* The JVM never halts in the middle of the stop, however the stop was asked
\* for and asked for again meanwhile: the hook waits for the thread of stop(),
\* and only a thread that died of an exception leaves its work undone.
WholeStop ==
    jvm = "halted" =>
        \/ thrown
        \/ ~isRunning /\ closed /\ cancelled /\ plugins = "disabled"
           /\ loops = "ended"

\* What the shutdown's save wrote is in the file from then on, also when the JVM
\* has halted, with what the timer may add after it.  Excepted are a timer that is
\* in the middle of writing (as may one be that began before it was cancelled, and
\* the JVM may halt then), a save of the timer that overlapped that of the
\* shutdown, and a save that failed.
LocationsKept ==
    saved /\ timer # "write" /\ ~met /\ ~failed =>
        ~torn /\ copy \subseteq file

\* When the event loops have ended nobody is registered any more, also of
\* those who got on after the users had been disconnected, and the location
\* of each who had a server is known to the handler (if not to the file).
NobodyLeft ==
    loops = "ended" =>
        /\ connections = {}
        /\ \A u \in Users : backend[u] = "gone" => u \in stored

\* The proxy halts once it was asked to, unless the stopping thread died: the
\* locks are never waited for in a circle.
StopHalts == asked ~> (jvm = "halted" \/ thrown)

\* Violated.  The system obtains the lock: it is not kept by a thread that
\* died of what the iteration over `listeners' throws.
SystemObtainsLock == asked ~> jvm = "halted"
=============================================================================
