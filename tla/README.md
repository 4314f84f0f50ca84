# FlameCord in TLA+

FlameCord is a Minecraft proxy: clients log in to it, and it carries each of them
to one backend server at a time. It is a fork of Waterfall, which is a fork of
BungeeCord, and the repository keeps it as one: the unpatched BungeeCord tree
(`Waterfall/BungeeCord`), the patches Waterfall applies to it
(`Waterfall/BungeeCord-Patches`) and the patches FlameCord applies to the result
(`Waterfall-Proxy-Patches`). The modules model the **patched program**. Lines in
`PROJECT.json` are those of the unpatched file where the patches leave the code
as it is, and those of the patch where a patch introduces it. Files are named
below by their class.

## 1. Inventory

| Component | State | Operations | Interacts with |
|---|---|---|---|
| AsyncEvent (PreLoginEvent, LoginEvent, ProxyPingEvent) | `fired`, `latch`, `intents` | postCall, registerIntent, completeIntent | called by InitialHandler through PluginManager; completed by plugin threads; runs the callback that continues the login |
| InitialHandler | `thisState`, `processing`, `onlineMode`, `name`, `uniqueId`, `loginProfile` | one handler per packet, `finish`, callbacks of three events and of the session server | its channel, the registry, the antibot checks, then UserConnection.connect |
| Registry (BungeeCord) | `connections`, `connectionsByUUID`, `connectionsByOfflineUUID`, a lock | addConnection, removeConnection, getPlayer | all logins, commands, shutdown |
| UserConnection | `server`, `dimensionChange`, `serverJoinQueue`, `pendingConnects` | connect, connectNow, disconnect0, updateAndGetNextServer | plugin threads, ServerConnector, both bridges |
| ServerConnector | `thisState`, `obsolete` | LoginSuccess, Login, Kick, PluginMessage, exception, disconnected | one backend channel; installs DownstreamBridge |
| DownstreamBridge, UpstreamBridge | `ServerConnection.isObsolete`, keep-alive queue | exception, disconnected, Kick; packets passed on | the two channels of a user |
| ChannelWrapper, HandlerBoss | `closed`, `closing` | close, delayedClose, markClosed, channelRead, exceptionCaught | every handler |
| BungeeServerInfo | `players`, `packetQueue`, `cachedPing` | addPlayer, removePlayer, sendData, ping | bridges, plugins |
| ConnectionThrottle | a counter per address, with expiry | throttle, unthrottle | PipelineUtils, status pings |
| Antibot (FlameCord) | AddressData, StatsData, PacketsData, the queue of ipset commands | addPing, addConnection, addNickname, the checks, firewall, runQueuedLinuxCommands | handshake, login, chat, decoder, /flamecord |
| Scheduler | `tasks`, `tasksByPlugin`, `running` | schedule, cancel, run | plugins, shutdown |
| EventBus | handlers by event and priority, the baked arrays | register, unregister, post | everything that calls events |
| PluginManager | plugins, commands, dependencies | loadPlugins, enablePlugin, unloadPlugin | start, commands |
| Forge handshake | a state on the client's side, one on the server's | handle, resetHandshake | ServerConnector, UpstreamBridge |
| ServerUnique (tab list) | UUIDs shown | onUpdate, onServerChange | DownstreamBridge |
| Reconnect handler | last server of each user, locations.yml | getServer, setServer, save, close | login, loss of a server, its own timer, shutdown |
| Shutdown | `isRunning`, `shutdownLock`, `listeners` | stop, independentThreadStop, the JVM's hook, /greload | all of the above |
| Codecs, entity maps, chat, native code, query, log | none worth a model | | |

What is hard about them: every client has an event loop, and all channels of one
user share it, so handlers of one user do not interleave with each other; but
events complete on plugin threads, plugins call `connect` and `disconnect` from
threads of their own, the registry is shared by all event loops, and most fields
are neither volatile nor locked. Channels close in two phases (`closing`, then
`channelInactive`), and a Kick to a client in the middle of a protocol switch is
delayed by 250 ms, during which the login goes on. `PROJECT.json` lists the
hazards one by one, each at its line.

What makes the components correct:

- *AsyncEvent*: the callback runs once, after the last completion, and it runs.
- *Login*: one step at a time; nobody gets in who was kicked or not
  authenticated; the registry names connected users under their own keys; every
  login comes to something.
- *Scheduler*: the maps hold the tasks that are not cancelled, each is taken out
  by one thread; a cancelled task ends; nothing starts after a shutdown.
- *Routing*: one live backend for each user; player lists and pending attempts
  agree with the connections; no user is left without a server and without an
  attempt; nothing joins for a client that is gone; no connection leaks.
- *Throttle*: of the connections that hold a place no more than the limit get in,
  but for what late answers and expired entries account for; nobody is refused
  while there are places.
- *Antibot*: the names and connections of an address stay within their limits
  although each check reads what other connections write; a client that does what
  it was told gets in; a queued block reaches the firewall.
- *Shutdown*: the proxy is stopped once and wholly, it never hangs, nobody stays
  registered, and the locations of the users stay in the file.

## 2. Modules

| Module | Models | State and actions |
|---|---|---|
| `AsyncEvent` | AsyncEvent.java | every access of an atomic and of the map of intents is one action: `HandlerRegister`, `HandlerGetCounter` (`intents.get`), `HandlerCountIntent` (`put` or `incrementAndGet`), `HandlerCountLatch`, `PostReadLatch`, ... for the posting thread; the same of `TaskRegister`, and `TaskComplete`, `TaskCheck` (whose `checkState` may refuse), `TaskDecrementIntent`, `TaskReadFired`, ... for each background task |
| `EventBarrier` | what an AsyncEvent promises: intents are opened and completed, handlers return, the login proceeds once and last | abstract; `AsyncEvent!ImplementsBarrier` maps the counters to it |
| `Login` | InitialHandler, addConnection and removeConnection, ChannelWrapper's two flags | a state, a channel, `processing` and a count of outstanding callbacks for each client; one action per packet handler and per callback; the Runnable that ends a login is two, `Run` (its check of `isClosing`) and `Join` (addConnection and the bridge), and in between only other threads get to the client |
| `Routing` | UserConnection, ServerConnector, DownstreamBridge, UpstreamBridge, and a server's list of players and queue of packets, for one user | `server`, `dim`, `queue`, `pending`, `players`, `packets`; a phase, target and flags for each backend connection; one action per handler; plugin threads (connect, disconnect, sendData) in two steps |
| `Scheduler` | BungeeScheduler, BungeeTask, Plugin.getExecutorService, and what independentThreadStop does to a plugin's tasks and pool | the maps, the flag and the pool thread of each task, the pools; one action per access that no lock covers: `Put`, `Lookup`, `Create`, `Fetch`, `Execute` or `Reject` for schedule(), `Check`, `Begin`, ... for the loop of a task, `Flip` and `Remove` for a cancel |
| `Throttle` | ConnectionThrottle for one address | the cache's entry, the counters, and the counter each connection has looked up; `GetUnchecked` and `IncrementAndGet` are throttle, `GetIfPresent` and `DecrementAndGet` unthrottle, `Expire` the cache |
| `Antibot` | AddressData of one address, and the checks that the handshake, the status request and the login request make | the record's fields, the place of each connection in its calls; one action per read and write of the counters and times of connections (`AddConnection`, `AddReset`, `StampPenultimate`, `StampLast`, `ReadSecond`, `WriteSecond`, `ReadTotal`, `WriteTotal`, `RatelimitUpdate`, `RatelimitPasses`, ...), one per call for the rest (`ReconnectRefuses`, `AddNickname`, `AccountsRefuses`, ...), and `Tick` |
| `CommandQueue` | AddressData.firewall, the set of commands, runQueuedLinuxCommands with one runner for each load of the configuration that has antibot.firewall.ipset on | the set, the flag `processing`, the iterator and the batch of each runner; one action per access |
| `Shutdown` | stop, the shutdown hook, independentThreadStop, startListeners and stopListeners, /greload, the reconnect handler with its timer | the lock, the flag, where each thread is, the sets it iterates, channels of listeners and users, the registry, the file; one action per statement of independentThreadStop that others can see |
| `MCAsyncEvent`, `MCLogin`, `MCRouting`, `MCScheduler`, `MCThrottle`, `MCAntibot`, `MCCommandQueue`, `MCShutdown` | values for TLC | |
| `AsyncEventProofs`, `LoginProofs`, `SchedulerProofs`, `CommandQueueProofs`, `AntibotProofs`, `ShutdownProofs`, `RoutingProofs`, `ThrottleProofs` | theorems | |

`Login` and `AsyncEvent` meet in the callbacks: what `AsyncEvent` shows (the
callback runs at most once, after everyone agreed) is what `Login` assumes of
`tasks`, where each submitted callback is taken once. `Login` and `Routing` meet
in `Login`'s `Join`, whose last call is `Routing`'s `Join`. `Antibot` is what happens within
`Login`'s `Handshake` and `LoginRequest`, where a check may refuse; what its
firewall() leaves in the queue is `CommandQueue`'s. `Shutdown` has of `Login` and
`Routing` what the end of the proxy meets: a login that is not over, channels
that close, a server that is lost.

Definitions whose comment begins "Mutant of" are what plausible slips in the code
would look like; nothing uses them in the specifications. Each belongs to a
property that must fail with it.

### How state corresponds to code

- `Login!chan`: "open"; "kicking" is `closing` set by delayedClose; "closed" is
  `closed` set by close, or by the delayed close; "gone" is after channelInactive.
- `Login!tasks[c][k]`: callbacks of kind `k` given away and not yet run.
- `AsyncEvent!intents` names the AtomicInteger of a plugin by the task whose
  registration put it, and `count` is its value: a put that comes late replaces the
  counter of another registration, with what it has counted. `made` is history.
- `Login!UUID`: pairs of online mode and name, since a UUID is derived from them;
  `Fold` is the case folding of CaseInsensitiveMap, `Canon` the spelling the
  session server returns.
- `Routing!up`: the client's channel; `phase[c]` says which handler a backend
  channel has and whether it is still open; `joining` is the connection whose
  Login is past `user.isActive()` and has not installed its bridge yet.
- `Routing!Lost(c, ph, ob)`: the common part of the three reactions to a lost server.
- `Scheduler!registered` stands for both maps, which change together under the
  scheduler's lock; a pool is named after the caller that created it, so that two
  callers of getExecutorService can create two. An interrupt only shortens a
  sleep, and sleeps have no length here. What a task does to the scheduler (it
  may cancel itself or others) is among the things `Threads` do.
- `Throttle!holds[c]`: the counter that throttle or unthrottle has looked up and
  not changed yet, named by the number of its entry; `counted`, `passed` and
  `returned` are history.
- `Antibot!lastConnection`, `penultimateConnection`, `lastFirewall`: the seconds
  since, as far as a comparison of the code can tell them apart, instead of a
  clock. `due`, `now` and `seen` are what a connection's thread has read and not used
  yet: that the counter is out of date, the time, the value that `++` will add one to.
  `fresh`, `crossed`, `passed` and `told` are history; `passed` counts the connections
  let through since the counter was reset, less the increments lost since.
- `CommandQueue`: an address stands for its command; `rest[r]` is what a runner's
  iterator was made over, and since the set is concurrent it may also give what
  was added later and what another runner took out; `owed` is history.
- `Shutdown!at[t]`: the statement a thread comes to; `left[t]` what its iterator
  has yet to give, and `modified` the threads whose iterator over `listeners` is
  stale, so that its next() throws; `torn` that the file is truncated or mixed.
  `saved` says that the shutdown's save is over; `met` (history) that a save of the
  timer overlapped it, `failed` (history) that an IOException, which both only log,
  ended it or a save of the timer after it.

### Bounds, and why they are enough

- *AsyncEvent*, three tasks of two plugins: two completions race each other and
  postCall, while a third task is registered by one of them, or the first intents of a
  plugin by a handler and by a task at once.
- *Login*, two clients and three names, two of which differ in case only, with both
  modes: a slot is used again while the user of the other is on, under the same name
  or another, in the same mode or the other. One legacy ping of a client at a time.
  Slots are used again only when nothing refers to them: a slot stands for a fresh
  InitialHandler.
- *Routing*, two servers and three connection slots: a live one, an attempt and
  one that is closing. An attempt is not made while no slot is free. One plugin
  thread, and in the runs where they matter all things plugins and backends do
  (`PluginActs`, `BackendActs`); a run that leaves some out says so by its
  constants. A backend that sent a Kick closes its connection. `routing_live` has three
  servers and two slots, and plugins send data to one of the servers (`Messaged`), the
  second of the fallback order, which users join and leave in every way there is.
- *Scheduler*, one plugin with two tasks, one of them periodic, one thread that
  cancels, and the shutdown: two schedulers race for the pool, two cancellers and
  the task itself for the entry. Nothing bounds the runs of a periodic task.
- *Throttle*, five connections, a limit of two, three entries: a window can be
  filled, refused, relieved by an answer and filled again, and an answer can find
  each of two later entries.
- *Antibot*, two connections that come again and again, an ordinary, a blacklisted
  and a whitelisted name, one account for each address, a limit of two connections a
  second, two attempts, one ping: counters stop at the bound above which no
  comparison tells them apart (`Top` for those of a second), ages likewise. While one
  connection is held up between the read and the write of a `++`, the other may come
  again any number of times.
- *CommandQueue*, two addresses and a whitelisted one, one reload: no runner, one or
  two, as the setting is on or off at each load; addresses are blocked without bound.
- *Shutdown*, one thread of stop() and the hook, which are the two that compete for
  the lock, one user, one listener, one /greload (the safety theorems hold for any
  number of threads of stop(); with two of them the check of liveness takes minutes);
  two listeners for `shutdown_stuck`.

### Fairness

- *AsyncEvent*: the posting thread and started tasks go on; nobody has to
  register anything.
- *Login*: callbacks run, the session server answers or times out, the delayed
  close runs, netty reports a closed channel. Clients need not do anything. That
  an event's callback runs at all is the one thing `async_event_lost` shows not
  to be certain; `LoginResolves` is relative to it.
- *Routing*: the first connect is made, connects succeed or time out, a backend
  that does not go on with the login hits the read timeout of its pipeline,
  channelInactive comes for closed channels, started plugin threads finish.
- *Scheduler*: threads that began something go on, a sleep ends, and the body of
  a task returns (a plugin's own code: a task that never returns never ends).
  Nobody has to schedule, cancel or stop anything.
- *CommandQueue*: a runner that was started goes on and its sleep of a second ends.
  With antibot.firewall.ipset off nobody drains the queue, and nothing is asked of it.
- *Shutdown*: threads that began something go on, sleeps end, a bind and a close
  complete, an event loop that shuts down handles its channels. The timer need
  not save, and nobody has to stop the proxy.
- *Throttle* and *Antibot* state safety only: clients need not do anything.

## 3. Runs

| Run | Shows |
|---|---|
| `async_event` | a completion is refused only where the plugin's counter was overwritten; refines `EventBarrier`, and so proceeds at most once and never early; always proceeds unless a completion falls into the window of `Raced` or is refused |
| `async_event_lost` | *violated*: in that window the login never proceeds |
| `login` | one step at a time; authenticated if online; kicked clients never join, unless the kick came between the Runnable's check and the bridge; the registry finds under a name only a user of that name who is on; a loss leaves other users registered; every login comes to something |
| `login_race` | *violated*: two users of one name |
| `routing` | one live backend, exact player lists, no stale pending attempt, `dimensionChange` set after a loss, nothing joins for a client that is gone |
| `routing_live` | an open user has a server or an attempt under way, if plugins do not interfere, no Kick says "outdated" and no failed attempt's address is past comparing; with the last exception, the first connect resolves; backend connections do not outlive the client; a message queued for a server leaves with its next player, unless it was queued after that player's login had drained the queue |
| `scheduler` | the maps match the flags, only a rejected task stays in them without a thread; at most one run after a cancel; only a pool made twice takes tasks after the shutdown; cancelled tasks end |
| `throttle` | the limit holds but for one connection per late answer; refusals are deserved |
| `antibot` | names within their limits, connections within theirs and one more for each lost increment; a blacklisted name gets in only across another login; an ordinary login does not throw out a name that was known; who reconnects as told is not refused again |
| `command_queue` | no command lost between the threads that queue it and the runners that share the queue; each is taken out once a runner was started |
| `shutdown` | the stop is whole or its thread died; it never hangs otherwise; nobody stays registered; the saved locations stay, unless the timer's save overlaps or is under way, or a write fails |
| `shutdown_stuck` | *violated*: a thread that died in stopListeners keeps the lock, and nothing can stop the proxy |

The listener of a failed attempt compares addresses to see whether the server has
moved. For an address that was not resolved, an IPv6 literal or a unix socket the
comparison throws (0041-DynDNS-Support.patch:31-32), after the attempt was taken out of
`pendingConnects` and before a fallback or a disconnect: `Routing!TcpUnresolved`. An open
user whose only attempt that was stays without a server. `NeverStranded` says that
nothing else strands one (`Stranded`), and `JoinResolves` that the first connect comes to
something unless it or a later attempt ends so.

`NeverStranded` also fails, as one would expect, when plugins redirect kicks or
cancel connects, when a backend closes before the user joined, and when a
connector fails after the old server was lost; `routing_live` leaves these
out, and they are documented here rather than counted as findings, because no
comment promises otherwise. After a Kick that calls the client outdated the redirect
is not retried, so that a user whose server is lost stays without one if that
attempt fails too (`kickOutdated` of `Routing!ConnectorKick`).

`RefusedOnlyWhenOverwritten` and `ProceedsUnlessRaced` name a second way to hang. Where
a plugin's first two intents are registered by two threads at once, both find no counter
and the later put replaces the earlier (AsyncEvent.java:58-65); the tasks then complete
on a counter that is behind them, checkState throws before the latch is decremented, and
the latch never comes to zero.

`RegisteredIsConnected` is about the names. After the race of `login_race` two
users with one name and two UUIDs share the entry of the name, and the one it does
not name leaves its UUID entry behind, since removeConnection looks at the entry
of the name only; the comment in the code refers to an open issue there
("TODO See #1218").

Of the scheduler, `OneLateRun`, `EntriesAreAlive` and `LateStartNeedsTwoPools` say
precisely how far the code falls short of the simpler promises one would like: a
task may begin once more after cancel() returned, since the loop reads the flag
before it calls the task; a task whose pool is shut down stays in the maps for
ever; and the unlocked creation of a pool lets a task start after the shutdown.
cancel(Plugin) works from a snapshot, so a task scheduled meanwhile survives it,
also in unloadPlugin, which does not shut the pool down; a periodic one that
survives a shutdownNow goes on without sleeping, because BungeeTask.run sets its
interrupt flag again.

`RateBounded`, `KnownNamesStay`, `NicknameHolds` and `PassesBounded` say in the
same way how far an unlocked record carries. Each lost increment lets one more connection
pass. The number of event loops is no bound for them: a loop that is held up between
the read and the write of `connectionsSecond++` (0028-Antibot-System.patch:358) undoes
all increments that others have made and finished meanwhile, and one held up before its
reset of the counter likewise. Of names, one that was known may be the one thrown out when another
login of the address is between addNickname and AccountsCheck. NicknameCheck looks
at the last nickname of the address (`getLastNickname`, 0028-Antibot-System.patch:808),
while the message names that of the client: between the two calls of one login a
second one can get a blacklisted name in, or have an innocent client refused and
the address blocked in its place. And a late answer to a status ping takes a
connection out of a counter it was never counted in, which may go below zero.

`LocationsKept` has three exceptions. Saves may overlap (`met`): the timer's writer and
the shutdown's then write one file at once. A save may fail (`failed`): the IOException
is caught and logged, with the file truncated by then (YamlReconnectHandler.java:102-108),
and the stop goes on. And the timer may be in the middle of a write: one that began
before it was cancelled is not waited for, so that the JVM may halt with the file
truncated although the shutdown's own save was complete. What is lost after the shutdown's save (a
server that ends later reports the location of its user to the handler, not to the
file) is lost in the code too: `NobodyLeft` says "known to the handler" only.

Types are checked by a run where `TypeOK` holds more than types (how counters,
locks and entries add up); those of `AsyncEvent`, `Login`, `Antibot` and `CommandQueue`, and
`DoneOnce` and `DoneOnlyWhenComplete`, which follow from the refinement, are left to
their theorems.

`PacketsLeave` has the same form: a message for a server that is queued while a user
is joining it, or just after, stays in the queue beside that user until the next one
joins. And sendData takes the first of the server's players and writes to whatever
server that player is on: between the switch of a user and the channelInactive of
the old connection (`players` counts the user, `server` names another connection) a
message for the old server goes to the new one, and sendData returns true.

Four more things the code does and its comments do not say. The duplicate check
of handle(LoginRequest) looks up a UUID that is not set yet, so it never finds
anyone and the one of finish() decides. `processing` is cleared by the callback
after it has sent its packet, so that an answer quicker than the callback's thread
is refused (`Login!EncryptionRefused`). A listener that is bound while the shutdown is past
stopListeners goes on to accept clients until the event loops end. And
`server_went_down`, whose text says that the user was moved to a fallback server,
is what a user is told who is disconnected.

## 4. Proofs

The provers check these for every number of tasks, plugins, clients and names,
from the named assumptions in the modules (sets of processes are finite, null
values are not members, `Fold` and `Canon` are functions).

*AsyncEventProofs.* The inductive invariant counts: `latch` is the number of
tasks in `LatchStates`; the counter of a plugin for which only one was ever put is the
number of its tasks in `IntentStates`, plus what the posting thread or a registering
task has counted in one and not yet in the other; and a callback under way has no
holder left.
`DoneOnce` alone is not inductive: that a second completion cannot bring the
latch to zero again is only true because the latch is exactly the number of
holders. From it follow `TypeCorrect`, `RunsOnce`, `NeverEarly`,
`RefusalsAreOverwrites` and `Refinement` (every step is a step of `EventBarrier` or
leaves its variables alone). `LostOnlyInRace` says that the window the finding below
is about and a refused completion are the only ways to lose the callback: in a behaviour
that has neither, after postCall has read the latch either the callback ran, or a task
is left that will run it.

*LoginProofs.* The inductive invariant adds to the types that a login callback
outstanding determines the state (`preLogin` only in USERNAME with `processing`
set, and so on), at most one at a time; that `profile` is set when a login or run
callback of an online user is outstanding; and what the registry lists: users in the
game, each with its UUID (`Listed`), for which a client may not be gone between `Run` and
`Join` (`LoopBusy`: its event loop is busy). From it follow `TypeCorrect`, `OneAtATime`,
`Authenticated` and `RegistryIsTrue`; `KickIsFinal` and `RemovalIsLocal` are action
properties that need type correctness only: into the game leads `Join` alone, and to
`Join` only a `Run` that finds the channel open. `NoLoginHangs` is the part of
`LoginResolves` that is a safety property: a login that was taken up, on an open
channel, has a callback outstanding that will answer it. Its invariant has one more
part, since the end of a PreLoginEvent clears `processing`, which FINISHING does not
ask for: the channel is closing if the two meet (`TailInTime`).

*SchedulerProofs.* Types need one more fact to be inductive: whoever comes out of
getExecutorService holds a pool (`HandedAPool`). `EntryInv` adds to
`EntriesMatchFlags` that a cleared flag has at most one remover, which is what
getAndSet is for, and that nobody can name a task before it is in the maps. For
`LateStartNeedsTwoPools`, `PoolInv` follows each pool to the caller that made it:
the pool that takes a task late is open, the one the shutdown was handed is
closed, and both were made for the same plugin. The theorems hold for any number
of tasks, plugins and threads.

*CommandQueueProofs.* `NoCommandLost` alone is not inductive, since a runner removes
its command without looking. What is missing is in `TypeOK`: the command a runner
is about to remove is in the batch it has yet to hand over (`TypeCorrect`), so
whatever it removes is not lost. `NothingLost` holds for any number of addresses and
runners. `NeverStuck` says that somebody can drain a queue that is not empty: Finally
clears a flag that another runner set, so two runners may be in the section, but the
flag is never set with nobody there (`FlagHeld`); its hypothesis `SomeRunner` is that
some load of the configuration had the setting on.

*ShutdownProofs.* Three inductive invariants, beside the types and the two locks.
`StopInv` is the order of the stop: a thread past a step has done it, and one in
the section is alone there, because the lock is; with it `StopIsWhole`. `UserInv`
follows each user, whenever it got on: who is registered has a client that is open or
closing, who has lost a server is known to the handler, and no loop ends before its
clients are gone; with it `NobodyStays`. `SaveInv` compares the two writers: while
they have not met and none has failed, a timer that began after the shutdown's save took
a copy that contains it, because locations are only added, and the file is torn only
while a timer writes; with it `SavedIsKept`, which goes on holding when the JVM has
halted. They hold for
any number of users, listeners and threads of stop(). `NoCircle` is what `StopHalts`
needs of safety: once a stop was asked for, some thread carries it on that waits for no
other thread. Its invariant `Handed` follows who has the stop in hand: a thread of
stop(), which leaves it to another one only if that one is further (`AlreadyStopping`),
and the hook from the first System.exit on.

*AntibotProofs.* All five properties that the run checks, for any number of
connections and names, every value of the limits, and whatever increments get lost.
`NickInv` says that between the two calls of a login the last nickname is the client's
own, or another one has crossed: `NicknameChecked`. `AccountsLimited` counts:
`NamesWithinLimit` is inductive with the types, as addNickname adds the name of a
connection that is from then on excepted, and AccountsCheck ends the exception only
within the limit, or takes the name out. `KnownNamesKept` needs of `KnownInv` that a
login under a known name adds nothing, so that while no whitelisted name is listed the
names without the others pending are within the limit. `RateLimited` is a
sum: `passed` and the connections that are counted and still to be checked are at most
`connectionsSecond` (`RateInv`), since whatever a late write or a late reset takes off
the counter it takes off `passed`. A connection passes only below the limit.
For `PromisesKept`, what the client was told and what is counted add up to the attempts
that are asked for (`ToldInv`); `told` being a number or `None`, the assumption on the
constants says that the two differ.

*RoutingProofs.* Handlers end in few ways (`Started`, `GivenUp`, `AttemptEnds`,
`BridgeEnds`), and two lemmas say of each handler which one it is (`AttemptSteps`,
`BridgeSteps`); `Slots(ph)` then says what any of them does to the connections. The
inductive invariant adds to the checked ones: while a Login is under way the client
is not gone and no connection is served (`JoinInv`, which is what makes
`OneLiveServer` and `GoneUserNeverJoins` hold); user.server is a connection that
joined, so that no failed attempt touches it (`ServerJoined`); a thread in the middle
of disconnect0 has closed the client's channel, and dimensionChange is set until the
first join (`ThreadsOK`, `NewIsFatal`, for `LostServerIsFatal`); and what is queued
for the server that is being joined came after the drain (`JoinDrained`, for
`PacketsLeave`). `PlayersMatchBridges` needs only that a connection with a channel has
a server (`Targets`), and types need it in turn: a count never falls below zero. That
the fallback order stays among the servers is `NextServerType`, for which the least
position is found with the library's theorem on finite sets. All for any number of
servers, connections and plugin threads, and whatever plugins and backends may do.
`NobodyStranded` says that `TcpUnresolved` alone strands an open client. It has a
hypothesis on the constants, `Answered`: plugins neither cancel nor retarget connects or
redirect kicks, no backend closes before the user joined, and no Kick calls the client
outdated, which are the cases the code does not answer (the run `routing_live` has the
same environment; the theorem lets names move as well). Its invariant `Held` says that
an open client that is not stranded has a live server, is joining one, or waits: has an
attempt under way and no failed one lying about, so that a fallback that is refused as
pending is one that is still going on. `GoneIsUnserved` holds in every environment: once
the client is gone no connection serves it, which leaves `NoLeak` to fairness alone.

*ThrottleProofs.* `Turns` says that a connection is counted once and taken out once.
With it the sum in `TypeOK` is inductive, `PassesBounded` follows step by step (who is
let in saw a counter within the limit, and who is answered gives a place back or adds
to `late`), and `RefusalDeserved` from the sum alone.

Model-checked only: liveness, as fairness and ENABLED are beyond the prover. These are
`ProceedsUnlessRaced`, `LoginResolves`, `JoinResolves`, `NoLeak`, `CancelledTasksEnd`,
`QueueDrains` and `StopHalts`; of all but `JoinResolves` and `CancelledTasksEnd` the
theorems above say the part that is a safety property, and `EntriesMatchFlags` and
`NeverStranded` are the invariants those two rest on. Every invariant and every action
property that a passing run checks is a theorem. The violations of section 5 are TLC's.

## 5. Findings

Three runs expect a violation, each of something a comment in the code says.

- `async_event_lost`: completeIntent reads `fired` before it decrements the latch;
  if postCall reads the latch in between, nobody runs the callback and the login
  hangs (AsyncEvent.java:82 against :46).
- `login_race`: two clients of one name pass the check of finish() before either is
  registered (InitialHandler.java:562).
- `shutdown_stuck`: `listeners` is a plain HashSet that the callbacks of bind change
  while stopListeners iterates it. The exception ends the thread that holds
  `shutdownLock`, and neither another stop() nor the shutdown hook, of which
  BungeeCord.java:509 says that it will obtain the lock, gets any further. (The comment
  speaks of the hook that System.exit starts once the lock is released; here the hook of
  a signal is never let in.)

## 6. Not modelled

- *Stateless code*: packet framing and codecs, entity id rewriting, chat components,
  query, logging, the commands but for /greload, /flamecord reload and the firewall
  command, which are actions of `Shutdown`, `CommandQueue` and `Antibot`. What they
  compute is a function of their input, and tests of examples say more about it.
- *Native code*: the repository's C files are the vendored libraries mbedtls and
  zlib, which the JNI classes call; the program's own logic is in Java, and the
  modules are about that. No module has a line of C.
- *Event bus, plugin manager*: register, unregister and bake work under one lock, and
  post reads one reference; loading is sequential, at the start.
- *Forge handshake*: two machines of one event loop, which pass packets on; the 1.7
  check that routes a joining user is in `Routing`.
- *Tab list*: one set for each user, used in that user's event loop only.
- *Configuration*: reload and updateServerIPs replace ServerInfo objects, which users
  and player lists may keep; a server is its name in `Routing`. The ping cache of
  BungeeServerInfo is a hazard without a model, and the file formats are out of scope.
- *Within modelled components*: PendingConnection.setUniqueId, plugin channels, the
  encryption itself (`Login`); packets that do not route the user, other than plugin messages to a server, and
  keep-alives (`Routing`); the checks of packets, chat, passwords, proxies and countries, whose
  counters are of one connection or lists that were loaded at the start, and the
  creation of an address's record (`Antibot`); forced hosts and the loading of the
  file (`Shutdown`).
- *Exceptions of others' code*: callbacks that plugins pass to events and connects are
  taken not to throw. Of a save the IOException is modelled, which the code catches; an
  unchecked exception of the YAML library would end the stopping thread with the lock
  held, as in `shutdown_stuck`.
- *Memory*: accesses are taken in some one order, although most fields are not volatile.
  Data races inside one call on an unsynchronised collection are below the steps of
  every module.
- `Routing`'s plugin threads begin to connect only once the login has handed the user
  over (`up # "new"`), which is when plugins can get hold of one.

## 7. What is left

Of models, `Login` composed with `AsyncEvent` (`tasks` implemented by the counters),
and several users on the lists of one server, would add most. Of proofs, an abstract
specification of `Routing` (a user is on one server at a time) and of `Scheduler` (a task
ends once), with the refinements that the invariants above are ready for.
