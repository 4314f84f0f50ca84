--------------------------- MODULE SchedulerProofs ---------------------------
(***************************************************************************)
(* Proofs about Scheduler, for any tasks, plugins and threads.             *)
(***************************************************************************)
EXTENDS Scheduler, TLAPS

USE TasksAssumption

-----------------------------------------------------------------------------
(* Facts about PluginOf and None *)

LEMMA PluginOfType ==
    /\ PluginOf \in [Callers -> Plugins]
    /\ \A t \in Tasks : PluginOf[t] = Owner[t]
    /\ \A p \in Plugins : PluginOf[p] = p
    /\ None \notin Tasks
    /\ None \notin Plugins
  BY DEF PluginOf, Callers

-----------------------------------------------------------------------------
(* Type correctness *)

\* Whoever returns from getExecutorService is handed a pool: the field is set
\* before its second read, and is never cleared.
HandedAPool ==
    \A c \in Callers :
        /\ at[c] = "fetch" => service[PluginOf[c]] # None
        /\ at[c] = "use" => got[c] # None

\* A step keeps the types: the shutdown of a pool needs a pool to be there.
LEMMA TypeStep ==
    ASSUME TypeOK, HandedAPool, [Next]_vars
    PROVE  TypeOK'
<1> USE PluginOfType DEF TypeOK, poolVars, taskVars, cancelVars, CallerStates,
        WorkerStates
<1>1. ASSUME NEW t \in Tasks, Scheduling(t) PROVE TypeOK'
  BY <1>1 DEF Scheduling, Put, Execute, Reject
<1>2. ASSUME NEW t \in Tasks, Work(t) PROVE TypeOK'
  <2>1. CASE Wake(t)
    BY <2>1 DEF Wake, WorkerGoes
  <2>2. CASE Check(t)
    BY <2>2 DEF Check, WorkerGoes
  <2>3. CASE Begin(t)
    BY <2>3 DEF Begin, WorkerGoes
  <2>4. CASE Finish(t)
    BY <2>4 DEF Finish, WorkerGoes
  <2>5. CASE CancelSelf(t)
    BY <2>5 DEF CancelSelf, WorkerGoes
  <2>6. CASE RemoveSelf(t)
    BY <2>6 DEF RemoveSelf, WorkerGoes
  <2> QED
    BY <1>2, <2>1, <2>2, <2>3, <2>4, <2>5, <2>6 DEF Work
<1>3. ASSUME NEW c \in Callers, FetchPool(c) PROVE TypeOK'
  BY <1>3 DEF FetchPool, Lookup, Create, Fetch
<1>4. ASSUME NEW c \in Cancellers, NEW t \in Tasks, Flip(c, t)
      PROVE  /\ running' \in [Tasks -> BOOLEAN]
             /\ removing' \in [Cancellers -> Tasks \cup {None}]
  BY <1>4 DEF Flip
<1>5. ASSUME NEW c \in Cancellers, Cancelling(c) PROVE TypeOK'
  <2>1. CASE CancelNext(c)
    <3> PICK t \in todo[c] : /\ Flip(c, t)
                             /\ todo' = [todo EXCEPT ![c] = @ \ {t}]
      BY <2>1 DEF CancelNext
    <3> t \in Tasks
      OBVIOUS
    <3> QED
      BY <1>4 DEF Flip
  <2>2. CASE Remove(c)
    BY <2>2 DEF Remove
  <2> QED
    BY <1>5, <2>1, <2>2 DEF Cancelling
<1>6. ASSUME NEW c \in Threads, NEW t \in Tasks, Cancel(c, t) PROVE TypeOK'
  BY <1>6, <1>4 DEF Cancel, Flip, Cancellers
<1>7. ASSUME NEW c \in Threads, NEW p \in Plugins, CancelPlugin(c, p)
      PROVE  TypeOK'
  BY <1>7 DEF CancelPlugin, Snapshot, Cancellers
<1>8. ASSUME NEW p \in Plugins, Stopping(p) PROVE TypeOK'
  BY <1>8 DEF Stopping, StopPlugin, StopPool, ShutdownNow, Snapshot, Callers,
              Cancellers, HandedAPool
<1>9. CASE UNCHANGED vars
  BY <1>9 DEF vars
<1> QED
  BY <1>1, <1>2, <1>3, <1>5, <1>6, <1>7, <1>8, <1>9 DEF Next

\* A step of getExecutorService leaves the caller with a pool to fetch or use.
LEMMA HandedStep ==
    ASSUME TypeOK, HandedAPool, [Next]_vars
    PROVE  HandedAPool'
<1> USE PluginOfType DEF TypeOK, HandedAPool, poolVars, cancelVars, taskVars
<1>1. ASSUME NEW t \in Tasks, Scheduling(t) PROVE HandedAPool'
  BY <1>1 DEF Scheduling, Put, Execute, Reject
<1>2. ASSUME NEW t \in Tasks, Work(t) PROVE HandedAPool'
  BY <1>2 DEF Work, Wake, Check, Begin, Finish, CancelSelf, RemoveSelf,
              WorkerGoes
<1>3. ASSUME NEW c \in Callers, FetchPool(c) PROVE HandedAPool'
  <2>1. CASE Lookup(c)
    BY <2>1 DEF Lookup
  <2>2. CASE Create(c)
    BY <2>2, TasksAssumption DEF Create
  <2>3. CASE Fetch(c)
    BY <2>3 DEF Fetch
  <2> QED
    BY <1>3, <2>1, <2>2, <2>3 DEF FetchPool
<1>4. ASSUME NEW c \in Cancellers, Cancelling(c) PROVE HandedAPool'
  BY <1>4 DEF Cancelling, CancelNext, Flip, Remove
<1>5. ASSUME NEW c \in Threads, NEW t \in Tasks, Cancel(c, t)
      PROVE  HandedAPool'
  BY <1>5 DEF Cancel, Flip
<1>6. ASSUME NEW c \in Threads, NEW p \in Plugins, CancelPlugin(c, p)
      PROVE  HandedAPool'
  BY <1>6 DEF CancelPlugin, Snapshot
<1>7. ASSUME NEW p \in Plugins, Stopping(p) PROVE HandedAPool'
  BY <1>7 DEF Stopping, StopPlugin, StopPool, ShutdownNow, Snapshot
<1>8. CASE UNCHANGED vars
  BY <1>8 DEF vars
<1> QED
  BY <1>1, <1>2, <1>3, <1>4, <1>5, <1>6, <1>7, <1>8 DEF Next

\* Types, and whoever comes out of getExecutorService holds a pool.
THEOREM TypeAndPools == Spec => [](TypeOK /\ HandedAPool)
<1>1. Init => TypeOK /\ HandedAPool
  BY DEF Init, TypeOK, HandedAPool, Callers, Cancellers, CallerStates,
         WorkerStates
<1>2. TypeOK /\ HandedAPool /\ [Next]_vars => (TypeOK /\ HandedAPool)'
  BY TypeStep, HandedStep
<1> QED
  BY <1>1, <1>2, PTL DEF Spec

\* Every variable keeps its type, whatever callers, workers and cancellers do.
THEOREM TypeCorrect == Spec => []TypeOK
  BY TypeAndPools, PTL

-----------------------------------------------------------------------------
(* At most one run after a cancel *)

\* A late run comes after the cancel, and uses up the one look at the flag that
\* came before it.
LateInv ==
    \A t \in Tasks :
        /\ late[t] <= 1
        /\ late[t] > 0 => ~running[t]
        /\ worker[t] = "begin" => late[t] = 0

\* Only the worker counts runs; a canceller only clears the flag.
LEMMA LateStep ==
    ASSUME TypeOK, LateInv, [Next]_vars
    PROVE  LateInv'
<1> USE DEF TypeOK, LateInv, poolVars, cancelVars, taskVars
<1>1. ASSUME NEW t \in Tasks, Scheduling(t) PROVE LateInv'
  BY <1>1 DEF Scheduling, Put, Execute, Reject
<1>2. ASSUME NEW t \in Tasks, Work(t) PROVE LateInv'
  <2> USE DEF WorkerGoes
  <2>1. CASE Wake(t)
    BY <2>1 DEF Wake
  <2>2. CASE Check(t)
    BY <2>2 DEF Check
  <2>3. CASE Begin(t)
    BY <2>3 DEF Begin
  <2>4. CASE Finish(t)
    BY <2>4 DEF Finish
  <2>5. CASE CancelSelf(t) \/ RemoveSelf(t)
    BY <2>5 DEF CancelSelf, RemoveSelf
  <2> QED
    BY <1>2, <2>1, <2>2, <2>3, <2>4, <2>5 DEF Work
<1>3. ASSUME NEW c \in Callers, FetchPool(c) PROVE LateInv'
  BY <1>3 DEF FetchPool, Lookup, Create, Fetch
<1>4. ASSUME NEW c \in Cancellers, NEW t \in Tasks, Flip(c, t) PROVE LateInv'
  BY <1>4 DEF Flip
<1>5. ASSUME NEW c \in Cancellers, Cancelling(c) PROVE LateInv'
  BY <1>5, <1>4 DEF Cancelling, CancelNext, Remove
<1>6. ASSUME NEW c \in Threads, NEW t \in Tasks, Cancel(c, t) PROVE LateInv'
  BY <1>6, <1>4 DEF Cancel, Cancellers
<1>7. ASSUME NEW c \in Threads, NEW p \in Plugins, CancelPlugin(c, p)
      PROVE  LateInv'
  BY <1>7 DEF CancelPlugin, Snapshot
<1>8. ASSUME NEW p \in Plugins, Stopping(p) PROVE LateInv'
  BY <1>8 DEF Stopping, StopPlugin, StopPool, ShutdownNow, Snapshot
<1>9. CASE UNCHANGED vars
  BY <1>9 DEF vars
<1> QED
  BY <1>1, <1>2, <1>3, <1>5, <1>6, <1>7, <1>8, <1>9 DEF Next

\* A cancelled task runs at most once more (BungeeTask.run, the gap between the
\* loop's condition and its body).
THEOREM LateRunIsSingle == Spec => []OneLateRun
<1>1. Init => LateInv
  BY DEF Init, LateInv
<1>2. TypeOK /\ LateInv /\ [Next]_vars => LateInv'
  BY LateStep
<1>3. LateInv => OneLateRun
  BY DEF LateInv, OneLateRun
<1> QED
  BY <1>1, <1>2, <1>3, TypeCorrect, PTL DEF Spec

-----------------------------------------------------------------------------
(* Shutdown and pools *)

\* Every pool in use was made for its plugin, and the shutdown closed the pool
\* it was handed.
PoolInv ==
    /\ \A p \in Plugins : service[p] # None =>
            service[p] \in made /\ PluginOf[service[p]] = p
    /\ \A c \in Callers : got[c] # None =>
            got[c] \in made /\ PluginOf[got[c]] = PluginOf[c]
    /\ \A p \in Plugins : at[p] = "down" => got[p] \in closed
    /\ LateStartNeedsTwoPools

\* A pool that takes a task after the shutdown is not the one that was closed.
LEMMA PoolStep ==
    ASSUME TypeOK, HandedAPool, PoolInv, [Next]_vars
    PROVE  PoolInv'
<1> USE PluginOfType DEF TypeOK, HandedAPool, PoolInv, LateStartNeedsTwoPools,
        poolVars, cancelVars, taskVars
<1>1. ASSUME NEW t \in Tasks, Scheduling(t) PROVE PoolInv'
  <2>1. CASE Put(t) \/ Reject(t)
    BY <2>1 DEF Put, Reject, Callers
  <2>2. CASE Execute(t)
    <3>1. /\ UNCHANGED <<service, got, closed, made>>
          /\ \A p \in Plugins : at'[p] = "down" => at[p] = "down"
      BY <2>2 DEF Execute, Callers
    <3>2. ASSUME at[Owner[t]] = "down"
          PROVE  /\ got[t] # got[Owner[t]]
                 /\ got[t] \in made /\ PluginOf[got[t]] = Owner[t]
                 /\ got[Owner[t]] \in made
                 /\ PluginOf[got[Owner[t]]] = Owner[t]
      <4>1. Owner[t] \in Plugins /\ t \in Callers /\ Owner[t] \in Callers
        BY DEF Callers
      <4>2. got[Owner[t]] \in closed /\ got[Owner[t]] # None
        BY <3>2, <4>1 DEF Callers
      <4>3. got[t] \notin closed /\ got[t] # None
        BY <2>2, <4>1 DEF Execute
      <4> QED
        BY <4>1, <4>2, <4>3
    <3>3. LateStartNeedsTwoPools'
      BY <2>2, <3>1, <3>2 DEF Execute
    <3> QED
      BY <3>1, <3>3
  <2> QED
    BY <1>1, <2>1, <2>2 DEF Scheduling
<1>2. ASSUME NEW t \in Tasks, Work(t) PROVE PoolInv'
  BY <1>2 DEF Work, Wake, Check, Begin, Finish, CancelSelf, RemoveSelf,
              WorkerGoes
<1>3. ASSUME NEW c \in Callers, FetchPool(c) PROVE PoolInv'
  <2>1. CASE Lookup(c)
    BY <2>1 DEF Lookup, Callers
  <2>2. CASE Create(c)
    BY <2>2 DEF Create, Callers
  <2>3. CASE Fetch(c)
    BY <2>3 DEF Fetch, Callers
  <2> QED
    BY <1>3, <2>1, <2>2, <2>3 DEF FetchPool
<1>4. ASSUME NEW c \in Cancellers, Cancelling(c) PROVE PoolInv'
  BY <1>4 DEF Cancelling, CancelNext, Flip, Remove
<1>5. ASSUME NEW c \in Threads, NEW t \in Tasks, Cancel(c, t) PROVE PoolInv'
  BY <1>5 DEF Cancel, Flip
<1>6. ASSUME NEW c \in Threads, NEW p \in Plugins, CancelPlugin(c, p)
      PROVE  PoolInv'
  BY <1>6 DEF CancelPlugin, Snapshot
<1>7. ASSUME NEW p \in Plugins, Stopping(p) PROVE PoolInv'
  BY <1>7 DEF Stopping, StopPlugin, StopPool, ShutdownNow, Snapshot, Callers
<1>8. CASE UNCHANGED vars
  BY <1>8 DEF vars
<1> QED
  BY <1>1, <1>2, <1>3, <1>4, <1>5, <1>6, <1>7, <1>8 DEF Next

\* Once the pool of a plugin is shut down, a task of it starts only if the race
\* in getExecutorService made the plugin two pools.
THEOREM LateStarts == Spec => []LateStartNeedsTwoPools
<1>1. Init => PoolInv
  BY DEF Init, PoolInv, LateStartNeedsTwoPools, Callers
<1>2. TypeOK /\ HandedAPool /\ PoolInv /\ [Next]_vars => PoolInv'
  BY PoolStep
<1>3. PoolInv => LateStartNeedsTwoPools
  BY DEF PoolInv
<1> QED
  BY <1>1, <1>2, <1>3, TypeAndPools, PTL DEF Spec

-----------------------------------------------------------------------------
(* The maps of the scheduler *)

\* What a task is before schedule() has put it into the maps.
Untouched(t) ==
    /\ t \notin registered
    /\ running[t]
    /\ worker[t] = "none"

\* At most one thread takes a task out of the maps: getAndSet has one winner.
OneRemover ==
    \A t \in Tasks, c \in Cancellers : removing[c] = t =>
        /\ ~running[t]
        /\ worker[t] # "remove"
        /\ \A d \in Cancellers : removing[d] = t => d = c

\* A task has a worker once schedule() returned, and where the worker is tells
\* what it did to the flag.
WorkerInv ==
    \A t \in Tasks :
        /\ worker[t] \in {"remove", "ended"} => ~running[t]
        /\ worker[t] = "none" <=> at[t] # "returned"

\* Nobody can name a task that is not in the maps yet.
Unreached ==
    \A t \in Tasks : at[t] = "new" =>
        /\ Untouched(t)
        /\ \A c \in Cancellers : t \notin todo[c] /\ removing[c] # t

EntryInv == Unreached /\ OneRemover /\ WorkerInv /\ EntriesMatchFlags

\* The getAndSet of a canceller: the winner is the only remover.
LEMMA FlipStep ==
    ASSUME TypeOK, EntryInv, NEW c \in Cancellers, NEW t \in Tasks,
           at[t] # "new", Flip(c, t),
           \A d \in Cancellers : todo'[d] \subseteq todo[d]
    PROVE  EntryInv'
<1> USE TasksAssumption DEF TypeOK, EntryInv, Untouched, poolVars
<1>1. Callers = Tasks \cup Plugins
  BY DEF Callers
<1>2. /\ UNCHANGED <<registered, worker, at>>
      /\ removing[c] = None
      /\ running' = [running EXCEPT ![t] = FALSE]
      /\ removing' = [removing EXCEPT ![c] = IF running[t] THEN t ELSE None]
  BY DEF Flip
<1>3. None \notin Tasks
  BY <1>1
<1>4. Unreached'
  BY <1>2, <1>3 DEF Unreached
<1>5. running[t] => worker[t] # "remove" /\ \A d \in Cancellers : removing[d] # t
  BY DEF OneRemover, WorkerInv
<1>6. OneRemover'
  BY <1>2, <1>3, <1>5 DEF OneRemover
<1>7. WorkerInv'
  BY <1>2 DEF WorkerInv
<1>8. ASSUME NEW u \in Tasks, u # t
      PROVE  BeingRemoved(u)' <=> BeingRemoved(u)
  BY <1>2, <1>3, <1>8 DEF BeingRemoved
<1>9. BeingRemoved(t)' <=> running[t] \/ BeingRemoved(t)
  BY <1>2, <1>3 DEF BeingRemoved
<1>10. EntriesMatchFlags'
  BY <1>2, <1>8, <1>9 DEF EntriesMatchFlags
<1> QED
  BY <1>4, <1>6, <1>7, <1>10

\* cancel0 by a canceller.
LEMMA RemoveStep ==
    ASSUME TypeOK, EntryInv, NEW c \in Cancellers, Remove(c)
    PROVE  EntryInv'
<1> USE TasksAssumption DEF TypeOK, EntryInv, Untouched, poolVars
<1>1. None \notin Tasks
  BY DEF Callers
<1> PICK t \in Tasks : removing[c] = t
  BY DEF Remove
<1>2. /\ registered' = registered \ {t}
      /\ removing' = [removing EXCEPT ![c] = None]
      /\ UNCHANGED <<running, worker, at, todo>>
  BY DEF Remove
<1>3. at[t] # "new" /\ ~running[t] /\ worker[t] # "remove"
      /\ \A d \in Cancellers : removing[d] = t => d = c
  BY <1>2 DEF Unreached, OneRemover
<1>4. Unreached'
  BY <1>1, <1>2 DEF Unreached
<1>5. OneRemover'
  BY <1>1, <1>2 DEF OneRemover
<1>6. WorkerInv'
  BY <1>2 DEF WorkerInv
<1>7. ~BeingRemoved(t)'
  BY <1>1, <1>2, <1>3 DEF BeingRemoved
<1>8. ASSUME NEW u \in Tasks, u # t
      PROVE  BeingRemoved(u)' <=> BeingRemoved(u)
  BY <1>1, <1>2, <1>8 DEF BeingRemoved
<1>9. EntriesMatchFlags'
  BY <1>2, <1>3, <1>7, <1>8 DEF EntriesMatchFlags
<1> QED
  BY <1>4, <1>5, <1>6, <1>9

\* The worker of a task, which ends with the same two accesses.
LEMMA WorkStep ==
    ASSUME TypeOK, EntryInv, NEW t \in Tasks, Work(t)
    PROVE  EntryInv'
<1> USE TasksAssumption DEF TypeOK, EntryInv, Untouched, poolVars, cancelVars,
        WorkerGoes
<1>1. t \in Callers /\ worker[t] # "none" /\ at[t] # "new"
  BY DEF Work, Wake, Check, Begin, Finish, CancelSelf, RemoveSelf, Unreached,
         Callers
<1>2. CASE Wake(t) \/ Check(t) \/ Begin(t) \/ Finish(t)
  <2>1. /\ UNCHANGED <<registered, running, at, todo, removing>>
        /\ \E w \in WorkerStates \ {"none", "remove", "ended"} :
               worker' = [worker EXCEPT ![t] = w]
        /\ worker[t] # "remove"
    BY <1>2 DEF Wake, Check, Begin, Finish, WorkerStates
  <2>2. \A u \in Tasks : BeingRemoved(u)' <=> BeingRemoved(u)
    BY <2>1 DEF BeingRemoved
  <2> QED
    BY <1>1, <2>1, <2>2 DEF Unreached, OneRemover, WorkerInv, EntriesMatchFlags
<1>3. CASE CancelSelf(t)
  <2>1. /\ UNCHANGED <<registered, at, todo, removing>>
        /\ worker[t] = "cancel"
        /\ running' = [running EXCEPT ![t] = FALSE]
        /\ worker' = [worker EXCEPT ![t] =
                        IF running[t] THEN "remove" ELSE "ended"]
    BY <1>3 DEF CancelSelf
  <2>2. Unreached' /\ WorkerInv'
    BY <1>1, <2>1 DEF Unreached, WorkerInv
  <2>3. OneRemover'
    BY <2>1 DEF OneRemover
  <2>4. ASSUME NEW u \in Tasks, u # t
        PROVE  BeingRemoved(u)' <=> BeingRemoved(u)
    BY <2>1, <2>4 DEF BeingRemoved
  <2>5. BeingRemoved(t)' <=> running[t] \/ BeingRemoved(t)
    BY <2>1 DEF BeingRemoved
  <2>6. EntriesMatchFlags'
    BY <2>1, <2>4, <2>5 DEF EntriesMatchFlags
  <2> QED
    BY <2>2, <2>3, <2>6
<1>4. CASE RemoveSelf(t)
  <2>1. /\ UNCHANGED <<running, at, todo, removing>>
        /\ worker[t] = "remove"
        /\ registered' = registered \ {t}
        /\ worker' = [worker EXCEPT ![t] = "ended"]
    BY <1>4 DEF RemoveSelf
  <2>2. ~running[t] /\ \A c \in Cancellers : removing[c] # t
    BY <2>1 DEF WorkerInv, OneRemover
  <2>3. Unreached' /\ WorkerInv' /\ OneRemover'
    BY <1>1, <2>1, <2>2 DEF Unreached, WorkerInv, OneRemover
  <2>4. ASSUME NEW u \in Tasks, u # t
        PROVE  BeingRemoved(u)' <=> BeingRemoved(u)
    BY <2>1, <2>4 DEF BeingRemoved
  <2>5. ~BeingRemoved(t)'
    BY <2>1, <2>2 DEF BeingRemoved
  <2>6. EntriesMatchFlags'
    BY <2>1, <2>2, <2>4, <2>5 DEF EntriesMatchFlags
  <2> QED
    BY <2>3, <2>6
<1> QED
  BY <1>2, <1>3, <1>4 DEF Work

\* The snapshot of cancel(Plugin) names tasks in the maps only.
LEMMA SnapshotStep ==
    ASSUME TypeOK, EntryInv, NEW c \in Cancellers, NEW p \in Plugins,
           Snapshot(c, p), \A t \in Tasks : at'[t] = at[t]
    PROVE  EntryInv'
<1> USE DEF TypeOK, EntryInv, Untouched
<1>1. /\ UNCHANGED <<registered, running, worker, removing>>
      /\ todo' = [todo EXCEPT ![c] = {t \in registered : Owner[t] = p}]
  BY DEF Snapshot, taskVars
<1>2. \A u \in Tasks : BeingRemoved(u)' <=> BeingRemoved(u)
  BY <1>1 DEF BeingRemoved
<1>3. Unreached'
  BY <1>1 DEF Unreached
<1> QED
  BY <1>1, <1>2, <1>3 DEF OneRemover, WorkerInv, EntriesMatchFlags

\* Every step.
LEMMA EntryStep ==
    ASSUME TypeOK, EntryInv, [Next]_vars
    PROVE  EntryInv'
<1> USE DEF TypeOK, Untouched, poolVars, cancelVars, taskVars
<1>1. ASSUME NEW t \in Tasks, Scheduling(t) PROVE EntryInv'
  <2> USE DEF EntryInv
  <2>1. t \in Callers
    BY DEF Callers
  <2>2. CASE Put(t)
    <3>1. \A u \in Tasks : BeingRemoved(u)' <=> BeingRemoved(u)
      BY <2>2 DEF Put, BeingRemoved
    <3>2. running[t] /\ worker[t] = "none"
      BY <2>2 DEF Put, Unreached
    <3> QED
      BY <2>1, <2>2, <3>1, <3>2 DEF Put, Unreached, OneRemover, WorkerInv,
         EntriesMatchFlags
  <2>3. CASE Execute(t)
    <3>1. worker[t] = "none"
      BY <2>3 DEF Execute, WorkerInv
    <3>2. \A u \in Tasks : BeingRemoved(u)' <=> BeingRemoved(u)
      BY <2>3, <3>1 DEF Execute, BeingRemoved
    <3> QED
      BY <2>1, <2>3, <3>1, <3>2 DEF Execute, Unreached, OneRemover, WorkerInv,
         EntriesMatchFlags
  <2>4. CASE Reject(t)
    <3>1. \A u \in Tasks : BeingRemoved(u)' <=> BeingRemoved(u)
      BY <2>4 DEF Reject, BeingRemoved
    <3> QED
      BY <2>1, <2>4, <3>1 DEF Reject, Unreached, OneRemover, WorkerInv,
         EntriesMatchFlags
  <2> QED
    BY <1>1, <2>2, <2>3, <2>4 DEF Scheduling
<1>2. ASSUME NEW t \in Tasks, Work(t) PROVE EntryInv'
  BY <1>2, WorkStep
<1>3. ASSUME UNCHANGED <<taskVars, todo, removing>>,
             \A t \in Tasks : /\ at'[t] = "new" <=> at[t] = "new"
                              /\ at'[t] = "returned" <=> at[t] = "returned"
      PROVE  EntryInv'
  <2>1. \A u \in Tasks : BeingRemoved(u)' <=> BeingRemoved(u)
    BY <1>3 DEF BeingRemoved
  <2> QED
    BY <1>3, <2>1 DEF EntryInv, Unreached, OneRemover, WorkerInv,
       EntriesMatchFlags
<1>4. ASSUME NEW c \in Callers, FetchPool(c) PROVE EntryInv'
  BY <1>4, <1>3, TasksAssumption DEF FetchPool, Lookup, Create, Fetch, Callers
<1>5. ASSUME NEW c \in Cancellers, Cancelling(c) PROVE EntryInv'
  <2>1. CASE CancelNext(c)
    <3>1. PICK t \in todo[c] : /\ Flip(c, t)
                               /\ todo' = [todo EXCEPT ![c] = @ \ {t}]
      BY <2>1 DEF CancelNext
    <3>2. t \in Tasks /\ at[t] # "new"
      BY <3>1 DEF EntryInv, Unreached
    <3>3. \A d \in Cancellers : todo'[d] \subseteq todo[d]
      BY <3>1
    <3> QED
      BY <3>1, <3>2, <3>3, FlipStep
  <2>2. CASE Remove(c)
    BY <2>2, RemoveStep
  <2> QED
    BY <1>5, <2>1, <2>2 DEF Cancelling
<1>6. ASSUME NEW c \in Threads, NEW t \in Tasks, Cancel(c, t) PROVE EntryInv'
  <2>1. c \in Cancellers /\ at[t] # "new"
    BY <1>6 DEF Cancel, Cancellers, EntryInv, Unreached
  <2>2. Flip(c, t) /\ \A d \in Cancellers : todo'[d] \subseteq todo[d]
    BY <1>6 DEF Cancel
  <2> QED
    BY <2>1, <2>2, FlipStep
<1>7. ASSUME NEW c \in Threads, NEW p \in Plugins, CancelPlugin(c, p)
      PROVE  EntryInv'
  <2>1. c \in Cancellers /\ Snapshot(c, p) /\ \A t \in Tasks : at'[t] = at[t]
    BY <1>7 DEF CancelPlugin, Cancellers
  <2> QED
    BY <2>1, SnapshotStep
<1>8. ASSUME NEW p \in Plugins, Stopping(p) PROVE EntryInv'
  <2>1. p \in Cancellers /\ p \in Callers /\ p \notin Tasks
    BY TasksAssumption DEF Cancellers, Callers
  <2>2. CASE StopPlugin(p)
    <3>1. Snapshot(p, p) /\ at' = [at EXCEPT ![p] = "cancelling"]
      BY <2>2 DEF StopPlugin
    <3>2. \A t \in Tasks : at'[t] = at[t]
      BY <2>1, <3>1
    <3> QED
      BY <2>1, <3>1, <3>2, SnapshotStep
  <2>3. CASE StopPool(p) \/ ShutdownNow(p)
    BY <2>1, <2>3, <1>3 DEF StopPool, ShutdownNow, Callers
  <2> QED
    BY <1>8, <2>2, <2>3 DEF Stopping
<1>9. CASE UNCHANGED vars
  BY <1>9, <1>3 DEF vars
<1> QED
  BY <1>1, <1>2, <1>4, <1>5, <1>6, <1>7, <1>8, <1>9 DEF Next

LEMMA EntryInductive == Spec => [](TypeOK /\ EntryInv)
<1>1. Init => EntryInv
  BY TasksAssumption DEF Init, EntryInv, Unreached, Untouched, OneRemover,
     WorkerInv, EntriesMatchFlags, Callers
<1>2. TypeOK /\ EntryInv /\ [Next]_vars => EntryInv'
  BY EntryStep
<1> QED
  BY <1>1, <1>2, TypeCorrect, PTL DEF Spec

\* The maps of BungeeScheduler hold exactly the tasks that are not cancelled
\* and those whose one remover is on its way, for any number of cancellers.
THEOREM MapsMatchFlags == Spec => []EntriesMatchFlags
<1>1. EntryInv => EntriesMatchFlags
  BY DEF EntryInv
<1> QED
  BY <1>1, EntryInductive, PTL

\* An entry that stays belongs to a task with a thread, or to one its pool
\* refused.
THEOREM OnlyRejectedEntriesStay == Spec => []EntriesAreAlive
<1>1. TypeOK /\ EntryInv => EntriesAreAlive
  BY DEF TypeOK, EntryInv, Unreached, WorkerInv, EntriesMatchFlags,
         EntriesAreAlive
<1> QED
  BY <1>1, EntryInductive, PTL
=============================================================================
