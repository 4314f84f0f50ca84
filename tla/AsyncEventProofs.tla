-------------------------- MODULE AsyncEventProofs --------------------------
(***************************************************************************)
(* AsyncEvent for any number of tasks and plugins: its counters count what *)
(* they are read as counting, so the callback runs at most once, never     *)
(* early, and every step is one of EventBarrier's.                         *)
(*                                                                         *)
(* The inductive invariant adds to the type what the atomics mean: latch   *)
(* is the number of tasks holding the event, a counter that was never      *)
(* overwritten the number of intents of its plugin, a task being           *)
(* registered has not started, and whoever is about to run the callback    *)
(* has seen the last holder go.                                            *)
(***************************************************************************)
EXTENDS AsyncEvent, FiniteSetTheorems, TLAPS

RegisterStates == {"registerGet", "registerCount", "registerLatch"}
Accepting == post \in {"handlers", "registerGet", "registerCount", "registerLatch"}

\* A task an intent is being registered for is idle, and it is nobody else's.
Registering ==
  /\ post \in RegisterStates => postNew \in Task /\ pc[postNew] = "idle"
  /\ post \notin RegisterStates => postNew = NoTask
  /\ \A t \in Task :
       /\ pc[t] \in RegisterStates =>
            new[t] \in Task /\ pc[new[t]] = "idle" /\ new[t] # postNew
       /\ pc[t] \notin RegisterStates => new[t] = NoTask
  /\ \A t, u \in Task : new[t] = new[u] /\ new[t] # NoTask => t = u

\* States in which a task's intent is counted for its plugin.
IntentStates == {"working", "registerGet", "registerCount", "registerLatch",
                 "completeCheck", "refused", "completeIntent"}

\* The intents of plugin p: of running tasks, and of tasks about to be counted
\* in the latch.
Counted(p) ==
  {t \in Task : /\ Owner[t] = p
                /\ \/ pc[t] \in IntentStates
                   \/ post = "registerLatch" /\ t = postNew
                   \/ \E u \in Task : pc[u] = "registerLatch" /\ t = new[u]}

\* A counter belongs to the plugin it is found under, and was put by one of its
\* registrations; a plugin with an intent has a counter; a task whose
\* registration put one is registered.
Objects ==
  /\ \A t \in Task : got[t] # NoTask => got[t] \in made /\ Owner[got[t]] = Owner[t]
  /\ \A p \in Plugin : intents[p] # NoTask => intents[p] \in made /\ Owner[intents[p]] = p
  /\ \A t \in made : intents[Owner[t]] # NoTask
  /\ \A t \in Task : t \in Counted(Owner[t]) => intents[Owner[t]] # NoTask
  /\ \A t \in Task : pc[t] \in {"completeCheck", "completeIntent"} => got[t] # NoTask
  /\ \A t \in made : pc[t] # "idle" \/ t \in Counted(Owner[t])

Counting ==
  /\ latch = Cardinality(Holders)
  /\ \A p \in Plugin : ~Overwritten(p) => CountOf(p) = Cardinality(Counted(p))

\* Whoever runs the callback, or has run it, comes after the last holder, and
\* is the only one.
Firing ==
  /\ fired <=> post = "returned"
  /\ \A t \in Task : pc[t] \in {"decrementFired", "callDone"} => fired
  /\ (post = "callDone" \/ done > 0 \/ \E t \in Task : pc[t] = "callDone") =>
       Holders = {} /\ ~Accepting /\ post # "postCall"
  /\ post = "callDone" => done = 0
  /\ \A t \in Task : pc[t] = "callDone" =>
       done = 0 /\ \A u \in Task : pc[u] = "callDone" => u = t
  /\ done <= 1

IInv ==
  /\ TypeOK /\ Registering /\ Objects /\ Counting /\ Firing
  /\ RefusedOnlyWhenOverwritten
-----------------------------------------------------------------------------
\* Cardinalities of sets of tasks that gain or lose one element.
LEMMA TasksFinite ==
  ASSUME NEW S \in SUBSET Task
  PROVE  /\ Cardinality(S) \in Nat
         /\ Cardinality(S) = 0 <=> S = {}
         /\ \A T \in SUBSET S : Cardinality(T) <= Cardinality(S)
<1>1. IsFiniteSet(S)
  BY TaskAssumption, FS_Subset
<1>2. \A T \in SUBSET S : Cardinality(T) <= Cardinality(S)
  BY <1>1, FS_Subset
<1>. QED
  BY <1>1, <1>2, FS_CardinalityType, FS_EmptySet

LEMMA AddTask ==
  ASSUME NEW S \in SUBSET Task, NEW t \in Task \ S
  PROVE  Cardinality(S \cup {t}) = Cardinality(S) + 1
<1>1. IsFiniteSet(S)
  BY TaskAssumption, FS_Subset
<1>. QED
  BY <1>1, FS_AddElement

LEMMA RemoveTask ==
  ASSUME NEW S \in SUBSET Task, NEW t \in S
  PROVE  Cardinality(S \ {t}) = Cardinality(S) - 1
<1>1. IsFiniteSet(S)
  BY TaskAssumption, FS_Subset
<1>. QED
  BY <1>1, FS_RemoveElement

-----------------------------------------------------------------------------
\* What each step does to the latch and to the tasks it counts.
Same == Holders' = Holders /\ latch' = latch

LatchOpens(t) ==
  t \in Task \ Holders /\ Holders' = Holders \cup {t} /\ latch' = latch + 1

LatchCloses(t) ==
  t \in Holders /\ Holders' = Holders \ {t} /\ latch' = latch - 1

LEMMA LatchEffect ==
  ASSUME TypeOK, Registering, Next
  PROVE  \/ Same
         \/ HandlerCountLatch /\ LatchOpens(postNew)
         \/ \E t \in Task : TaskCountLatch(t) /\ LatchOpens(new[t])
         \/ \E t \in Task : /\ TaskDecrementFired(t) \/ TaskDecrementUnfired(t)
                           /\ LatchCloses(t)
<1>. USE DEF TypeOK, Holders, LatchStates, Same
<1>1. CASE HandlerCountLatch
  BY <1>1 DEF HandlerCountLatch, LatchOpens, Registering, RegisterStates
<1>2. ASSUME NEW t \in Task, TaskCountLatch(t)
      PROVE  LatchOpens(new[t])
  BY <1>2 DEF TaskCountLatch, LatchOpens, Registering, RegisterStates
<1>3. ASSUME NEW t \in Task, TaskDecrementFired(t) \/ TaskDecrementUnfired(t)
      PROVE  LatchCloses(t)
  BY <1>3 DEF TaskDecrementFired, TaskDecrementUnfired, Goto, LatchCloses
<1>4. CASE \/ HandlerGetCounter \/ HandlerCountIntent \/ HandlersReturn
           \/ PostReadLatch \/ PostDone \/ PostSetFired
  BY <1>4 DEF HandlerGetCounter, HandlerCountIntent, HandlersReturn, PostReadLatch,
              PostDone, PostSetFired
<1>5. ASSUME NEW t \in Task, HandlerRegister(t)
      PROVE  Same
  BY <1>5 DEF HandlerRegister
<1>6. ASSUME NEW t \in Task,
             \/ TaskComplete(t) \/ TaskCheck(t) \/ TaskDecrementIntent(t)
             \/ TaskReadFired(t) \/ TaskDone(t) \/ TaskGetCounter(t) \/ TaskCountIntent(t)
      PROVE  Same
  BY <1>6 DEF TaskComplete, TaskCheck, TaskDecrementIntent, TaskReadFired, TaskDone,
              TaskGetCounter, TaskCountIntent, Goto
<1>7. ASSUME NEW t \in Task, NEW u \in Task, TaskRegister(t, u)
      PROVE  Same
  BY <1>7 DEF TaskRegister, Goto
<1>. QED
  BY <1>1, <1>2, <1>3, <1>4, <1>5, <1>6, <1>7 DEF Next, PostStep, RegisterStep, CompleteStep

\* What each step does to the intents counted for a plugin.  CountPuts and
\* CountAdds are what PutCounter and IncrementCounter do to the plugin of task n.
CountedSame == \A t \in Task : t \in Counted(Owner[t])' <=> t \in Counted(Owner[t])
CountedGains(n) ==
  /\ n \in Task /\ pc[n] = "idle" /\ n \notin Counted(Owner[n])
  /\ \A t \in Task : t \in Counted(Owner[t])' <=> t = n \/ t \in Counted(Owner[t])
CountedLoses(n) ==
  /\ n \in Task /\ n \in Counted(Owner[n])
  /\ \A t \in Task : t \in Counted(Owner[t])' <=> t # n /\ t \in Counted(Owner[t])

LEMMA CountedIs ==
  ASSUME NEW p \in Plugin
  PROVE  /\ Counted(p) = {t \in Task : Owner[t] = p /\ t \in Counted(Owner[t])}
         /\ Counted(p)' = {t \in Task : Owner[t] = p /\ t \in Counted(Owner[t])'}
  BY DEF Counted

\* Every step is one of four kinds for the counters.
CountersSame == CountedSame /\ UNCHANGED <<intents, count, made>>
CountersGain(n) == CountedGains(n) /\ (PutCounter(n) \/ IncrementCounter(n))
CountersLose(n) ==
  /\ CountedLoses(n) /\ pc[n] = "completeIntent"
  /\ count' = [count EXCEPT ![got[n]] = @ - 1]
  /\ UNCHANGED <<intents, made>>

LEMMA CountersEffect ==
  ASSUME TypeOK, Registering, Next
  PROVE  CountersSame \/ \E n \in Task : CountersGain(n) \/ CountersLose(n)
<1>. USE OwnerAssumption
     DEF TypeOK, Counted, IntentStates, Registering, RegisterStates
<1>1. HandlerCountIntent => CountersGain(postNew)
  <2>1. HandlerCountIntent => CountedGains(postNew)
    BY DEF HandlerCountIntent, CountedGains
  <2>. QED
    BY <2>1 DEF HandlerCountIntent, CountersGain
<1>2. CASE HandlerCountLatch
  BY <1>2 DEF HandlerCountLatch, CountersSame, CountedSame, counters
<1>3. ASSUME NEW t \in Task, TaskCountIntent(t)
      PROVE  CountersGain(new[t])
  <2>. DEFINE n == new[t]
  <2>1. n \in Task /\ pc[n] = "idle" /\ n # postNew /\ \A u \in Task : new[u] = n => u = t
    BY <1>3, TaskAssumption DEF TaskCountIntent, Goto
  <2>2. /\ pc[t] = "registerCount" /\ pc' = [pc EXCEPT ![t] = "registerLatch"]
        /\ UNCHANGED <<post, postNew, new>>
    BY <1>3 DEF TaskCountIntent, Goto
  <2>3. n \notin Counted(Owner[n])
    BY <2>1, <2>2
  <2>4. ASSUME NEW u \in Task
        PROVE  (\E v \in Task : pc'[v] = "registerLatch" /\ u = new[v])
                 <=> (u = n \/ \E v \in Task : pc[v] = "registerLatch" /\ u = new[v])
    BY <2>2
  <2>5. \A u \in Task : pc'[u] \in IntentStates <=> pc[u] \in IntentStates
    BY <2>2
  <2>6. CountedGains(n)
    BY <2>1, <2>2, <2>3, <2>4, <2>5 DEF CountedGains
  <2>. QED
    BY <1>3, <2>6 DEF TaskCountIntent, CountersGain
<1>4. ASSUME NEW t \in Task, TaskCountLatch(t)
      PROVE  CountersSame
  BY <1>4 DEF TaskCountLatch, CountersSame, CountedSame, counters
<1>5. ASSUME NEW t \in Task, TaskDecrementIntent(t)
      PROVE  CountersLose(t)
  BY <1>5 DEF TaskDecrementIntent, Goto, CountersLose, CountedLoses
<1>6. CASE HandlerGetCounter \/ HandlersReturn \/ PostReadLatch \/ PostDone \/ PostSetFired
  BY <1>6 DEF HandlerGetCounter, GetCounter, HandlersReturn, PostReadLatch, PostDone,
              PostSetFired, CountersSame, CountedSame, counters
<1>7. ASSUME NEW t \in Task, HandlerRegister(t)
      PROVE  CountersSame
  BY <1>7 DEF HandlerRegister, CountersSame, CountedSame, counters
<1>8. ASSUME NEW t \in Task,
             \/ TaskComplete(t) \/ TaskCheck(t) \/ TaskReadFired(t) \/ TaskDecrementFired(t)
             \/ TaskDecrementUnfired(t) \/ TaskDone(t) \/ TaskGetCounter(t)
      PROVE  CountersSame
  BY <1>8 DEF TaskComplete, TaskCheck, TaskReadFired, TaskDecrementFired,
              TaskDecrementUnfired, TaskDone, TaskGetCounter, GetCounter, Goto,
              CountersSame, CountedSame, counters
<1>9. ASSUME NEW t \in Task, NEW u \in Task, TaskRegister(t, u)
      PROVE  CountersSame
  BY <1>9 DEF TaskRegister, Goto, CountersSame, CountedSame, counters
<1>10. HandlerCountIntent => postNew \in Task
  BY DEF HandlerCountIntent
<1>11. \A t \in Task : TaskCountIntent(t) => new[t] \in Task
  BY DEF TaskCountIntent, Goto
<1>. HIDE DEF TypeOK, Counted, IntentStates, Registering, RegisterStates
<1>. QED
  BY <1>1, <1>2, <1>3, <1>4, <1>5, <1>6, <1>7, <1>8, <1>9, <1>10, <1>11
     DEF Next, PostStep, RegisterStep, CompleteStep

-----------------------------------------------------------------------------
\* Counters stay with their plugins.
LEMMA ObjectsInductive ==
  ASSUME TypeOK, Registering, Objects, Next
  PROVE  Objects'
<1>. USE TaskAssumption, OwnerAssumption
<1>. DEFINE
       Kept ==
         /\ \A p \in Plugin : intents'[p] # NoTask => intents'[p] \in made' /\ Owner[intents'[p]] = p
         /\ \A t \in made' : intents'[Owner[t]] # NoTask
         /\ \A t \in Task : t \in Counted(Owner[t])' => intents'[Owner[t]] # NoTask
         /\ made \in SUBSET made'
       Fetched == \A t \in Task : pc'[t] \in {"completeCheck", "completeIntent"} => got'[t] # NoTask
<1>1. Kept
  <2>1. CASE CountersSame
    BY <2>1 DEF TypeOK, Objects, CountersSame, CountedSame
  <2>2. ASSUME NEW n \in Task, CountedGains(n), PutCounter(n)
        PROVE  Kept
    BY <2>2 DEF TypeOK, Objects, CountedGains, PutCounter
  <2>3. ASSUME NEW n \in Task, CountedGains(n), IncrementCounter(n)
        PROVE  Kept
    BY <2>3 DEF TypeOK, Objects, CountedGains, IncrementCounter
  <2>4. ASSUME NEW n \in Task, CountersLose(n)
        PROVE  Kept
    BY <2>4 DEF TypeOK, Objects, CountersLose, CountedLoses
  <2>. HIDE DEF Kept
  <2>. QED
    BY <2>1, <2>2, <2>3, <2>4, CountersEffect DEF CountersGain
<1>2. \/ got' = got
      \/ \E n \in Task : GetCounter(n)
  BY DEF Next, PostStep, RegisterStep, CompleteStep, HandlerGetCounter, HandlerCountIntent,
         PutCounter, IncrementCounter, HandlerCountLatch, HandlersReturn, PostReadLatch,
         PostDone, PostSetFired, HandlerRegister, TaskComplete, TaskCheck,
         TaskDecrementIntent, TaskReadFired, TaskDecrementFired, TaskDecrementUnfired,
         TaskDone, TaskGetCounter, TaskCountIntent, TaskCountLatch, TaskRegister, counters,
         Registering, RegisterStates, Goto
<1>3. \A t \in Task : got'[t] # NoTask => got'[t] \in made' /\ Owner[got'[t]] = Owner[t]
  BY <1>1, <1>2 DEF TypeOK, Objects, GetCounter
<1>4. Fetched
  <2>1. ASSUME NEW t \in Task, TaskComplete(t)
        PROVE  Fetched
    <3>1. t \in Counted(Owner[t])
      BY <2>1 DEF TaskComplete, Goto, Counted, IntentStates
    <3>2. intents[Owner[t]] # NoTask
      BY <3>1 DEF Objects
    <3>3. /\ pc' = [pc EXCEPT ![t] = "completeCheck"]
          /\ got' = [got EXCEPT ![t] = intents[Owner[t]]]
      BY <2>1 DEF TaskComplete, Goto, GetCounter
    <3>4. /\ pc \in [Task -> TaskStates] /\ got \in [Task -> Task \cup {NoTask}]
          /\ \A u \in Task : pc[u] \in {"completeCheck", "completeIntent"} => got[u] # NoTask
      BY DEF TypeOK, Objects
    <3>. QED
      BY <3>2, <3>3, <3>4
  <2>2. CASE HandlerGetCounter
    BY <2>2 DEF HandlerGetCounter, GetCounter, TypeOK, Objects, Registering, RegisterStates
  <2>3. ASSUME NEW t \in Task, TaskGetCounter(t)
        PROVE  Fetched
    <3>1. pc[t] = "registerGet" /\ pc' = [pc EXCEPT ![t] = "registerCount"]
          /\ got' = [got EXCEPT ![new[t]] = intents[Owner[new[t]]]]
          /\ pc[new[t]] = "idle"
      BY <2>3 DEF TaskGetCounter, Goto, GetCounter, Registering, RegisterStates
    <3>2. /\ pc \in [Task -> TaskStates] /\ got \in [Task -> Task \cup {NoTask}]
          /\ \A u \in Task : pc[u] \in {"completeCheck", "completeIntent"} => got[u] # NoTask
      BY DEF TypeOK, Objects
    <3>3. new[t] \in Task
      BY <2>3 DEF TaskGetCounter, Goto, Registering, RegisterStates
    <3>. QED
      BY <3>1, <3>2, <3>3
  <2>4. CASE got' = got /\ \A t \in Task : ~TaskComplete(t)
    <3>1. \A t \in Task : pc'[t] \in {"completeCheck", "completeIntent"} =>
                         pc[t] \in {"completeCheck", "completeIntent"}
      BY <2>4 DEF Next, PostStep, RegisterStep, CompleteStep, HandlerGetCounter,
         HandlerCountIntent, HandlerCountLatch, HandlersReturn, PostReadLatch,
         PostDone, PostSetFired, HandlerRegister, TaskComplete, TaskCheck,
         TaskDecrementIntent, TaskReadFired, TaskDecrementFired, TaskDecrementUnfired,
         TaskDone, TaskGetCounter, TaskCountIntent, TaskCountLatch, TaskRegister, Goto, TypeOK
    <3>. QED
      BY <2>4, <3>1 DEF Objects
  <2>5. \/ got' = got \/ HandlerGetCounter
        \/ \E t \in Task : TaskGetCounter(t) \/ TaskComplete(t)
    BY DEF Next, PostStep, RegisterStep, CompleteStep, HandlerCountIntent,
         PutCounter, IncrementCounter, HandlerCountLatch, HandlersReturn, PostReadLatch,
         PostDone, PostSetFired, HandlerRegister, TaskCheck,
         TaskDecrementIntent, TaskReadFired, TaskDecrementFired, TaskDecrementUnfired,
         TaskDone, TaskCountIntent, TaskCountLatch, TaskRegister, counters
  <2>. HIDE DEF Fetched
  <2>. QED
    BY <2>1, <2>2, <2>3, <2>4, <2>5
<1>5. ASSUME NEW t \in made'
      PROVE  pc'[t] # "idle" \/ t \in Counted(Owner[t])'
  <2>1. \A u \in Task : pc[u] # "idle" => pc'[u] # "idle"
    BY DEF Next, PostStep, RegisterStep, CompleteStep, HandlerGetCounter,
         HandlerCountIntent, HandlerCountLatch, HandlersReturn, PostReadLatch,
         PostDone, PostSetFired, HandlerRegister, TaskComplete, TaskCheck,
         TaskDecrementIntent, TaskReadFired, TaskDecrementFired, TaskDecrementUnfired,
         TaskDone, TaskGetCounter, TaskCountIntent, TaskCountLatch, TaskRegister, Goto, TypeOK
  <2>2. CASE CountersSame
    BY <2>1, <2>2 DEF CountersSame, CountedSame, Objects, TypeOK
  <2>3. ASSUME NEW n \in Task, CountedGains(n), PutCounter(n) \/ IncrementCounter(n)
        PROVE  pc'[t] # "idle" \/ t \in Counted(Owner[t])'
    BY <2>1, <2>3 DEF CountedGains, PutCounter, IncrementCounter, Objects, TypeOK
  <2>4. ASSUME NEW n \in Task, CountersLose(n)
        PROVE  pc'[t] # "idle" \/ t \in Counted(Owner[t])'
    BY <2>1, <2>4 DEF CountersLose, CountedLoses, Objects, TypeOK
  <2>. QED
    BY <2>2, <2>3, <2>4, CountersEffect DEF CountersGain
<1>. QED
  BY <1>1, <1>3, <1>4, <1>5 DEF Objects

-----------------------------------------------------------------------------
\* The latch keeps counting.
LEMMA LatchInductive ==
  ASSUME TypeOK, Registering, Counting, Next
  PROVE  latch' = Cardinality(Holders')
<1>1. Holders \in SUBSET Task
  BY DEF Holders
<1>2. latch = Cardinality(Holders)
  BY DEF Counting
<1>. QED
  BY <1>1, <1>2, LatchEffect, AddTask, RemoveTask DEF Same, LatchOpens, LatchCloses

\* A counter that was never overwritten keeps counting: it is the only one of its
\* plugin, so whoever fetched a counter fetched this one.
LEMMA CountingInductive ==
  ASSUME TypeOK, Registering, Objects, Counting, Next
  PROVE  Counting'
<1>. USE TaskAssumption, OwnerAssumption
<1>1. ASSUME NEW p \in Plugin, ~Overwritten(p)'
      PROVE  CountOf(p)' = Cardinality(Counted(p)')
  <2>1. made \in SUBSET made'
    BY CountersEffect DEF CountersSame, CountersGain, CountersLose, PutCounter, IncrementCounter
  <2>2. ~Overwritten(p)
    BY <1>1, <2>1 DEF Overwritten
  <2>3. CountOf(p) = Cardinality(Counted(p)) /\ Counted(p) \in SUBSET Task
    BY <2>2 DEF Counting, Counted
  <2>4. CASE CountersSame
    BY <2>3, <2>4, CountedIs DEF CountersSame, CountedSame, CountOf
  <2>5. ASSUME NEW n \in Task, Owner[n] # p, CountersGain(n) \/ CountersLose(n)
        PROVE  CountOf(p)' = Cardinality(Counted(p)')
    <3>1. Counted(p)' = Counted(p)
      BY <2>5, CountedIs DEF CountersGain, CountersLose, CountedGains, CountedLoses
    <3>2. CountOf(p)' = CountOf(p)
      <4>1. CASE CountersGain(n) /\ PutCounter(n)
        <5>1. n \notin made
          <6>1. pc[n] = "idle" /\ n \notin Counted(Owner[n])
            BY <4>1 DEF CountersGain, CountedGains
          <6>. QED
            BY <6>1 DEF Objects
        <5>2. intents' = [intents EXCEPT ![Owner[n]] = n] /\ count' = [count EXCEPT ![n] = 1]
          BY <4>1 DEF PutCounter
        <5>3. intents'[p] = intents[p]
          BY <2>5, <5>2 DEF TypeOK
        <5>4. intents[p] # NoTask => intents[p] \in made /\ count'[intents[p]] = count[intents[p]]
          BY <5>1, <5>2 DEF TypeOK, Objects
        <5>. QED
          BY <5>3, <5>4 DEF CountOf
      <4>2. CASE CountersGain(n) /\ IncrementCounter(n)
        BY <2>5, <4>2 DEF IncrementCounter, CountOf, TypeOK, Objects
      <4>3. CASE CountersLose(n)
        BY <2>5, <4>3 DEF CountersLose, CountOf, TypeOK, Objects
      <4>. QED
        BY <2>5, <4>1, <4>2, <4>3 DEF CountersGain
    <3>. QED
      BY <2>3, <3>1, <3>2
  <2>6. ASSUME NEW n \in Task, Owner[n] = p, CountersGain(n)
        PROVE  CountOf(p)' = Cardinality(Counted(p)')
    <3>1. n \in Task \ Counted(p) /\ Counted(p)' = Counted(p) \cup {n}
      BY <2>6, CountedIs DEF CountersGain, CountedGains
    <3>2. CASE PutCounter(n)
      <4>1. n \in made' /\ intents'[p] = n /\ count'[n] = 1
        BY <2>6, <3>2 DEF PutCounter, TypeOK
      <4>2. intents[p] = NoTask
        <5>1. SUFFICES ASSUME intents[p] # NoTask PROVE FALSE
          OBVIOUS
        <5>2. intents[p] \in made /\ Owner[intents[p]] = p
          BY <5>1 DEF Objects
        <5>3. intents[p] = n
          BY <1>1, <2>1, <2>6, <4>1, <5>2 DEF Overwritten
        <5>4. FALSE
          <6>1. pc[n] = "idle" /\ n \notin Counted(Owner[n])
            BY <2>6 DEF CountersGain, CountedGains
          <6>. QED
            BY <5>2, <5>3, <6>1 DEF Objects
        <5>. QED
          BY <5>4
      <4>3. CountOf(p) = 0 /\ CountOf(p)' = 1
        BY <4>1, <4>2 DEF CountOf
      <4>4. CountOf(p)' = CountOf(p) + 1
        BY <4>3
      <4>. QED
        BY <2>3, <3>1, <4>4, AddTask
    <3>3. CASE IncrementCounter(n)
      <4>1. got[n] \in made /\ intents[p] \in made /\ Owner[got[n]] = p /\ Owner[intents[p]] = p
        BY <2>6, <3>3 DEF IncrementCounter, Objects
      <4>2. got[n] = intents[p]
        BY <2>2, <4>1 DEF Overwritten
      <4>3. CountOf(p)' = CountOf(p) + 1
        BY <3>3, <4>1, <4>2 DEF IncrementCounter, CountOf, TypeOK
      <4>. QED
        BY <2>3, <3>1, <4>3, AddTask
    <3>. QED
      BY <2>6, <3>2, <3>3 DEF CountersGain
  <2>7. ASSUME NEW n \in Task, Owner[n] = p, CountersLose(n)
        PROVE  CountOf(p)' = Cardinality(Counted(p)')
    <3>1. n \in Counted(p) /\ Counted(p)' = Counted(p) \ {n}
      BY <2>7, CountedIs DEF CountersLose, CountedLoses
    <3>2. got[n] \in made /\ intents[p] \in made /\ Owner[got[n]] = p /\ Owner[intents[p]] = p
      BY <2>7 DEF CountersLose, Objects
    <3>3. got[n] = intents[p]
      BY <2>2, <3>2 DEF Overwritten
    <3>4. CountOf(p)' = CountOf(p) - 1
      BY <2>7, <3>2, <3>3 DEF CountersLose, CountOf, TypeOK
    <3>. QED
      BY <2>3, <3>1, <3>4, RemoveTask
  <2>. QED
    BY <2>4, <2>5, <2>6, <2>7, CountersEffect
<1>. QED
  BY <1>1, LatchInductive DEF Counting

\* A refused completion found its plugin's counter used up, although its own
\* intent was to be counted there: that is no counter that counts.
LEMMA RefusedInductive ==
  ASSUME TypeOK, Registering, Objects, Counting, RefusedOnlyWhenOverwritten, Next
  PROVE  RefusedOnlyWhenOverwritten'
<1>. USE TaskAssumption, OwnerAssumption
<1>1. made \in SUBSET made'
  BY CountersEffect DEF CountersSame, CountersGain, CountersLose, PutCounter, IncrementCounter
<1>2. ASSUME NEW t \in Task, TaskCheck(t), pc'[t] = "refused"
      PROVE  Overwritten(Owner[t])
  <2>. DEFINE p == Owner[t]
  <2>. SUFFICES ASSUME ~Overwritten(p) PROVE FALSE
    OBVIOUS
  <2>1. pc[t] = "completeCheck" /\ ~(got[t] # NoTask /\ count[got[t]] > 0)
    BY <1>2 DEF TaskCheck, Goto, TypeOK
  <2>2. t \in Counted(p) /\ Counted(p) \in SUBSET Task /\ p \in Plugin
    BY <2>1 DEF Counted, IntentStates
  <2>3. got[t] \in made /\ Owner[got[t]] = p /\ intents[p] \in made /\ Owner[intents[p]] = p
    BY <2>1, <2>2 DEF Objects
  <2>4. got[t] = intents[p]
    BY <2>3 DEF Overwritten
  <2>5. CountOf(p) = count[got[t]] /\ count[got[t]] \in Int /\ ~(count[got[t]] > 0)
    BY <2>1, <2>3, <2>4 DEF CountOf, TypeOK
  <2>6. Cardinality(Counted(p)) \in Nat /\ Cardinality(Counted(p)) # 0
    BY <2>2, TasksFinite
  <2>7. CountOf(p) = Cardinality(Counted(p))
    BY <2>2 DEF Counting
  <2>. QED
    BY <2>5, <2>6, <2>7
<1>3. \A t \in Task : pc'[t] = "refused" => pc[t] = "refused" \/ TaskCheck(t)
  BY DEF Next, PostStep, RegisterStep, CompleteStep, HandlerGetCounter,
         HandlerCountIntent, HandlerCountLatch, HandlersReturn, PostReadLatch,
         PostDone, PostSetFired, HandlerRegister, TaskComplete, TaskCheck,
         TaskDecrementIntent, TaskReadFired, TaskDecrementFired, TaskDecrementUnfired,
         TaskDone, TaskGetCounter, TaskCountIntent, TaskCountLatch, TaskRegister, Goto, TypeOK
<1>4. \A t \in Task : Overwritten(Owner[t]) => Overwritten(Owner[t])'
  BY <1>1 DEF Overwritten
<1>. QED
  BY <1>2, <1>3, <1>4 DEF RefusedOnlyWhenOverwritten

LEMMA RegisteringInductive ==
  ASSUME TypeOK, Registering, Next
  PROVE  Registering'
<1>. USE TaskAssumption DEF TypeOK, Registering, RegisterStates
<1>1. CASE HandlerGetCounter \/ HandlerCountIntent
  BY <1>1 DEF HandlerGetCounter, HandlerCountIntent
<1>2. CASE HandlerCountLatch
  BY <1>2 DEF HandlerCountLatch
<1>3. CASE HandlersReturn \/ PostReadLatch \/ PostDone \/ PostSetFired
  BY <1>3 DEF HandlersReturn, PostReadLatch, PostDone, PostSetFired
<1>4. ASSUME NEW t \in Task, HandlerRegister(t)
      PROVE  Registering'
  BY <1>4 DEF HandlerRegister, Claimed
<1>5. ASSUME NEW t \in Task,
             \/ TaskComplete(t) \/ TaskCheck(t) \/ TaskDecrementIntent(t) \/ TaskReadFired(t)
             \/ TaskDecrementFired(t) \/ TaskDecrementUnfired(t) \/ TaskDone(t)
      PROVE  Registering'
  BY <1>5 DEF TaskComplete, TaskCheck, TaskDecrementIntent, TaskReadFired, TaskDecrementFired,
              TaskDecrementUnfired, TaskDone, Goto
<1>6. ASSUME NEW t \in Task, TaskGetCounter(t) \/ TaskCountIntent(t)
      PROVE  Registering'
  BY <1>6 DEF TaskGetCounter, TaskCountIntent, Goto
<1>7. ASSUME NEW t \in Task, TaskCountLatch(t)
      PROVE  Registering'
  BY <1>7 DEF TaskCountLatch
<1>8. ASSUME NEW t \in Task, NEW u \in Task, TaskRegister(t, u)
      PROVE  Registering'
  BY <1>8 DEF TaskRegister, Goto, Claimed
<1>. QED
  BY <1>1, <1>2, <1>3, <1>4, <1>5, <1>6, <1>7, <1>8 DEF Next, PostStep, RegisterStep, CompleteStep

LEMMA FiringInductive ==
  ASSUME TypeOK, Registering, Counting, Firing, Next
  PROVE  Firing'
<1>. USE DEF TypeOK, Firing, Accepting, Holders, LatchStates
<1>0. latch = 0 <=> Holders = {}
  BY TasksFinite DEF Counting
<1>1. CASE HandlerGetCounter \/ HandlerCountIntent
  BY <1>1 DEF HandlerGetCounter, HandlerCountIntent
<1>2. CASE HandlerCountLatch
  BY <1>2 DEF HandlerCountLatch
<1>3. CASE HandlersReturn
  BY <1>3 DEF HandlersReturn
<1>4. CASE PostReadLatch
  BY <1>0, <1>4 DEF PostReadLatch
<1>5. CASE PostDone
  BY <1>5 DEF PostDone
<1>6. CASE PostSetFired
  BY <1>6 DEF PostSetFired
<1>7. ASSUME NEW t \in Task, HandlerRegister(t)
      PROVE  Firing'
  BY <1>7 DEF HandlerRegister
<1>8. ASSUME NEW t \in Task,
             \/ TaskComplete(t) \/ TaskCheck(t) \/ TaskDecrementIntent(t)
             \/ TaskReadFired(t) \/ TaskDecrementUnfired(t) \/ TaskGetCounter(t)
             \/ TaskCountIntent(t)
      PROVE  Firing'
  BY <1>8 DEF TaskComplete, TaskCheck, TaskDecrementIntent, TaskReadFired,
              TaskDecrementUnfired, TaskGetCounter, TaskCountIntent, Goto
<1>9. ASSUME NEW t \in Task, TaskDecrementFired(t)
      PROVE  Firing'
  <2>1. t \in Holders /\ pc' = [pc EXCEPT ![t] = IF latch - 1 = 0 THEN "callDone" ELSE "finished"]
        /\ UNCHANGED <<fired, post, done>> /\ fired
    BY <1>9 DEF TaskDecrementFired, Goto
  <2>2. Holders' = Holders \ {t} /\ latch' = latch - 1
    BY <1>9 DEF TaskDecrementFired, Goto
  <2>3. latch' = 0 <=> Holders' = {}
    BY LatchInductive, TasksFinite
  <2>4. done = 0 /\ post = "returned" /\ \A u \in Task : pc[u] # "callDone"
    BY <2>1
  <2>. QED
    BY <2>1, <2>2, <2>3, <2>4
<1>10. ASSUME NEW t \in Task, TaskDone(t)
       PROVE  Firing'
  BY <1>10 DEF TaskDone, Goto
<1>11. ASSUME NEW t \in Task, TaskCountLatch(t)
       PROVE  Firing'
  BY <1>11 DEF TaskCountLatch, Registering, RegisterStates
<1>12. ASSUME NEW t \in Task, NEW u \in Task, TaskRegister(t, u)
       PROVE  Firing'
  BY <1>12 DEF TaskRegister, Goto
<1>. QED
  BY <1>1, <1>2, <1>3, <1>4, <1>5, <1>6, <1>7, <1>8, <1>9, <1>10, <1>11, <1>12
     DEF Next, PostStep, RegisterStep, CompleteStep

LEMMA TypeInductive ==
  ASSUME TypeOK, Registering, Counting, Next
  PROVE  TypeOK'
<1>1. latch' \in Nat
  <2>1. Holders' \in SUBSET Task
    BY DEF Holders
  <2>. QED
    BY <2>1, LatchInductive, TasksFinite
<1>2. /\ intents' \in [Plugin -> Task \cup {NoTask}]
      /\ count' \in [Task -> Int] /\ made' \in SUBSET Task
  BY CountersEffect DEF TypeOK, CountersSame, CountersGain, CountersLose, CountedGains,
                        PutCounter, IncrementCounter
<1>. USE OwnerAssumption DEF TypeOK, PostStates, TaskStates, Goto
<1>3. got' \in [Task -> Task \cup {NoTask}]
  BY DEF Next, PostStep, RegisterStep, CompleteStep, HandlerGetCounter, HandlerCountIntent,
         HandlerCountLatch, HandlersReturn, PostReadLatch, PostDone, PostSetFired,
         HandlerRegister, TaskComplete, TaskCheck, TaskDecrementIntent, TaskReadFired,
         TaskDecrementFired, TaskDecrementUnfired, TaskDone, TaskGetCounter,
         TaskCountIntent, TaskCountLatch, TaskRegister,
         PutCounter, IncrementCounter, GetCounter, counters, Registering, RegisterStates
<1>4. post' \in PostStates /\ fired' \in BOOLEAN
  BY DEF Next, PostStep, RegisterStep, CompleteStep, HandlerGetCounter, HandlerCountIntent,
         HandlerCountLatch, HandlersReturn, PostReadLatch, PostDone, PostSetFired,
         HandlerRegister, TaskComplete, TaskCheck, TaskDecrementIntent, TaskReadFired,
         TaskDecrementFired, TaskDecrementUnfired, TaskDone, TaskGetCounter,
         TaskCountIntent, TaskCountLatch, TaskRegister
<1>5. done' \in {done, done + 1}
  BY DEF Next, PostStep, RegisterStep, CompleteStep, HandlerGetCounter, HandlerCountIntent,
         HandlerCountLatch, HandlersReturn, PostReadLatch, PostDone, PostSetFired,
         HandlerRegister, TaskComplete, TaskCheck, TaskDecrementIntent, TaskReadFired,
         TaskDecrementFired, TaskDecrementUnfired, TaskDone, TaskGetCounter,
         TaskCountIntent, TaskCountLatch, TaskRegister
<1>6. postNew' \in Task \cup {NoTask} /\ pc' \in [Task -> TaskStates]
      /\ new' \in [Task -> Task \cup {NoTask}]
  BY DEF Next, PostStep, RegisterStep, CompleteStep, HandlerGetCounter, HandlerCountIntent,
         HandlerCountLatch, HandlersReturn, PostReadLatch, PostDone, PostSetFired,
         HandlerRegister, TaskComplete, TaskCheck, TaskDecrementIntent, TaskReadFired,
         TaskDecrementFired, TaskDecrementUnfired, TaskDone, TaskGetCounter,
         TaskCountIntent, TaskCountLatch, TaskRegister
<1>. QED
  BY <1>1, <1>2, <1>3, <1>4, <1>5, <1>6

-----------------------------------------------------------------------------
LEMMA InitIInv == Init => IInv
<1>. SUFFICES ASSUME Init PROVE IInv
  OBVIOUS
<1>. USE DEF Init
<1>1. TypeOK
  <2>1. count \in [Task -> Int] /\ intents \in [Plugin -> Task \cup {NoTask}]
    OBVIOUS
  <2>2. pc \in [Task -> TaskStates] /\ post \in PostStates
    BY DEF PostStates, TaskStates
  <2>3. got \in [Task -> Task \cup {NoTask}] /\ new \in [Task -> Task \cup {NoTask}]
    OBVIOUS
  <2>. QED
    BY <2>1, <2>2, <2>3 DEF TypeOK
<1>2. Registering
  BY DEF Registering, RegisterStates
<1>3. Objects
  BY OwnerAssumption DEF Objects, Counted, IntentStates
<1>4. RefusedOnlyWhenOverwritten
  BY DEF RefusedOnlyWhenOverwritten
<1>5. Holders = {} /\ \A p \in Plugin : Counted(p) = {}
  BY DEF Holders, LatchStates, Counted, IntentStates
<1>6. Counting
  BY <1>5, FS_EmptySet DEF Counting, CountOf
<1>7. Firing
  BY DEF Firing, Accepting
<1>. QED
  BY <1>1, <1>2, <1>3, <1>4, <1>6, <1>7 DEF IInv

LEMMA NextIInv == IInv /\ [Next]_vars => IInv'
<1>. SUFFICES ASSUME IInv, [Next]_vars PROVE IInv'
  OBVIOUS
<1>1. CASE Next
  BY <1>1, TypeInductive, RegisteringInductive, ObjectsInductive, CountingInductive,
     FiringInductive, RefusedInductive DEF IInv
<1>2. CASE UNCHANGED vars
  BY <1>2 DEF vars, counters, IInv, TypeOK, Registering, Objects, Counting, Counted,
              CountOf, Overwritten, Holders, Firing, Accepting, RefusedOnlyWhenOverwritten
<1>. QED
  BY <1>1, <1>2

\* The counters mean what they are read as meaning, for any number of tasks: the
\* inductive invariant of AsyncEvent.
THEOREM Invariance == Spec => []IInv
  BY InitIInv, NextIInv, PTL DEF Spec

\* The latch never goes negative, every counter of an intent is one of the event's
\* own, and the program counters stay in range.
THEOREM TypeCorrect == Spec => []TypeOK
<1>1. IInv => TypeOK
  BY DEF IInv
<1>. QED
  BY <1>1, Invariance, PTL

\* However many tasks complete at once, and whenever postCall runs among them,
\* the callback that continues the login runs at most once.
THEOREM RunsOnce == Spec => []DoneOnce
<1>1. IInv => DoneOnce
  BY DEF IInv, Firing, DoneOnce
<1>. QED
  BY <1>1, Invariance, PTL

\* When the callback has run nobody holds the event: every handler has returned,
\* every task has completed, and the counter of every plugin is back at zero
\* unless it was overwritten.
THEOREM NeverEarly == Spec => []DoneOnlyWhenComplete
<1>1. ASSUME IInv PROVE DoneOnlyWhenComplete
  <2>. SUFFICES ASSUME done > 0 PROVE Holders = {} /\ post \in {"setFired", "returned"}
                                      /\ \A p \in Plugin : ~Overwritten(p) => CountOf(p) = 0
    BY DEF DoneOnlyWhenComplete
  <2>1. Holders = {} /\ post \in {"setFired", "returned"}
    BY <1>1 DEF IInv, TypeOK, PostStates, Firing, Accepting
  <2>2. \A p \in Plugin : Counted(p) = {}
    BY <2>1 DEF Counted, Holders, LatchStates, IntentStates
  <2>. QED
    BY <1>1, <2>1, <2>2, FS_EmptySet DEF IInv, Counting
<1>. QED
  BY <1>1, Invariance, PTL

\* completeIntent's checkState refuses a task that holds an intent only where two
\* registrations of its plugin both put a counter, for any number of tasks and
\* plugins that register and complete at once.
THEOREM RefusalsAreOverwrites == Spec => []RefusedOnlyWhenOverwritten
<1>1. IInv => RefusedOnlyWhenOverwritten
  BY DEF IInv
<1>. QED
  BY <1>1, Invariance, PTL

-----------------------------------------------------------------------------
\* AsyncEvent implements EventBarrier: registering a task opens its intent when
\* the latch counts it, decrementing the latch completes it, and running the
\* callback is the barrier's Proceed.
LEMMA BarrierStep ==
  ASSUME IInv, Next
  PROVE  [Barrier!Next]_<<Accepting, Holders, done>>
<1>. USE DEF IInv
<1>0. Accepting = (post \in {"handlers", "registerGet", "registerCount", "registerLatch"})
  BY DEF Accepting
<1>1. CASE HandlerCountLatch /\ LatchOpens(postNew)
  <2>1. Accepting /\ Accepting' /\ done' = done
    BY <1>1 DEF HandlerCountLatch, Accepting
  <2>. QED
    BY <1>1, <2>1 DEF Barrier!Next, Barrier!OpenIntent, LatchOpens, Accepting
<1>2. ASSUME NEW t \in Task, TaskCountLatch(t), LatchOpens(new[t])
      PROVE  [Barrier!Next]_<<Accepting, Holders, done>>
  <2>1. t \in Holders /\ Accepting' = Accepting /\ done' = done
    BY <1>2 DEF TaskCountLatch, Accepting, Holders, LatchStates
  <2>. QED
    BY <1>2, <2>1 DEF Barrier!Next, Barrier!OpenIntent, LatchOpens, Accepting
<1>3. ASSUME NEW t \in Task, TaskDecrementFired(t) \/ TaskDecrementUnfired(t), LatchCloses(t)
      PROVE  [Barrier!Next]_<<Accepting, Holders, done>>
  <2>1. Accepting' = Accepting /\ done' = done
    BY <1>3 DEF TaskDecrementFired, TaskDecrementUnfired, Accepting
  <2>. QED
    BY <1>3, <2>1 DEF Barrier!Next, Barrier!CompleteIntent, LatchCloses, Accepting
<1>4. CASE Same
  <2>1. CASE HandlersReturn
    BY <1>4, <2>1 DEF Same, HandlersReturn, Barrier!Next, Barrier!HandlersReturned, Accepting
  <2>2. CASE PostDone
    <3>1. Holders = {} /\ ~Accepting /\ ~Accepting' /\ done = 0 /\ done' = 1
      BY <2>2 DEF PostDone, Firing, Accepting
    <3>. QED
      BY <1>4, <3>1 DEF Same, Barrier!Next, Barrier!Proceed, Accepting
  <2>3. ASSUME NEW t \in Task, TaskDone(t)
        PROVE  [Barrier!Next]_<<Accepting, Holders, done>>
    <3>1. Holders = {} /\ ~Accepting /\ ~Accepting' /\ done = 0 /\ done' = 1
      BY <2>3 DEF TaskDone, Goto, Firing, Accepting
    <3>. QED
      BY <1>4, <3>1 DEF Same, Barrier!Next, Barrier!Proceed, Accepting
  <2>4. CASE ~HandlersReturn /\ ~PostDone /\ \A t \in Task : ~TaskDone(t)
    <3>1. Accepting' = Accepting /\ done' = done
      BY <2>4 DEF Next, PostStep, RegisterStep, CompleteStep, HandlerGetCounter,
         HandlerCountIntent, HandlerCountLatch, PostReadLatch, PostSetFired, HandlerRegister,
         TaskComplete, TaskCheck, TaskDecrementIntent, TaskReadFired, TaskDecrementFired,
         TaskDecrementUnfired, TaskGetCounter, TaskCountIntent, TaskCountLatch,
         TaskRegister, Accepting
    <3>. QED
      BY <1>4, <3>1 DEF Same
  <2>. QED
    BY <2>1, <2>2, <2>3, <2>4
<1>. QED
  BY <1>1, <1>2, <1>3, <1>4, LatchEffect

\* Every run of the counters is a run of the barrier the javadoc describes.
THEOREM Refinement == Spec => ImplementsBarrier
<1>1. Init => Barrier!Init
  BY DEF Init, Barrier!Init, Holders, LatchStates
<1>2. IInv /\ [Next]_vars => [Barrier!Next]_<<Accepting, Holders, done>>
  BY BarrierStep DEF vars, Accepting, Holders
<1>3. <<Accepting, Holders, done>> =
        <<post \in {"handlers", "registerGet", "registerCount", "registerLatch"}, Holders, done>>
  BY DEF Accepting
<1>. QED
  BY <1>1, <1>2, Invariance, PTL DEF Spec, ImplementsBarrier, Barrier!Spec, Accepting

-----------------------------------------------------------------------------
\* What ProceedsUnlessRaced needs of safety: after postCall has read the latch the
\* event has proceeded, or somebody who was not refused is left who will make it.
Resumable ==
  post \in {"setFired", "returned"} =>
    \/ done = 1
    \/ \E t \in Holders : pc[t] # "refused"
    \/ \E t \in Task : pc[t] = "callDone"

\* The same, a refused task counted as one who is left.
Held ==
  post \in {"setFired", "returned"} =>
    done = 1 \/ Holders # {} \/ \E t \in Task : pc[t] = "callDone"

LEMMA NextHeld ==
  ASSUME IInv, Held, ~Raced, [Next]_vars
  PROVE  Held'
<1>. TypeOK /\ Firing /\ Registering /\ Counting
  BY DEF IInv
<1>. USE DEF TypeOK, Held, Holders, LatchStates
<1>1. CASE PostReadLatch
  <2>1. latch = 0 <=> Holders = {}
    BY TasksFinite DEF Counting
  <2>. QED
    BY <1>1, <2>1 DEF PostReadLatch
<1>2. CASE PostDone
  BY <1>2 DEF PostDone, Firing
<1>3. CASE HandlerGetCounter \/ HandlerCountIntent \/ HandlersReturn \/ PostSetFired
  BY <1>3 DEF HandlerGetCounter, HandlerCountIntent, HandlersReturn, PostSetFired
<1>4. CASE HandlerCountLatch
  BY <1>4 DEF HandlerCountLatch
<1>5. ASSUME NEW t \in Task,
             \/ TaskComplete(t) \/ TaskCheck(t) \/ TaskDecrementIntent(t)
             \/ TaskReadFired(t) \/ TaskGetCounter(t) \/ TaskCountIntent(t)
      PROVE  Held'
  <2>1. PICK q \in LatchStates : pc' = [pc EXCEPT ![t] = q] /\ UNCHANGED <<post, done>>
    BY <1>5 DEF TaskComplete, TaskCheck, TaskDecrementIntent, TaskReadFired,
                TaskGetCounter, TaskCountIntent, Goto
  <2>. QED
    BY <1>5, <2>1
       DEF TaskComplete, TaskCheck, TaskDecrementIntent, TaskReadFired, TaskGetCounter,
           TaskCountIntent, Goto
<1>6. ASSUME NEW t \in Task, TaskCountLatch(t) PROVE Held'
  <2>1. pc'[t] \in LatchStates
    BY <1>6 DEF TaskCountLatch
  <2>. QED
    BY <2>1
<1>7. ASSUME NEW t \in Task, TaskDecrementFired(t) PROVE Held'
  <2>1. latch' = latch - 1 /\ pc' = [pc EXCEPT ![t] = IF latch - 1 = 0 THEN "callDone" ELSE "finished"]
    BY <1>7 DEF TaskDecrementFired, Goto
  <2>2. CASE latch' = 0
    BY <2>1, <2>2
  <2>3. CASE latch' # 0
    <3>1. Holders' # {}
      BY <2>3, LatchInductive, FS_EmptySet, <1>7 DEF Next, CompleteStep
    <3>. QED
      BY <3>1
  <2>. QED
    BY <2>2, <2>3
<1>8. ASSUME NEW t \in Task, TaskDecrementUnfired(t) PROVE Held'
  <2>1. pc[t] = "decrementUnfired" /\ UNCHANGED <<post, done>>
    BY <1>8 DEF TaskDecrementUnfired, Goto
  <2>2. done # 0 \/ post \notin {"setFired", "returned"}
    BY <2>1 DEF Raced
  <2>. QED
    BY <2>1, <2>2 DEF Firing
<1>9. ASSUME NEW t \in Task, TaskDone(t) PROVE Held'
  BY <1>9 DEF TaskDone, Goto, Firing
<1>10. ASSUME NEW t \in Task, HandlerRegister(t) PROVE Held'
  BY <1>10 DEF HandlerRegister
<1>11. ASSUME NEW t \in Task, NEW u \in Task, TaskRegister(t, u) PROVE Held'
  BY <1>11 DEF TaskRegister, Goto
<1>12. CASE UNCHANGED vars
  BY <1>12 DEF vars
<1>. QED
  BY <1>1, <1>2, <1>3, <1>4, <1>5, <1>6, <1>7, <1>8, <1>9, <1>10, <1>11, <1>12
     DEF Next, PostStep, RegisterStep, CompleteStep

\* There is no third way to lose a login: unless a completion decrements after it
\* read "not fired" and postCall read a latch above zero in between, or a completion
\* is refused, the event has proceeded or somebody is left who makes it proceed, for
\* any number of tasks in any order.
THEOREM LostOnlyInRace == Spec /\ [](~Raced) /\ []NoneRefused => []Resumable
<1>1. Init => Held
  BY DEF Init, Held
<1>2. IInv /\ Held /\ ~Raced /\ [Next]_vars => Held'
  BY NextHeld
<1>3. Held /\ NoneRefused => Resumable
  <2>1. NoneRefused /\ Holders # {} => \E t \in Holders : pc[t] # "refused"
    BY DEF NoneRefused, Holders
  <2>. QED
    BY <2>1 DEF Held, Resumable
<1>. QED
  BY <1>1, <1>2, <1>3, Invariance, PTL DEF Spec
=============================================================================
