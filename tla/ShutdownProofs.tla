--------------------------- MODULE ShutdownProofs ---------------------------
(***************************************************************************)
(* Theorems about Shutdown, for any users, listeners, threads and number   *)
(* of reloads.                                                             *)
(***************************************************************************)
EXTENDS Shutdown, TLAPS

\* Only the hook waits for a JVM that is going down.
HookIdle == jvm = "up" => at[Hook] = "idle"

IType == TypeOK /\ HookIdle

LEMMA InitType == Init => IType
<1> SUFFICES ASSUME Init PROVE IType
  OBVIOUS
<1> USE ThreadAssumption DEF Init, Ending, Threads
<1>1. DataOK
  <2>1. at \in [Threads -> {"idle", "lock", "exit", "blocked", "done", "dead"}
                         \cup Section]
    OBVIOUS
  <2>2. left \in [Threads -> SUBSET (Listeners \cup Users)]
    OBVIOUS
  <2>3. /\ client \in [Users -> {"away", "logging", "open", "closing", "gone"}]
        /\ backend \in [Users -> {"none", "open", "closing", "gone"}]
    OBVIOUS
  <2>4. reloads \in 0 .. MaxReloads
    OBVIOUS
  <2>5. lock \in Ending \cup {None} /\ modified \subseteq Threads
    OBVIOUS
  <2> HIDE DEF Ending, Threads
  <2> QED
    BY <2>1, <2>2, <2>3, <2>4, <2>5 DEF DataOK
<1>2. LocksOK
  BY DEF LocksOK, Section, AfterSave
<1>3. HookIdle
  BY DEF HookIdle
<1> QED
  BY <1>1, <1>2, <1>3 DEF IType, TypeOK

\* Every step keeps the types.
LEMMA NextData == DataOK /\ [Next]_vars => DataOK'
<1> SUFFICES ASSUME DataOK, [Next]_vars PROVE DataOK'
  OBVIOUS
<1> USE DEF DataOK, Ending, Threads, Section,
        AfterSave, procVars, listenVars, userVars, fileVars, timerVars
<1>1. CASE Signal
  BY <1>1 DEF Signal, Goes
<1>2. CASE Halt
  BY <1>2 DEF Halt
<1>3. CASE TimerBegins
  BY <1>3 DEF TimerBegins
<1>4. CASE TimerOpens
  BY <1>4 DEF TimerOpens
<1>5. CASE TimerWrites
  <2>1. torn' \in BOOLEAN /\ file' \subseteq Users
    BY <1>5 DEF TimerWrites, Write
  <2> QED
    BY <1>5, <2>1 DEF TimerWrites
<1>6. CASE Reload
  <2>1. left' \in [Threads -> SUBSET (Listeners \cup Users)]
    BY <1>6 DEF Reload
  <2>2. at' \in [Threads -> {"idle", "lock", "exit", "blocked", "done", "dead"}
                           \cup Section]
    BY <1>6 DEF Reload, Goes
  <2>3. reloads' \in 0 .. MaxReloads
    BY <1>6, ThreadAssumption DEF Reload
  <2> HIDE DEF Section, Threads
  <2> QED
    BY <1>6, <2>1, <2>2, <2>3 DEF Reload
<1>7. CASE StartListeners
  BY <1>7 DEF StartListeners, Goes, Cleared
<1>8. ASSUME NEW l \in Listeners, Bound(l) PROVE DataOK'
  BY <1>8 DEF Bound
<1>9. ASSUME NEW t \in Threads, NEW l \in Listeners, CloseListener(t, l)
      PROVE DataOK'
  BY <1>9 DEF CloseListener
<1>10. ASSUME NEW t \in Threads, Throw(t) PROVE DataOK'
  BY <1>10 DEF Throw
<1>11. ASSUME NEW t \in Ending, Stop(t) PROVE DataOK'
  BY <1>11 DEF Stop, Goes
<1>12. ASSUME NEW t \in Ending, Acquire(t) PROVE DataOK'
  BY <1>12 DEF Acquire, Goes
<1>13. ASSUME NEW t \in Ending, AlreadyStopping(t) PROVE DataOK'
  BY <1>13 DEF AlreadyStopping, Goes
<1>14. ASSUME NEW t \in Ending, StopListeners(t) PROVE DataOK'
  <2>1. left' \in [Threads -> SUBSET (Listeners \cup Users)]
    BY <1>14 DEF StopListeners
  <2>2. at' \in [Threads -> {"idle", "lock", "exit", "blocked", "done", "dead"}
                           \cup Section]
    BY <1>14 DEF StopListeners, Goes
  <2>3. /\ isRunning' \in BOOLEAN
        /\ UNCHANGED <<jvm, lock, listenVars, userVars, reading, stored, copy,
                       timerVars, fileVars, closed, plugins, loops>>
    BY <1>14 DEF StopListeners
  <2> HIDE DEF Section, Threads, Ending
  <2> QED
    BY <2>1, <2>2, <2>3
<1>15. ASSUME NEW t \in Ending, Sweep(t) PROVE DataOK'
  BY <1>15 DEF Sweep, Goes, Cleared
<1>16. ASSUME NEW t \in Ending, NEW u \in Users, Disconnect(t, u) PROVE DataOK'
  BY <1>16 DEF Disconnect, ServerDisconnect
<1>17. ASSUME NEW t \in Ending, SweepEnds(t) PROVE DataOK'
  <2>1. at' \in [Threads -> {"idle", "lock", "exit", "blocked", "done", "dead"}
                           \cup Section]
    BY <1>17 DEF SweepEnds, Goes
  <2>2. /\ reading' \in BOOLEAN
        /\ UNCHANGED <<procVars, left, listenVars, userVars, stored, copy,
                       timerVars, fileVars, closed, plugins, loops>>
    BY <1>17 DEF SweepEnds
  <2> HIDE DEF Section, Threads, Ending
  <2> QED
    BY <2>1, <2>2
<1>18. ASSUME NEW t \in Ending, Save(t) PROVE DataOK'
  BY <1>18 DEF Save, Goes
<1>19. ASSUME NEW t \in Ending, SaveOpens(t) PROVE DataOK'
  BY <1>19 DEF SaveOpens, Goes
<1>20. ASSUME NEW t \in Ending, SaveWrites(t) PROVE DataOK'
  <2>1. torn' \in BOOLEAN /\ file' \subseteq Users
    BY <1>20 DEF SaveWrites, Write
  <2> QED
    BY <1>20, <2>1 DEF SaveWrites, Goes
<1>21. ASSUME NEW t \in Ending, Close(t) PROVE DataOK'
  BY <1>21 DEF Close, Goes
<1>22. ASSUME NEW t \in Ending, CancelTimer(t) PROVE DataOK'
  BY <1>22 DEF CancelTimer, Goes
<1>23. ASSUME NEW t \in Ending, DisablePlugins(t) PROVE DataOK'
  BY <1>23 DEF DisablePlugins, Goes
<1>24. ASSUME NEW t \in Ending, ShutdownGracefully(t) PROVE DataOK'
  BY <1>24 DEF ShutdownGracefully, Goes
<1>25. ASSUME NEW t \in Ending, AwaitTermination(t) PROVE DataOK'
  BY <1>25 DEF AwaitTermination, Goes
<1>26. ASSUME NEW t \in Ending, Unlock(t) PROVE DataOK'
  BY <1>26 DEF Unlock, Goes
<1>27. ASSUME NEW t \in Ending, Exit(t) PROVE DataOK'
  BY <1>27 DEF Exit
<1>28. ASSUME NEW u \in Users, Accept(u) PROVE DataOK'
  BY <1>28 DEF Accept
<1>29. ASSUME NEW u \in Users, LeaveLogin(u) PROVE DataOK'
  BY <1>29 DEF LeaveLogin
<1>30. ASSUME NEW u \in Users, Run(u) PROVE DataOK'
  BY <1>30 DEF Run
<1>31. ASSUME NEW u \in Users, Join(u) PROVE DataOK'
  BY <1>31 DEF Join
<1>32. ASSUME NEW u \in Users, UpstreamDisconnected(u) PROVE DataOK'
  BY <1>32 DEF UpstreamDisconnected, ServerDisconnect
<1>33. ASSUME NEW u \in Users, DownstreamDisconnected(u) PROVE DataOK'
  BY <1>33 DEF DownstreamDisconnected
<1>34. CASE UNCHANGED vars
  BY <1>34 DEF vars
<1>35. CASE TimerFails
  <2>1. /\ UNCHANGED <<procVars, at, left, listenVars, userVars, reading, stored, copy,
                       cancelled, file, met, closed, plugins, loops>>
        /\ timer' = "idle" /\ timerCopy' = {}
    BY <1>35 DEF TimerFails
  <2>2. torn' \in BOOLEAN /\ failed' \in BOOLEAN
    <3>1. (torn' = torn /\ failed' = failed) \/ (torn' = TRUE /\ failed' = (failed \/ saved))
      BY <1>35 DEF TimerFails
    <3> QED
      BY <3>1 DEF saved
  <2> QED
    BY <2>1, <2>2
<1>36. ASSUME NEW t \in Ending, SaveFails(t) PROVE DataOK'
  <2>1. /\ UNCHANGED <<procVars, left, listenVars, userVars, reading, stored, copy,
                       timerVars, file, met, closed, plugins, loops>>
        /\ failed' = TRUE
    BY <1>36 DEF SaveFails
  <2>2. torn' \in BOOLEAN
    BY <1>36 DEF SaveFails
  <2>3. at' \in [Threads -> {"idle", "lock", "exit", "blocked", "done", "dead"}
                           \cup Section]
    BY <1>36 DEF SaveFails, Goes
  <2> HIDE DEF Section, Threads, Ending
  <2> QED
    BY <2>1, <2>2, <2>3
<1> QED
  BY <1>1, <1>2, <1>3, <1>4, <1>5, <1>6, <1>7, <1>8, <1>9, <1>10, <1>11,
     <1>12, <1>13, <1>14, <1>15, <1>16, <1>17, <1>18, <1>19, <1>20, <1>21,
     <1>22, <1>23, <1>24, <1>25, <1>26, <1>27, <1>28, <1>29, <1>30, <1>31,
     <1>32, <1>33, <1>34, <1>35, <1>36
     DEF Next, Timer, Closes, Stops, User, Halted

\* Every step keeps each lock with the one who holds it.
LEMMA NextLocks == IType /\ [Next]_vars => LocksOK' /\ HookIdle'
<1> SUFFICES ASSUME IType, [Next]_vars PROVE LocksOK' /\ HookIdle'
  OBVIOUS
<1>a. /\ lock \in Ending \cup {None} /\ jvm \in {"up", "exiting", "halted"}
      /\ at \in [Threads -> {"idle", "lock", "exit", "blocked", "done", "dead"}
                             \cup Section]
      /\ LocksOK /\ HookIdle
  BY DEF IType, TypeOK, DataOK
<1> USE ThreadAssumption DEF LocksOK, HookIdle, Ending, Threads, Section,
        AfterSave, procVars, listenVars, userVars, fileVars, timerVars
<1>1. CASE Signal
  BY <1>a, <1>1 DEF Signal, Goes
<1>2. CASE Halt
  BY <1>a, <1>2 DEF Halt
<1>3. CASE TimerBegins
  BY <1>a, <1>3 DEF TimerBegins
<1>4. CASE TimerOpens
  BY <1>a, <1>4 DEF TimerOpens
<1>5. CASE TimerWrites
  BY <1>a, <1>5 DEF TimerWrites, Write
<1>6. CASE Reload
  BY <1>a, <1>6 DEF Reload, Goes
<1>7. CASE StartListeners
  BY <1>a, <1>7 DEF StartListeners, Goes, Cleared
<1>8. ASSUME NEW l \in Listeners, Bound(l) PROVE LocksOK' /\ HookIdle'
  BY <1>a, <1>8 DEF Bound
<1>9. ASSUME NEW t \in Threads, NEW l \in Listeners, CloseListener(t, l)
      PROVE LocksOK' /\ HookIdle'
  BY <1>a, <1>9 DEF CloseListener
<1>10. ASSUME NEW t \in Threads, Throw(t) PROVE LocksOK' /\ HookIdle'
  BY <1>a, <1>10 DEF Throw
<1>11. ASSUME NEW t \in Ending, Stop(t) PROVE LocksOK' /\ HookIdle'
  BY <1>a, <1>11 DEF Stop, Goes
<1>12. ASSUME NEW t \in Ending, Acquire(t) PROVE LocksOK' /\ HookIdle'
  BY <1>a, <1>12 DEF Acquire, Goes
<1>13. ASSUME NEW t \in Ending, AlreadyStopping(t) PROVE LocksOK' /\ HookIdle'
  BY <1>a, <1>13 DEF AlreadyStopping, Goes
<1>14. ASSUME NEW t \in Ending, StopListeners(t) PROVE LocksOK' /\ HookIdle'
  BY <1>a, <1>14 DEF StopListeners, Goes
<1>15. ASSUME NEW t \in Ending, Sweep(t) PROVE LocksOK' /\ HookIdle'
  BY <1>a, <1>15 DEF Sweep, Goes, Cleared
<1>16. ASSUME NEW t \in Ending, NEW u \in Users, Disconnect(t, u)
      PROVE LocksOK' /\ HookIdle'
  BY <1>a, <1>16 DEF Disconnect, ServerDisconnect
<1>17. ASSUME NEW t \in Ending, SweepEnds(t) PROVE LocksOK' /\ HookIdle'
  BY <1>a, <1>17 DEF SweepEnds, Goes
<1>18. ASSUME NEW t \in Ending, Save(t) PROVE LocksOK' /\ HookIdle'
  BY <1>a, <1>18 DEF Save, Goes
<1>19. ASSUME NEW t \in Ending, SaveOpens(t) PROVE LocksOK' /\ HookIdle'
  BY <1>a, <1>19 DEF SaveOpens, Goes
<1>20. ASSUME NEW t \in Ending, SaveWrites(t) PROVE LocksOK' /\ HookIdle'
  BY <1>a, <1>20 DEF SaveWrites, Goes, Write
<1>21. ASSUME NEW t \in Ending, Close(t) PROVE LocksOK' /\ HookIdle'
  BY <1>a, <1>21 DEF Close, Goes
<1>22. ASSUME NEW t \in Ending, CancelTimer(t) PROVE LocksOK' /\ HookIdle'
  BY <1>a, <1>22 DEF CancelTimer, Goes
<1>23. ASSUME NEW t \in Ending, DisablePlugins(t) PROVE LocksOK' /\ HookIdle'
  BY <1>a, <1>23 DEF DisablePlugins, Goes
<1>24. ASSUME NEW t \in Ending, ShutdownGracefully(t)
      PROVE LocksOK' /\ HookIdle'
  BY <1>a, <1>24 DEF ShutdownGracefully, Goes
<1>25. ASSUME NEW t \in Ending, AwaitTermination(t) PROVE LocksOK' /\ HookIdle'
  BY <1>a, <1>25 DEF AwaitTermination, Goes
<1>26. ASSUME NEW t \in Ending, Unlock(t) PROVE LocksOK' /\ HookIdle'
  BY <1>a, <1>26 DEF Unlock, Goes
<1>27. ASSUME NEW t \in Ending, Exit(t) PROVE LocksOK' /\ HookIdle'
  BY <1>a, <1>27 DEF Exit
<1>28. ASSUME NEW u \in Users, Accept(u) PROVE LocksOK' /\ HookIdle'
  BY <1>a, <1>28 DEF Accept
<1>29. ASSUME NEW u \in Users, LeaveLogin(u) PROVE LocksOK' /\ HookIdle'
  BY <1>a, <1>29 DEF LeaveLogin
<1>30. ASSUME NEW u \in Users, Run(u) PROVE LocksOK' /\ HookIdle'
  BY <1>a, <1>30 DEF Run
<1>31. ASSUME NEW u \in Users, Join(u) PROVE LocksOK' /\ HookIdle'
  BY <1>a, <1>31 DEF Join
<1>32. ASSUME NEW u \in Users, UpstreamDisconnected(u)
      PROVE LocksOK' /\ HookIdle'
  BY <1>a, <1>32 DEF UpstreamDisconnected, ServerDisconnect
<1>33. ASSUME NEW u \in Users, DownstreamDisconnected(u)
      PROVE LocksOK' /\ HookIdle'
  BY <1>a, <1>33 DEF DownstreamDisconnected
<1>34. CASE UNCHANGED vars
  BY <1>a, <1>34 DEF vars
<1>35. CASE TimerFails
  BY <1>a, <1>35 DEF TimerFails
<1>36. ASSUME NEW t \in Ending, SaveFails(t) PROVE LocksOK' /\ HookIdle'
  BY <1>a, <1>36 DEF SaveFails, Goes
<1> QED
  BY <1>1, <1>2, <1>3, <1>4, <1>5, <1>6, <1>7, <1>8, <1>9, <1>10, <1>11,
     <1>12, <1>13, <1>14, <1>15, <1>16, <1>17, <1>18, <1>19, <1>20, <1>21,
     <1>22, <1>23, <1>24, <1>25, <1>26, <1>27, <1>28, <1>29, <1>30, <1>31,
     <1>32, <1>33, <1>34, <1>35, <1>36
     DEF Next, Timer, Closes, Stops, User, Halted

LEMMA NextType == IType /\ [Next]_vars => IType'
  BY NextData, NextLocks DEF IType, TypeOK

\* Types, and who holds the locks.
THEOREM TypeCorrect == Spec => []TypeOK
<1>1. IType => TypeOK
  BY DEF IType
<1> QED
  BY InitType, NextType, <1>1, PTL DEF Spec


-----------------------------------------------------------------------------
(* WholeStop *)

complete ==
    /\ ~isRunning /\ closed /\ cancelled /\ plugins = "disabled"
    /\ loops = "ended"

\* What is done when a thread has come that far.
Stages(t) ==
    /\ at[t] \in Section \ {"test"} => ~isRunning
    /\ at[t] \in AfterSave \ {"close"} => closed
    /\ at[t] \in AfterSave \ {"close", "cancel"} => cancelled
    /\ at[t] \in {"loops", "await", "unlock"} => plugins = "disabled"
    /\ at[t] \in Section \ {"await", "unlock"} => loops = "up" \/ at[t] = "test"
    /\ at[t] = "unlock" => loops = "ended"
    /\ at[t] \in {"exit", "blocked", "done"} => thrown \/ complete

\* The stop is done, or somebody is at it, or somebody died of it: whoever
\* gets the lock later and finds isRunning false may go.
StopInv ==
    /\ jvm = "halted" => at[Hook] \in {"done", "dead"}
    /\ isRunning => loops = "up"
    /\ ~isRunning => \/ thrown \/ complete
                     \/ \E t \in Ending : at[t] \in Section \ {"test"}
    /\ \A t \in Ending : Stages(t)

LEMMA InitStopInv == Init => StopInv
  BY DEF Init, StopInv, Stages, Ending, Threads, Section, AfterSave

LEMMA NextStopInv == IType /\ StopInv /\ [Next]_vars => StopInv'
<1> SUFFICES ASSUME IType, StopInv, [Next]_vars PROVE StopInv'
  OBVIOUS
<1>a. /\ lock \in Ending \cup {None} /\ jvm \in {"up", "exiting", "halted"}
      /\ at \in [Threads -> {"idle", "lock", "exit", "blocked", "done", "dead"}
                             \cup Section]
      /\ LocksOK
  BY DEF IType, TypeOK, DataOK
<1> USE ThreadAssumption DEF LocksOK, StopInv, Stages, complete, thrown,
     Ending, Threads, Section, AfterSave, procVars, listenVars, userVars,
     fileVars, timerVars
<1>1. CASE Signal
  BY <1>a, <1>1 DEF Signal, Goes
<1>2. CASE Halt
  BY <1>a, <1>2 DEF Halt
<1>3. CASE TimerBegins
  BY <1>a, <1>3 DEF TimerBegins
<1>4. CASE TimerOpens
  BY <1>a, <1>4 DEF TimerOpens
<1>5. CASE TimerWrites
  BY <1>a, <1>5 DEF TimerWrites, Write
<1>6. CASE Reload
  BY <1>a, <1>6 DEF Reload, Goes
<1>7. CASE StartListeners
  BY <1>a, <1>7 DEF StartListeners, Goes, Cleared
<1>8. ASSUME NEW l \in Listeners, Bound(l) PROVE StopInv'
  BY <1>a, <1>8 DEF Bound
<1>9. ASSUME NEW t \in Threads, NEW l \in Listeners, CloseListener(t, l)
      PROVE StopInv'
  BY <1>a, <1>9 DEF CloseListener
<1>10. ASSUME NEW t \in Threads, Throw(t) PROVE StopInv'
  BY <1>a, <1>10 DEF Throw
<1>11. ASSUME NEW t \in Ending, Stop(t) PROVE StopInv'
  BY <1>a, <1>11 DEF Stop, Goes
<1>12. ASSUME NEW t \in Ending, Acquire(t) PROVE StopInv'
  BY <1>a, <1>12 DEF Acquire, Goes
<1>13. ASSUME NEW t \in Ending, AlreadyStopping(t) PROVE StopInv'
  BY <1>a, <1>13 DEF AlreadyStopping, Goes
<1>14. ASSUME NEW t \in Ending, StopListeners(t) PROVE StopInv'
  BY <1>a, <1>14 DEF StopListeners, Goes
<1>15. ASSUME NEW t \in Ending, Sweep(t) PROVE StopInv'
  BY <1>a, <1>15 DEF Sweep, Goes, Cleared
<1>16. ASSUME NEW t \in Ending, NEW u \in Users, Disconnect(t, u) PROVE StopInv'
  BY <1>a, <1>16 DEF Disconnect, ServerDisconnect
<1>17. ASSUME NEW t \in Ending, SweepEnds(t) PROVE StopInv'
  BY <1>a, <1>17 DEF SweepEnds, Goes
<1>18. ASSUME NEW t \in Ending, Save(t) PROVE StopInv'
  BY <1>a, <1>18 DEF Save, Goes
<1>19. ASSUME NEW t \in Ending, SaveOpens(t) PROVE StopInv'
  BY <1>a, <1>19 DEF SaveOpens, Goes
<1>20. ASSUME NEW t \in Ending, SaveWrites(t) PROVE StopInv'
  BY <1>a, <1>20 DEF SaveWrites, Goes, Write
<1>21. ASSUME NEW t \in Ending, Close(t) PROVE StopInv'
  BY <1>a, <1>21 DEF Close, Goes
<1>22. ASSUME NEW t \in Ending, CancelTimer(t) PROVE StopInv'
  BY <1>a, <1>22 DEF CancelTimer, Goes
<1>23. ASSUME NEW t \in Ending, DisablePlugins(t) PROVE StopInv'
  BY <1>a, <1>23 DEF DisablePlugins, Goes
<1>24. ASSUME NEW t \in Ending, ShutdownGracefully(t) PROVE StopInv'
  BY <1>a, <1>24 DEF ShutdownGracefully, Goes
<1>25. ASSUME NEW t \in Ending, AwaitTermination(t) PROVE StopInv'
  BY <1>a, <1>25 DEF AwaitTermination, Goes
<1>26. ASSUME NEW t \in Ending, Unlock(t) PROVE StopInv'
  BY <1>a, <1>26 DEF Unlock, Goes
<1>27. ASSUME NEW t \in Ending, Exit(t) PROVE StopInv'
  <2>1. thrown => thrown'
    BY <1>a, <1>27 DEF Exit, IType, HookIdle
  <2>2. complete => complete'
    BY <1>a, <1>27 DEF Exit
  <2>3. \A s \in Ending : at'[s] \in Section => at[s] = at'[s]
    BY <1>a, <1>27 DEF Exit
  <2>4. \A s \in Ending : at[s] \in Section => at[s] = at'[s]
    BY <1>a, <1>27 DEF Exit, IType, HookIdle
  <2>5. \A s \in Ending : at'[s] \in {"exit", "blocked", "done"}
                          => at[s] \in {"exit", "blocked", "done"}
    BY <1>a, <1>27 DEF Exit
  <2>6. jvm' = "halted" => at'[Hook] \in {"done", "dead"}
    BY <1>a, <1>27 DEF Exit
  <2>7. \A s \in Ending : Stages(s)'
    <3> SUFFICES ASSUME NEW s \in Ending PROVE Stages(s)'
      OBVIOUS
    <3>1. CASE at'[s] \in Section
      BY <1>a, <1>27, <2>3, <3>1 DEF Exit
    <3>2. CASE at'[s] \in {"exit", "blocked", "done"}
      BY <1>a, <1>27, <2>1, <2>2, <2>5, <3>2 DEF Exit
    <3>3. CASE at'[s] \notin Section \cup {"exit", "blocked", "done"}
      BY <3>3
    <3> QED
      BY <3>1, <3>2, <3>3
  <2>8. ~isRunning' => \/ thrown' \/ complete'
                      \/ \E s \in Ending : at'[s] \in Section \ {"test"}
    BY <1>a, <1>27, <2>1, <2>2, <2>4 DEF Exit
  <2> QED
    BY <1>a, <1>27, <2>6, <2>7, <2>8 DEF Exit
<1>28. ASSUME NEW u \in Users, Accept(u) PROVE StopInv'
  BY <1>a, <1>28 DEF Accept
<1>29. ASSUME NEW u \in Users, LeaveLogin(u) PROVE StopInv'
  BY <1>a, <1>29 DEF LeaveLogin
<1>30. ASSUME NEW u \in Users, Run(u) PROVE StopInv'
  BY <1>a, <1>30 DEF Run
<1>31. ASSUME NEW u \in Users, Join(u) PROVE StopInv'
  BY <1>a, <1>31 DEF Join
<1>32. ASSUME NEW u \in Users, UpstreamDisconnected(u) PROVE StopInv'
  BY <1>a, <1>32 DEF UpstreamDisconnected, ServerDisconnect
<1>33. ASSUME NEW u \in Users, DownstreamDisconnected(u) PROVE StopInv'
  BY <1>a, <1>33 DEF DownstreamDisconnected
<1>34. CASE UNCHANGED vars
  BY <1>a, <1>34 DEF vars
<1>35. CASE TimerFails
  BY <1>a, <1>35 DEF TimerFails
<1>36. ASSUME NEW t \in Ending, SaveFails(t) PROVE StopInv'
  BY <1>a, <1>36 DEF SaveFails, Goes
<1> QED
  BY <1>1, <1>2, <1>3, <1>4, <1>5, <1>6, <1>7, <1>8, <1>9, <1>10, <1>11,
     <1>12, <1>13, <1>14, <1>15, <1>16, <1>17, <1>18, <1>19, <1>20, <1>21,
     <1>22, <1>23, <1>24, <1>25, <1>26, <1>27, <1>28, <1>29, <1>30, <1>31,
     <1>32, <1>33, <1>34, <1>35, <1>36
     DEF Next, Timer, Closes, Stops, User, Halted

\* The JVM never halts in the middle of the stop, whoever asked for it.
THEOREM StopIsWhole == Spec => []WholeStop
<1>1. StopInv => WholeStop
  BY ThreadAssumption
     DEF StopInv, Stages, WholeStop, thrown, complete, Ending
<1> QED
  BY InitType, NextType, InitStopInv, NextStopInv, <1>1, PTL DEF Spec

-----------------------------------------------------------------------------
(* NobodyLeft *)

\* Who is registered is on or on the way out, who lost a server is stored, and
\* nobody is on when the loops have ended.
UserInv ==
    /\ \A u \in connections : client[u] \in {"open", "closing"}
    /\ \A u \in Users : backend[u] = "gone" => u \in stored
    /\ loops = "ended" => \A u \in Users : client[u] \in {"away", "gone"}

LEMMA InitUserInv == Init => UserInv
  BY DEF Init, UserInv

LEMMA NextUserInv == DataOK /\ UserInv /\ [Next]_vars => UserInv'
<1> SUFFICES ASSUME DataOK, UserInv, [Next]_vars PROVE UserInv'
  OBVIOUS
<1>a. /\ connections \subseteq Users
      /\ client \in [Users -> {"away", "logging", "open", "closing", "gone"}]
      /\ backend \in [Users -> {"none", "open", "closing", "gone"}]
  BY DEF DataOK
<1> USE DEF UserInv, procVars, listenVars, userVars, fileVars, timerVars
<1>1. CASE Signal
  BY <1>a, <1>1 DEF Signal, Goes
<1>2. CASE Halt
  BY <1>a, <1>2 DEF Halt
<1>3. CASE TimerBegins
  BY <1>a, <1>3 DEF TimerBegins
<1>4. CASE TimerOpens
  BY <1>a, <1>4 DEF TimerOpens
<1>5. CASE TimerWrites
  BY <1>a, <1>5 DEF TimerWrites, Write
<1>6. CASE Reload
  BY <1>a, <1>6 DEF Reload, Goes
<1>7. CASE StartListeners
  BY <1>a, <1>7 DEF StartListeners, Goes, Cleared
<1>8. ASSUME NEW l \in Listeners, Bound(l) PROVE UserInv'
  BY <1>a, <1>8 DEF Bound
<1>9. ASSUME NEW t \in Threads, NEW l \in Listeners, CloseListener(t, l)
      PROVE UserInv'
  BY <1>a, <1>9 DEF CloseListener
<1>10. ASSUME NEW t \in Threads, Throw(t) PROVE UserInv'
  BY <1>a, <1>10 DEF Throw
<1>11. ASSUME NEW t \in Ending, Stop(t) PROVE UserInv'
  BY <1>a, <1>11 DEF Stop, Goes
<1>12. ASSUME NEW t \in Ending, Acquire(t) PROVE UserInv'
  BY <1>a, <1>12 DEF Acquire, Goes
<1>13. ASSUME NEW t \in Ending, AlreadyStopping(t) PROVE UserInv'
  BY <1>a, <1>13 DEF AlreadyStopping, Goes
<1>14. ASSUME NEW t \in Ending, StopListeners(t) PROVE UserInv'
  BY <1>a, <1>14 DEF StopListeners, Goes
<1>15. ASSUME NEW t \in Ending, Sweep(t) PROVE UserInv'
  BY <1>a, <1>15 DEF Sweep, Goes, Cleared
<1>16. ASSUME NEW t \in Ending, NEW u \in Users, Disconnect(t, u) PROVE UserInv'
  BY <1>a, <1>16 DEF Disconnect, ServerDisconnect
<1>17. ASSUME NEW t \in Ending, SweepEnds(t) PROVE UserInv'
  BY <1>a, <1>17 DEF SweepEnds, Goes
<1>18. ASSUME NEW t \in Ending, Save(t) PROVE UserInv'
  BY <1>a, <1>18 DEF Save, Goes
<1>19. ASSUME NEW t \in Ending, SaveOpens(t) PROVE UserInv'
  BY <1>a, <1>19 DEF SaveOpens, Goes
<1>20. ASSUME NEW t \in Ending, SaveWrites(t) PROVE UserInv'
  BY <1>a, <1>20 DEF SaveWrites, Goes, Write
<1>21. ASSUME NEW t \in Ending, Close(t) PROVE UserInv'
  BY <1>a, <1>21 DEF Close, Goes
<1>22. ASSUME NEW t \in Ending, CancelTimer(t) PROVE UserInv'
  BY <1>a, <1>22 DEF CancelTimer, Goes
<1>23. ASSUME NEW t \in Ending, DisablePlugins(t) PROVE UserInv'
  BY <1>a, <1>23 DEF DisablePlugins, Goes
<1>24. ASSUME NEW t \in Ending, ShutdownGracefully(t) PROVE UserInv'
  BY <1>a, <1>24 DEF ShutdownGracefully, Goes
<1>25. ASSUME NEW t \in Ending, AwaitTermination(t) PROVE UserInv'
  BY <1>a, <1>25 DEF AwaitTermination, Goes
<1>26. ASSUME NEW t \in Ending, Unlock(t) PROVE UserInv'
  BY <1>a, <1>26 DEF Unlock, Goes
<1>27. ASSUME NEW t \in Ending, Exit(t) PROVE UserInv'
  BY <1>a, <1>27 DEF Exit
<1>28. ASSUME NEW u \in Users, Accept(u) PROVE UserInv'
  BY <1>a, <1>28 DEF Accept
<1>29. ASSUME NEW u \in Users, LeaveLogin(u) PROVE UserInv'
  BY <1>a, <1>29 DEF LeaveLogin
<1>30. ASSUME NEW u \in Users, Run(u) PROVE UserInv'
  BY <1>a, <1>30 DEF Run
<1>31. ASSUME NEW u \in Users, Join(u) PROVE UserInv'
  BY <1>a, <1>31 DEF Join
<1>32. ASSUME NEW u \in Users, UpstreamDisconnected(u) PROVE UserInv'
  BY <1>a, <1>32 DEF UpstreamDisconnected, ServerDisconnect
<1>33. ASSUME NEW u \in Users, DownstreamDisconnected(u) PROVE UserInv'
  BY <1>a, <1>33 DEF DownstreamDisconnected
<1>34. CASE UNCHANGED vars
  BY <1>a, <1>34 DEF vars
<1>35. CASE TimerFails
  BY <1>a, <1>35 DEF TimerFails
<1>36. ASSUME NEW t \in Ending, SaveFails(t) PROVE UserInv'
  BY <1>a, <1>36 DEF SaveFails, Goes
<1> QED
  BY <1>1, <1>2, <1>3, <1>4, <1>5, <1>6, <1>7, <1>8, <1>9, <1>10, <1>11,
     <1>12, <1>13, <1>14, <1>15, <1>16, <1>17, <1>18, <1>19, <1>20, <1>21,
     <1>22, <1>23, <1>24, <1>25, <1>26, <1>27, <1>28, <1>29, <1>30, <1>31,
     <1>32, <1>33, <1>34, <1>35, <1>36
     DEF Next, Timer, Closes, Stops, User, Halted

\* Nobody is registered when the loops have ended, and whose server is gone is
\* known to the reconnect handler.
THEOREM NobodyStays == Spec => []NobodyLeft
<1>1. DataOK /\ UserInv => NobodyLeft
  BY DEF DataOK, UserInv, NobodyLeft
<1>2. IType => DataOK
  BY DEF IType, TypeOK
<1> QED
  BY InitType, NextType, InitUserInv, NextUserInv, <1>1, <1>2, PTL DEF Spec

-----------------------------------------------------------------------------
(* LocationsKept *)

\* Where the thread in the section comes by before close() is called.
UpToClose == {"listeners", "sweep", "sleep", "open", "write", "close"}

\* Until a save of the timer and that of the shutdown meet, the timer sleeps
\* during the latter, of which there is one only, and what it takes up later is
\* not less.
SaveInv ==
    /\ copy \subseteq stored
    /\ ~met /\ saving => timer = "idle"
    /\ \A t \in Ending : at[t] \in UpToClose => ~isRunning /\ ~closed
    /\ closed => ~isRunning
    /\ saved /\ ~met /\ ~failed =>
         /\ timer # "idle" => copy \subseteq timerCopy
         /\ timer # "write" => ~torn /\ copy \subseteq file

LEMMA InitSaveInv == Init => SaveInv
  BY DEF Init, SaveInv, saving, saved, UpToClose, Ending, Threads

LEMMA NextSaveInv == IType /\ SaveInv /\ [Next]_vars => SaveInv'
<1> SUFFICES ASSUME IType, SaveInv, [Next]_vars PROVE SaveInv'
  OBVIOUS
<1>a. /\ lock \in Ending \cup {None} /\ jvm \in {"up", "exiting", "halted"}
      /\ at \in [Threads -> {"idle", "lock", "exit", "blocked", "done", "dead"}
                             \cup Section]
      /\ LocksOK /\ timer \in {"idle", "open", "write"}
      /\ torn \in BOOLEAN /\ met \in BOOLEAN
  BY DEF IType, TypeOK, DataOK
<1> USE ThreadAssumption DEF LocksOK, SaveInv, saving, saved, UpToClose, Ending, Threads,
     Section, AfterSave, procVars, listenVars, userVars, fileVars, timerVars
<1>1. CASE Signal
  BY <1>a, <1>1 DEF Signal, Goes
<1>2. CASE Halt
  BY <1>a, <1>2 DEF Halt
<1>3. CASE TimerBegins
  BY <1>a, <1>3 DEF TimerBegins
<1>4. CASE TimerOpens
  BY <1>a, <1>4 DEF TimerOpens
<1>5. CASE TimerWrites
  <2>1. ~met => ~torn'
    BY <1>a, <1>5 DEF TimerWrites, Write
  <2> QED
    BY <1>a, <1>5, <2>1 DEF TimerWrites, Write
<1>6. CASE Reload
  BY <1>a, <1>6 DEF Reload, Goes
<1>7. CASE StartListeners
  BY <1>a, <1>7 DEF StartListeners, Goes, Cleared
<1>8. ASSUME NEW l \in Listeners, Bound(l) PROVE SaveInv'
  BY <1>a, <1>8 DEF Bound
<1>9. ASSUME NEW t \in Threads, NEW l \in Listeners, CloseListener(t, l)
      PROVE SaveInv'
  BY <1>a, <1>9 DEF CloseListener
<1>10. ASSUME NEW t \in Threads, Throw(t) PROVE SaveInv'
  BY <1>a, <1>10 DEF Throw
<1>11. ASSUME NEW t \in Ending, Stop(t) PROVE SaveInv'
  BY <1>a, <1>11 DEF Stop, Goes
<1>12. ASSUME NEW t \in Ending, Acquire(t) PROVE SaveInv'
  BY <1>a, <1>12 DEF Acquire, Goes
<1>13. ASSUME NEW t \in Ending, AlreadyStopping(t) PROVE SaveInv'
  BY <1>a, <1>13 DEF AlreadyStopping, Goes
<1>14. ASSUME NEW t \in Ending, StopListeners(t) PROVE SaveInv'
  BY <1>a, <1>14 DEF StopListeners, Goes
<1>15. ASSUME NEW t \in Ending, Sweep(t) PROVE SaveInv'
  BY <1>a, <1>15 DEF Sweep, Goes, Cleared
<1>16. ASSUME NEW t \in Ending, NEW u \in Users, Disconnect(t, u) PROVE SaveInv'
  BY <1>a, <1>16 DEF Disconnect, ServerDisconnect
<1>17. ASSUME NEW t \in Ending, SweepEnds(t) PROVE SaveInv'
  BY <1>a, <1>17 DEF SweepEnds, Goes
<1>18. ASSUME NEW t \in Ending, Save(t) PROVE SaveInv'
  BY <1>a, <1>18 DEF Save, Goes
<1>19. ASSUME NEW t \in Ending, SaveOpens(t) PROVE SaveInv'
  BY <1>a, <1>19 DEF SaveOpens, Goes
<1>20. ASSUME NEW t \in Ending, SaveWrites(t) PROVE SaveInv'
  <2>1. ~met => ~torn'
    BY <1>a, <1>20 DEF SaveWrites, Write
  <2>2. \A s \in Ending : at'[s] \in {"open", "write"} => s = t
    BY <1>a, <1>20 DEF SaveWrites, Goes
  <2>3. ~met => timer = "idle"
    BY <1>a, <1>20 DEF SaveWrites, Goes
  <2> QED
    BY <1>a, <1>20, <2>1, <2>2, <2>3 DEF SaveWrites, Goes, Write
<1>21. ASSUME NEW t \in Ending, Close(t) PROVE SaveInv'
  BY <1>a, <1>21 DEF Close, Goes
<1>22. ASSUME NEW t \in Ending, CancelTimer(t) PROVE SaveInv'
  BY <1>a, <1>22 DEF CancelTimer, Goes
<1>23. ASSUME NEW t \in Ending, DisablePlugins(t) PROVE SaveInv'
  BY <1>a, <1>23 DEF DisablePlugins, Goes
<1>24. ASSUME NEW t \in Ending, ShutdownGracefully(t) PROVE SaveInv'
  BY <1>a, <1>24 DEF ShutdownGracefully, Goes
<1>25. ASSUME NEW t \in Ending, AwaitTermination(t) PROVE SaveInv'
  BY <1>a, <1>25 DEF AwaitTermination, Goes
<1>26. ASSUME NEW t \in Ending, Unlock(t) PROVE SaveInv'
  BY <1>a, <1>26 DEF Unlock, Goes
<1>27. ASSUME NEW t \in Ending, Exit(t) PROVE SaveInv'
  BY <1>a, <1>27 DEF Exit
<1>28. ASSUME NEW u \in Users, Accept(u) PROVE SaveInv'
  BY <1>a, <1>28 DEF Accept
<1>29. ASSUME NEW u \in Users, LeaveLogin(u) PROVE SaveInv'
  BY <1>a, <1>29 DEF LeaveLogin
<1>30. ASSUME NEW u \in Users, Run(u) PROVE SaveInv'
  BY <1>a, <1>30 DEF Run
<1>31. ASSUME NEW u \in Users, Join(u) PROVE SaveInv'
  BY <1>a, <1>31 DEF Join
<1>32. ASSUME NEW u \in Users, UpstreamDisconnected(u) PROVE SaveInv'
  BY <1>a, <1>32 DEF UpstreamDisconnected, ServerDisconnect
<1>33. ASSUME NEW u \in Users, DownstreamDisconnected(u) PROVE SaveInv'
  BY <1>a, <1>33 DEF DownstreamDisconnected
<1>34. CASE UNCHANGED vars
  BY <1>a, <1>34 DEF vars
<1>35. CASE TimerFails
  <2>1. CASE timer = "open"
    BY <1>a, <1>35, <2>1 DEF TimerFails
  <2>2. CASE timer = "write"
    <3>1. saved => failed'
      BY <1>35, <2>2 DEF TimerFails
    <3> QED
      BY <1>a, <1>35, <2>2, <3>1 DEF TimerFails
  <2> QED
    BY <1>35, <2>1, <2>2 DEF TimerFails
<1>36. ASSUME NEW t \in Ending, SaveFails(t) PROVE SaveInv'
  BY <1>a, <1>36 DEF SaveFails, Goes
<1> QED
  BY <1>1, <1>2, <1>3, <1>4, <1>5, <1>6, <1>7, <1>8, <1>9, <1>10, <1>11,
     <1>12, <1>13, <1>14, <1>15, <1>16, <1>17, <1>18, <1>19, <1>20, <1>21,
     <1>22, <1>23, <1>24, <1>25, <1>26, <1>27, <1>28, <1>29, <1>30, <1>31,
     <1>32, <1>33, <1>34, <1>35, <1>36
     DEF Next, Timer, Closes, Stops, User, Halted

\* What the shutdown saved stays in the file.
THEOREM SavedIsKept == Spec => []LocationsKept
<1>1. SaveInv => LocationsKept
  BY DEF SaveInv, LocationsKept
<1> QED
  BY InitType, NextType, InitSaveInv, NextSaveInv, <1>1, PTL DEF Spec

-----------------------------------------------------------------------------
(* What StopHalts needs of safety: nobody waits in a circle *)

\* The stop is in somebody's hands, in those of the hook once the JVM exits.
Handed ==
    /\ jvm = "up" <=> at[Hook] = "idle"
    /\ at[Hook] # "blocked"
    /\ jvm = "up" => \A t \in Stoppers : at[t] # "blocked"
    /\ jvm = "up" /\ ~isRunning =>
         \E s \in Stoppers : at[s] \in (Section \ {"test"}) \cup {"exit", "dead"}
    /\ jvm = "up" /\ asked =>
         \E s \in Stoppers : at[s] \in Section \cup {"lock", "exit", "dead"}

\* Once the stop was asked for, a thread that waits for no other one carries it
\* on, until the hook is through or a thread died: who has the lock is in the
\* section, and who awaits the loops keeps no user from leaving.
StopMoves ==
    asked =>
        \/ thrown \/ at[Hook] = "done"
        \/ \E t \in Ending :
             \/ at[t] \in Section \cup {"exit"} /\ (at[t] = "await" => ~reading)
             \/ at[t] = "lock" /\ lock = None

\* A thread gets on with the stop.
Onward(t) ==
    /\ at[t] \in Section /\ UNCHANGED jvm
    /\ \E q \in (Section \ {"test"}) \cup {"exit", "dead"} : at' = [at EXCEPT ![t] = q]

\* A thread gets the lock, and there may be nothing left to do.
Enters(t) ==
    /\ UNCHANGED <<jvm, isRunning>>
    /\ \/ Goes(t, "lock", "test")
       \/ ~isRunning /\ Goes(t, "test", "done")

LEMMA StopSteps ==
    ASSUME IType, Next
    PROVE  \/ UNCHANGED <<jvm, at, isRunning>> \/ Halt \/ Signal
           \/ UNCHANGED <<jvm, isRunning>> /\ \E q : at' = [at EXCEPT ![Console] = q]
           \/ \E t \in Ending : Onward(t) \/ Enters(t) \/ Stop(t) \/ Exit(t)
<1> USE DEF Section, AfterSave
<1>1. ASSUME NEW t \in Ending, Stops(t)
      PROVE  Onward(t) \/ Enters(t) \/ Exit(t) \/ UNCHANGED <<jvm, at, isRunning>>
  <2>1. CASE \/ StopListeners(t) \/ Sweep(t) \/ SweepEnds(t) \/ Save(t) \/ SaveOpens(t)
             \/ SaveWrites(t) \/ SaveFails(t) \/ Close(t)
    BY <2>1 DEF StopListeners, Sweep, SweepEnds, Save, SaveOpens, SaveWrites, SaveFails,
                Close, Goes, Onward, procVars
  <2>2. CASE \/ CancelTimer(t) \/ DisablePlugins(t) \/ ShutdownGracefully(t)
             \/ AwaitTermination(t) \/ Unlock(t)
    BY <2>2 DEF CancelTimer, DisablePlugins, ShutdownGracefully, AwaitTermination, Unlock,
                Goes, Onward, procVars
  <2>3. CASE Acquire(t) \/ AlreadyStopping(t)
    BY <2>3 DEF Acquire, AlreadyStopping, Enters
  <2>4. ASSUME NEW u \in Users, Disconnect(t, u) PROVE UNCHANGED <<jvm, at, isRunning>>
    BY <2>4 DEF Disconnect, procVars
  <2> QED
    BY <1>1, <2>1, <2>2, <2>3, <2>4 DEF Stops
<1>2. ASSUME NEW t \in Threads, Closes(t)
      PROVE  \/ UNCHANGED <<jvm, at, isRunning>>
             \/ t \in Ending /\ Onward(t)
             \/ UNCHANGED <<jvm, isRunning>> /\ \E q : at' = [at EXCEPT ![Console] = q]
  <2>1. ASSUME NEW l \in Listeners, CloseListener(t, l) PROVE UNCHANGED <<jvm, at, isRunning>>
    BY <2>1 DEF CloseListener, procVars
  <2>2. CASE Throw(t) /\ t = Console
    <3>1. UNCHANGED <<jvm, isRunning>> /\ at' = [at EXCEPT ![Console] = "idle"]
      BY <2>2 DEF Throw, procVars
    <3> QED
      BY <3>1
  <2>3. CASE Throw(t) /\ t # Console
    <3>1. /\ t \in Ending /\ UNCHANGED jvm /\ at[t] = "listeners"
          /\ at' = [at EXCEPT ![t] = "dead"]
      BY <2>3 DEF Throw, Threads, procVars
    <3> QED
      BY <3>1 DEF Onward
  <2> QED
    BY <1>2, <2>1, <2>2, <2>3 DEF Closes
<1>3. ASSUME Timer \/ (\E l \in Listeners : Bound(l)) \/ (\E u \in Users : User(u)) \/ Halted
      PROVE  UNCHANGED <<jvm, at, isRunning>>
  BY <1>3 DEF Timer, TimerBegins, TimerOpens, TimerWrites, TimerFails, Bound, User, Accept,
              LeaveLogin, Run, Join, UpstreamDisconnected, DownstreamDisconnected, Halted, vars, procVars
<1>4. ASSUME Reload \/ StartListeners
      PROVE  UNCHANGED <<jvm, isRunning>> /\ \E q : at' = [at EXCEPT ![Console] = q]
  BY <1>4 DEF Reload, StartListeners, Goes, procVars
<1> QED
  BY <1>1, <1>2, <1>3, <1>4 DEF Next

LEMMA NextHanded == IType /\ Handed /\ [Next]_vars => Handed'
<1> SUFFICES ASSUME IType, Handed, [Next]_vars PROVE Handed'
  OBVIOUS
<1>a. at \in [Threads -> {"idle", "lock", "exit", "blocked", "done", "dead"} \cup Section]
  BY DEF IType, TypeOK, DataOK
<1> USE <1>a, ThreadAssumption DEF Handed, asked, Ending, Threads, Section, AfterSave
<1>1. CASE UNCHANGED <<jvm, at, isRunning>>
  BY <1>1
<1>2. CASE Halt
  BY <1>2 DEF Halt, procVars
<1>3. CASE Signal
  BY <1>3 DEF Signal, Goes
<1>4. ASSUME UNCHANGED <<jvm, isRunning>>, NEW q, at' = [at EXCEPT ![Console] = q]
      PROVE  Handed'
  BY <1>4
<1>5. ASSUME NEW t \in Ending, Onward(t) PROVE Handed'
  BY <1>5 DEF Onward
<1>6. ASSUME NEW t \in Ending, Enters(t) PROVE Handed'
  BY <1>6 DEF Enters, Goes
<1>7. ASSUME NEW t \in Ending, Stop(t) PROVE Handed'
  BY <1>7 DEF Stop, Goes, procVars
<1>8. ASSUME NEW t \in Ending, Exit(t) PROVE Handed'
  BY <1>8 DEF Exit
<1>9. CASE UNCHANGED vars
  BY <1>1, <1>9 DEF vars, procVars
<1> QED
  BY <1>1, <1>2, <1>3, <1>4, <1>5, <1>6, <1>7, <1>8, <1>9, StopSteps

\* No circle of waiting threads, with any number of calls of stop(), signals and
\* users: independentThreadStop's lock, the read lock of its loop over the users,
\* awaitTermination and the System.exit of each thread.
THEOREM NoCircle == Spec => []StopMoves
<1>1. Init => Handed
  BY ThreadAssumption DEF Init, Handed, asked, Ending, Threads, Section, AfterSave
<1>2. ASSUME IType, Handed PROVE StopMoves
  <2> SUFFICES ASSUME asked, ~thrown, at[Hook] # "done",
                      \A t \in Ending : at[t] # "lock" \/ lock # None
               PROVE  \E t \in Ending : /\ at[t] \in Section \cup {"exit"}
                                        /\ at[t] = "await" => ~reading
    BY DEF StopMoves
  <2>1. /\ lock \in Ending \cup {None} /\ LocksOK /\ Hook \in Ending
        /\ \A t \in Ending : at[t] \in {"idle", "lock", "exit", "blocked", "done"} \cup Section
    BY <1>2 DEF IType, TypeOK, DataOK, thrown, Ending, Threads
  <2>2. \E t \in Ending : at[t] \in Section \cup {"exit", "lock"}
    BY <1>2, <2>1 DEF Handed, Ending
  <2>3. PICK t \in Ending : at[t] \in Section \cup {"exit"}
    BY <2>1, <2>2 DEF LocksOK, thrown
  <2>4. reading => at[t] # "await"
    <3> SUFFICES ASSUME reading, at[t] = "await" PROVE FALSE
      OBVIOUS
    <3>1. PICK s \in Ending : at[s] = "sweep"
      BY <2>1 DEF LocksOK
    <3>2. lock = s /\ lock = t
      BY <2>1, <3>1 DEF LocksOK, Section, AfterSave
    <3> QED
      BY <3>1, <3>2
  <2> QED
    BY <2>3, <2>4
<1> QED
  BY InitType, NextType, NextHanded, <1>1, <1>2, PTL DEF Spec
=============================================================================
