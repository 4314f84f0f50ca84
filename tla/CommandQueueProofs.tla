------------------------- MODULE CommandQueueProofs -------------------------
(***************************************************************************)
(* Theorems about CommandQueue, for any addresses and number of reloads.   *)
(***************************************************************************)
EXTENDS CommandQueue, TLAPS

\* The initial state is well typed.
LEMMA InitType == Init => TypeOK
<1> SUFFICES ASSUME Init PROVE TypeOK
  OBVIOUS
<1> USE QueueAssumption DEF Init, Runners
<1>1. reloads \in 0 .. MaxReloads
  OBVIOUS
<1>2. at \in [Runners -> {"none", "loop", "claim", "stopped"} \cup Section]
  OBVIOUS
<1>3. \A r \in Runners : /\ r > reloads => at[r] = "none"
                        /\ at[r] # "remove"
  OBVIOUS
<1> QED
  BY <1>1, <1>2, <1>3 DEF TypeOK

\* Every step keeps the types and the parts of a runner's state together.
LEMMA NextType == TypeOK /\ [Next]_vars => TypeOK'
<1> SUFFICES ASSUME TypeOK, [Next]_vars PROVE TypeOK'
  OBVIOUS
<1> USE QueueAssumption DEF TypeOK, Runners, Section
<1>1. ASSUME NEW a \in Addresses, Firewall(a) PROVE TypeOK'
  BY <1>1 DEF Firewall, runVars
<1>3. CASE Reload
  <2>1. reloads' = reloads + 1 /\ reloads' \in Runners
    BY <1>3 DEF Reload
  <2>2. at[reloads'] = "none"
    BY <2>1
  <2>3. /\ at'[reloads'] \in {"none", "loop"}
        /\ \A r \in Runners : r # reloads' => at'[r] = at[r]
    BY <1>3, <2>1 DEF Reload, Started
  <2>4. rest[reloads'] = {} /\ commands[reloads'] = {} /\ command[reloads'] = None
    BY <2>1, <2>2
  <2>5. at' \in [Runners -> {"none", "loop", "claim", "stopped"} \cup Section]
    BY <1>3 DEF Reload, Started
  <2>6. UNCHANGED <<commandQueue, processing, shutdown, rest, command, commands, owed>>
    BY <1>3 DEF Reload
  <2>7. \A r \in Runners : r > reloads' => at'[r] = "none"
    BY <2>1, <2>3
  <2> QED
    BY <2>1, <2>3, <2>4, <2>5, <2>6, <2>7
<1>4. CASE Shutdown
  BY <1>4 DEF Shutdown, runVars
<1>5. ASSUME NEW r \in Runners, Runs(r) PROVE TypeOK'
  <2>1. CASE Stop(r)
    BY <2>1 DEF Stop, Goes
  <2>2. CASE Test(r)
    BY <2>2 DEF Test, Goes
  <2>3. CASE Claim(r)
    BY <2>3 DEF Claim, Goes
  <2>4. CASE Remove(r)
    BY <2>4 DEF Remove, Goes
  <2>5. CASE EndOfQueue(r)
    BY <2>5 DEF EndOfQueue, Goes
  <2>6. CASE RunLinuxCommand(r)
    BY <2>6 DEF RunLinuxCommand, Goes
  <2>7. CASE Finally(r)
    BY <2>7 DEF Finally, Goes
  <2>8. ASSUME NEW c \in Addresses, TakeNext(r, c) PROVE TypeOK'
    BY <2>8 DEF TakeNext, Goes
  <2> QED
    BY <1>5, <2>1, <2>2, <2>3, <2>4, <2>5, <2>6, <2>7, <2>8 DEF Runs
<1>6. CASE UNCHANGED vars
  BY <1>6 DEF vars, runVars
<1> QED
  BY <1>1, <1>3, <1>4, <1>5, <1>6 DEF Next

\* The queue, the flag and the runners always hold what their types say, and
\* a runner out of runQueuedLinuxCommands has no batch.
THEOREM TypeCorrect == Spec => []TypeOK
  BY InitType, NextType, PTL DEF Spec

\* A step loses no command: whoever takes it out of the queue has appended it
\* to a batch before.
LEMMA NextKeeps == TypeOK /\ NoCommandLost /\ [Next]_vars => NoCommandLost'
<1> SUFFICES ASSUME TypeOK, NoCommandLost, [Next]_vars PROVE NoCommandLost'
  OBVIOUS
<1> USE DEF NoCommandLost
<1>1. ASSUME NEW a \in Addresses, Firewall(a) PROVE NoCommandLost'
  BY <1>1 DEF Firewall, runVars
<1>3. CASE Reload
  <2> SUFFICES ASSUME NEW a \in owed', a \notin commandQueue'
               PROVE \E r \in Runners : /\ at'[r] \in {"iterate", "remove", "exec"}
                                        /\ a \in commands'[r]
    OBVIOUS
  <2>1. PICK r \in Runners : /\ at[r] \in {"iterate", "remove", "exec"}
                             /\ a \in commands[r]
    BY <1>3 DEF Reload
  <2>2. at'[r] = at[r] \/ r = reloads + 1
    BY <1>3 DEF Reload, Started, TypeOK
  <2>3. r # reloads + 1
    BY <2>1 DEF TypeOK, Runners
  <2> QED
    BY <1>3, <2>1, <2>2, <2>3 DEF Reload
<1>4. CASE Shutdown
  BY <1>4 DEF Shutdown, runVars
<1>5. ASSUME NEW r \in Runners, Runs(r) PROVE NoCommandLost'
  <2> USE DEF TypeOK, Section
  <2>1. CASE Stop(r)
    BY <2>1 DEF Stop, Goes
  <2>2. CASE Test(r)
    BY <2>2 DEF Test, Goes
  <2>3. CASE Claim(r)
    BY <2>3 DEF Claim, Goes
  <2>4. CASE Remove(r)
    BY <2>4 DEF Remove, Goes
  <2>5. CASE EndOfQueue(r)
    BY <2>5 DEF EndOfQueue, Goes
  <2>6. CASE RunLinuxCommand(r)
    BY <2>6 DEF RunLinuxCommand, Goes
  <2>7. CASE Finally(r)
    BY <2>7 DEF Finally, Goes
  <2>8. ASSUME NEW c \in Addresses, TakeNext(r, c) PROVE NoCommandLost'
    BY <2>8 DEF TakeNext, Goes
  <2> QED
    BY <1>5, <2>1, <2>2, <2>3, <2>4, <2>5, <2>6, <2>7, <2>8 DEF Runs
<1>6. CASE UNCHANGED vars
  BY <1>6 DEF vars, runVars
<1> QED
  BY <1>1, <1>3, <1>4, <1>5, <1>6 DEF Next

\* No command that firewall() queued is lost, with any number of runners: the
\* command a runner removes is always in its batch, and only the end of the
\* call that hands the batch over empties it.
THEOREM NothingLost == Spec => []NoCommandLost
<1>1. Init => NoCommandLost
  BY DEF Init, NoCommandLost
<1> QED
  BY <1>1, TypeCorrect, NextKeeps, PTL DEF Spec

\* The flag is set only while a runner is in its section, and a runner that was
\* started goes on as long as FlameCord does.
FlagHeld ==
    /\ processing => \E r \in Runners : at[r] \in Section
    /\ ~shutdown => \A r \in Runners : at[r] # "stopped"

\* While there are commands, and a runner was ever started, there is a runner that
\* can go on: QueueDrains never waits for a flag that nobody will clear.
SomebodyDrains ==
    commandQueue # {} /\ ~shutdown /\ SomeRunner =>
        \E r \in Runners : \/ at[r] \in Section \cup {"claim"}
                           \/ at[r] = "loop" /\ ~processing

\* Whoever leaves the section has cleared the flag, whoever had set it.
LEMMA NextFlag == TypeOK /\ FlagHeld /\ [Next]_vars => FlagHeld'
<1> SUFFICES ASSUME TypeOK, FlagHeld, [Next]_vars PROVE FlagHeld'
  OBVIOUS
<1>a. /\ at \in [Runners -> {"none", "loop", "claim", "stopped"} \cup Section]
      /\ \A r \in Runners : r > reloads => at[r] = "none"
      /\ reloads \in 0 .. MaxReloads
  BY QueueAssumption DEF TypeOK, Runners
<1> USE <1>a DEF FlagHeld, Section
<1>1. ASSUME UNCHANGED <<processing, at>>, shutdown => shutdown' PROVE FlagHeld'
  BY <1>1
<1>2. CASE Reload
  <2>1. UNCHANGED <<processing, shutdown>> /\ reloads + 1 \in Runners
    BY <1>2, QueueAssumption DEF Reload, Runners
  <2>2. at[reloads + 1] = "none"
    BY <2>1 DEF Runners
  <2>3. /\ at'[reloads + 1] \in {"none", "loop"}
        /\ \A r \in Runners : r # reloads + 1 => at'[r] = at[r]
    BY <1>2, <2>1 DEF Reload, Started
  <2> QED
    BY <2>1, <2>2, <2>3
<1>3. ASSUME NEW r \in Runners, Stop(r) \/ Test(r) PROVE FlagHeld'
  BY <1>3 DEF Stop, Test, Goes
<1>4. ASSUME NEW r \in Runners, Claim(r) \/ Finally(r) PROVE FlagHeld'
  BY <1>4 DEF Claim, Finally, Goes
<1>5. ASSUME NEW r \in Runners, NEW p \in Section, NEW q \in Section, Goes(r, p, q),
             UNCHANGED <<processing, shutdown>>
      PROVE  FlagHeld'
  BY <1>5 DEF Goes
<1>6. ASSUME NEW r \in Runners,
             \/ Remove(r) \/ EndOfQueue(r) \/ RunLinuxCommand(r)
             \/ \E c \in Addresses : TakeNext(r, c)
      PROVE  FlagHeld'
  BY <1>5, <1>6 DEF Remove, EndOfQueue, RunLinuxCommand, TakeNext
<1> QED
  BY <1>1, <1>2, <1>3, <1>4, <1>6
     DEF Next, Firewall, Shutdown, Runs, runVars, vars

\* However many runners reloads have left behind, and whichever clears the flag
\* of another, the queue is never left with nobody to drain it, unless no load of
\* the configuration ever had antibot.firewall.ipset on.
THEOREM NeverStuck == Spec => []SomebodyDrains
<1>1. Init => FlagHeld
  BY QueueAssumption DEF Init, FlagHeld, Runners
<1>2. ASSUME TypeOK, FlagHeld PROVE SomebodyDrains
  <2> SUFFICES ASSUME ~shutdown, ~processing, SomeRunner
               PROVE  \E r \in Runners : at[r] \in Section \cup {"claim", "loop"}
    BY <1>2 DEF FlagHeld, SomebodyDrains
  <2> QED
    BY <1>2 DEF TypeOK, FlagHeld, SomeRunner
<1> QED
  BY <1>1, <1>2, NextFlag, TypeCorrect, PTL DEF Spec
=============================================================================
