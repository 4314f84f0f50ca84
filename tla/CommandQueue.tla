---------------------------- MODULE CommandQueue ----------------------------
(***************************************************************************)
(* The queue of ipset commands of FlameCord's firewall: event loops and    *)
(* command threads add to a concurrent set, and a runner thread takes the  *)
(* commands out and hands them to the operating system as one batch, once  *)
(* a second.  A runner is started at the start and at each reload if the   *)
(* setting antibot.firewall.ipset is then on; commands are added all the   *)
(* same, so that with the setting off nobody takes them out.               *)
(*                                                                         *)
(* An address stands for its command "ipset add".  Adding is atomic, as    *)
(* the set makes it; everything a runner does is a step of its own, since  *)
(* neither the set nor the flag `processing' is locked.  What the shell    *)
(* makes of a batch is outside: it is "handed over" when runtime.exec is   *)
(* called.  How long a block lasts is the matter of module Antibot.        *)
(***************************************************************************)
EXTENDS Naturals, FiniteSets

CONSTANTS
    Addresses,
    Whitelist,   \* antibot.firewall.whitelist
    MaxReloads,  \* bound: /flamecord reload
    None

ASSUME QueueAssumption == MaxReloads \in Nat /\ None \notin Addresses

\* The first start is a reload too; a runner is named after the one it comes from.
Runners == 0 .. MaxReloads

VARIABLES
    commandQueue,
    processing,
    shutdown,
    reloads,
    at,          \* where a runner is; "none" if it was not started
    rest,        \* what its iterator was created over and has not met yet
    command,     \* what iterator.next() gave it
    commands,    \* what it has appended so far
    owed         \* history: queued by firewall() and not handed over since

runVars == <<at, rest, command, commands>>
vars == <<commandQueue, processing, shutdown, reloads, runVars, owed>>

\* isAntibotFirewallIpset() of the configuration just read; runner r starts if so.
Started(r) == \E ipset \in BOOLEAN :
    at' = [at EXCEPT ![r] = IF ipset THEN "loop" ELSE "none"]

Init ==
    /\ commandQueue = {} /\ owed = {}
    /\ processing = FALSE /\ shutdown = FALSE
    /\ reloads = 0
    /\ \E ipset \in BOOLEAN :
         at = [r \in Runners |-> IF r = 0 /\ ipset THEN "loop" ELSE "none"]
    /\ rest = [r \in Runners |-> {}]
    /\ command = [r \in Runners |-> None]
    /\ commands = [r \in Runners |-> {}]

-----------------------------------------------------------------------------
(* AddressData.firewall, by any thread; it does not ask for the setting *)

Firewall(a) ==
    /\ a \notin Whitelist
    /\ commandQueue' = commandQueue \cup {a}
    /\ owed' = owed \cup {a}
    /\ UNCHANGED <<processing, shutdown, reloads, runVars>>

-----------------------------------------------------------------------------
(* FlameCord.reload and shutdown *)

\* One more runner, if the setting is on; those of before go on, with the queue.
Reload ==
    /\ reloads < MaxReloads
    /\ reloads' = reloads + 1
    /\ Started(reloads')
    /\ UNCHANGED <<commandQueue, processing, shutdown, rest, command, commands,
                   owed>>

Shutdown ==
    /\ ~shutdown
    /\ shutdown' = TRUE
    /\ UNCHANGED <<commandQueue, processing, reloads, runVars, owed>>

-----------------------------------------------------------------------------
(* runQueuedLinuxCommands *)

Goes(r, p, q) == at[r] = p /\ at' = [at EXCEPT ![r] = q]

Stop(r) ==
    /\ shutdown
    /\ Goes(r, "loop", "stopped")
    /\ UNCHANGED <<commandQueue, processing, shutdown, reloads, rest,
                   command, commands, owed>>

\* The test of the flag and its assignment are two steps.
Test(r) ==
    /\ ~shutdown
    /\ commandQueue # {} /\ ~processing
    /\ Goes(r, "loop", "claim")
    /\ UNCHANGED <<commandQueue, processing, shutdown, reloads, rest,
                   command, commands, owed>>

Claim(r) ==
    /\ Goes(r, "claim", "iterate")
    /\ processing' = TRUE
    /\ rest' = [rest EXCEPT ![r] = commandQueue]
    /\ UNCHANGED <<commandQueue, shutdown, reloads, command, commands,
                   owed>>

\* The iterator is weakly consistent: it meets what stays in the set, may meet
\* what is added meanwhile, and may still give what another runner removed.
TakeNext(r, c) ==
    /\ c \in rest[r] \cup (commandQueue \ commands[r])
    /\ Goes(r, "iterate", "remove")
    /\ command' = [command EXCEPT ![r] = c]
    /\ rest' = [rest EXCEPT ![r] = @ \ {c}]
    /\ commands' = [commands EXCEPT ![r] = @ \cup {c}]
    /\ UNCHANGED <<commandQueue, processing, shutdown, reloads, owed>>

Remove(r) ==
    /\ Goes(r, "remove", "iterate")
    /\ commandQueue' = commandQueue \ {command[r]}
    /\ command' = [command EXCEPT ![r] = None]
    /\ UNCHANGED <<processing, shutdown, reloads, rest, commands, owed>>

EndOfQueue(r) ==
    /\ rest[r] \cap commandQueue = {}
    /\ Goes(r, "iterate", "exec")
    /\ UNCHANGED <<commandQueue, processing, shutdown, reloads, rest,
                   command, commands, owed>>

\* Mutant of RunLinuxCommand: the queue is emptied when the batch is handed
\* over, instead of a command at a time.
RunAndClear(r) ==
    /\ Goes(r, "exec", "finally")
    /\ commandQueue' = {}
    /\ owed' = owed \ commands[r]
    /\ UNCHANGED <<processing, shutdown, reloads, rest, command,
                   commands>>

RunLinuxCommand(r) ==
    /\ Goes(r, "exec", "finally")
    /\ owed' = owed \ commands[r]
    /\ UNCHANGED <<commandQueue, processing, shutdown, reloads, rest,
                   command, commands>>

\* Mutant of Finally: the flag is not cleared.
FinallyNothing(r) ==
    /\ Goes(r, "finally", "loop")
    /\ rest' = [rest EXCEPT ![r] = {}]
    /\ commands' = [commands EXCEPT ![r] = {}]
    /\ UNCHANGED <<commandQueue, processing, shutdown, reloads,
                   command, owed>>

\* The flag is cleared, whoever set it, and the thread sleeps.
Finally(r) ==
    /\ Goes(r, "finally", "loop")
    /\ processing' = FALSE
    /\ rest' = [rest EXCEPT ![r] = {}]
    /\ commands' = [commands EXCEPT ![r] = {}]
    /\ UNCHANGED <<commandQueue, shutdown, reloads, command, owed>>

Runs(r) ==
    \/ Stop(r) \/ Test(r) \/ Claim(r) \/ Remove(r) \/ EndOfQueue(r)
    \/ RunLinuxCommand(r) \/ Finally(r)
    \/ \E c \in Addresses : TakeNext(r, c)

Next ==
    \/ \E a \in Addresses : Firewall(a)
    \/ Reload \/ Shutdown
    \/ \E r \in Runners : Runs(r)

Spec == Init /\ [][Next]_vars

\* A runner goes on and its sleeps end.
FairSpec == Spec /\ \A r \in Runners : WF_vars(Runs(r))

-----------------------------------------------------------------------------
(* Properties *)

Section == {"iterate", "remove", "exec", "finally"}

\* Types, and which parts of a runner's state are in use where.
TypeOK ==
    /\ commandQueue \subseteq Addresses
    /\ owed \subseteq Addresses
    /\ processing \in BOOLEAN /\ shutdown \in BOOLEAN
    /\ reloads \in 0 .. MaxReloads
    /\ at \in [Runners -> {"none", "loop", "claim", "stopped"} \cup Section]
    /\ rest \in [Runners -> SUBSET Addresses]
    /\ command \in [Runners -> Addresses \cup {None}]
    /\ commands \in [Runners -> SUBSET Addresses]
    /\ \A r \in Runners : /\ r > reloads => at[r] = "none"
                          /\ IF at[r] = "remove" THEN command[r] \in commands[r]
                             ELSE command[r] = None
                          /\ at[r] \notin Section =>
                               rest[r] = {} /\ commands[r] = {}

\* A command that firewall() queued is in the queue, or in the batch of a
\* runner that has yet to hand it over, until it is handed over: the iterator
\* of a runner never takes out unseen what another thread adds meanwhile, and
\* two runners at once do not lose a command between them.
NoCommandLost ==
    \A a \in owed :
        \/ a \in commandQueue
        \/ \E r \in Runners : at[r] \in {"iterate", "remove", "exec"}
                              /\ a \in commands[r]

\* Some load of the configuration had antibot.firewall.ipset on.
SomeRunner == \E r \in Runners : at[r] # "none"

\* Once a runner was started, every command in the queue is taken out while
\* FlameCord runs: the flag `processing' never stays set with nobody in the
\* section, whichever of the runners that reloads left behind cleared it.
QueueDrains ==
    \A a \in Addresses :
        (SomeRunner /\ a \in commandQueue) ~> (a \notin commandQueue \/ shutdown)
=============================================================================
