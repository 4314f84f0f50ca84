------------------------------ MODULE Throttle ------------------------------
(***************************************************************************)
(* ConnectionThrottle: the connections of one address, each on an event    *)
(* loop of its own, count themselves in the counter of a cache entry that  *)
(* expires; an answered status ping, which may come from the thread that   *)
(* asked the backend or from a plugin's, takes its connection out again.   *)
(*                                                                         *)
(* The cache and the counter are thread safe each for itself: to look the  *)
(* counter up and to change it are two steps, between which the entry may  *)
(* expire.  A window is the life of an entry.  How long that is is left    *)
(* open: an entry may expire at any time after it was made.                *)
(***************************************************************************)
EXTENDS Integers, FiniteSets

CONSTANTS
    Conns,         \* the connections that the address makes, in any order
    throttleLimit,
    MaxWindows     \* bound: entries made for the address

ASSUME ThrottleAssumption ==
    IsFiniteSet(Conns) /\ throttleLimit \in Nat /\ MaxWindows \in Nat

Windows == 1 .. MaxWindows

VARIABLES
    entry,   \* the counter that the cache holds, or 0
    made,    \* how many there have been
    count,   \* the values of the counters, the expired ones too
    at,      \* where a connection is
    holds,   \* the counter that a connection has looked up
    counted, \* history: who was counted in a window
    passed,  \* history: ... and let in
    returned \* history: whose ping was taken out of the counter of a window

vars == <<entry, made, count, at, holds, counted, passed, returned>>

Init ==
    /\ entry = 0 /\ made = 0
    /\ count = [w \in Windows |-> 0]
    /\ at = [c \in Conns |-> "new"]
    /\ holds = [c \in Conns |-> 0]
    /\ counted = [w \in Windows |-> {}]
    /\ passed = [w \in Windows |-> {}]
    /\ returned = [w \in Windows |-> {}]

Goes(c, p, q) == at[c] = p /\ at' = [at EXCEPT ![c] = q]

Expire ==
    /\ entry # 0
    /\ entry' = 0
    /\ UNCHANGED <<made, count, at, holds, counted, passed, returned>>

-----------------------------------------------------------------------------
(* throttle, when the channel of a client is made *)

\* getUnchecked: an entry that is not there is loaded.
GetUnchecked(c) ==
    /\ Goes(c, "new", "increment")
    /\ \/ entry # 0 /\ UNCHANGED <<entry, made>>
       \/ /\ entry = 0 /\ made < MaxWindows
          /\ entry' = made + 1 /\ made' = made + 1
    /\ holds' = [holds EXCEPT ![c] = entry']
    /\ UNCHANGED <<count, counted, passed, returned>>

\* Mutants of IncrementAndGet: the value before the increment is compared; the
\* limit itself is refused.
GetAndIncrement(c) ==
    LET w == holds[c] IN
    /\ at[c] = "increment"
    /\ count' = [count EXCEPT ![w] = @ + 1]
    /\ at' = [at EXCEPT ![c] = IF count[w] > throttleLimit THEN "closed" ELSE "open"]
    /\ counted' = [counted EXCEPT ![w] = @ \cup {c}]
    /\ passed' = [passed EXCEPT ![w] =
                    IF count[w] > throttleLimit THEN @ ELSE @ \cup {c}]
    /\ UNCHANGED <<entry, made, holds, returned>>

IncrementAndRefuseLimit(c) ==
    LET w == holds[c] IN
    /\ at[c] = "increment"
    /\ count' = [count EXCEPT ![w] = @ + 1]
    /\ at' = [at EXCEPT ![c] = IF count'[w] >= throttleLimit THEN "closed" ELSE "open"]
    /\ counted' = [counted EXCEPT ![w] = @ \cup {c}]
    /\ passed' = [passed EXCEPT ![w] =
                    IF count'[w] >= throttleLimit THEN @ ELSE @ \cup {c}]
    /\ UNCHANGED <<entry, made, holds, returned>>

\* A connection above the limit is closed, and stays counted.
IncrementAndGet(c) ==
    LET w == holds[c] IN
    /\ at[c] = "increment"
    /\ count' = [count EXCEPT ![w] = @ + 1]
    /\ at' = [at EXCEPT ![c] = IF count'[w] > throttleLimit THEN "closed" ELSE "open"]
    /\ counted' = [counted EXCEPT ![w] = @ \cup {c}]
    /\ passed' = [passed EXCEPT ![w] =
                    IF count'[w] > throttleLimit THEN @ ELSE @ \cup {c}]
    /\ UNCHANGED <<entry, made, holds, returned>>

-----------------------------------------------------------------------------
(* unthrottle, when the answer to a status ping has been sent *)

\* getIfPresent; the connection may have been closed long since.
GetIfPresent(c) ==
    /\ Goes(c, "open", IF entry = 0 THEN "closed" ELSE "decrement")
    /\ holds' = [holds EXCEPT ![c] = entry]
    /\ UNCHANGED <<entry, made, count, counted, passed, returned>>

\* Mutant of DecrementAndGet: the counter is not stored back.
DecrementNothing(c) ==
    /\ Goes(c, "decrement", "closed")
    /\ returned' = [returned EXCEPT ![holds[c]] = @ \cup {c}]
    /\ UNCHANGED <<entry, made, count, holds, counted, passed>>

\* The counter may be one that the connection was never counted in.
DecrementAndGet(c) ==
    /\ Goes(c, "decrement", "closed")
    /\ count' = [count EXCEPT ![holds[c]] = @ - 1]
    /\ returned' = [returned EXCEPT ![holds[c]] = @ \cup {c}]
    /\ UNCHANGED <<entry, made, holds, counted, passed>>

Connection(c) ==
    \/ GetUnchecked(c) \/ IncrementAndGet(c)
    \/ GetIfPresent(c) \/ DecrementAndGet(c)

Next == Expire \/ \E c \in Conns : Connection(c)

Spec == Init /\ [][Next]_vars

-----------------------------------------------------------------------------
(* Properties *)

\* Those of a window that hold a place in it: counted, and not answered there.
placed(w) == counted[w] \ returned[w]

\* Those answered in a window who were counted in an earlier one.
late(w) == returned[w] \ counted[w]

\* Types, and what a counter adds up to.
TypeOK ==
    /\ made \in 0 .. MaxWindows /\ entry \in {0, made}
    /\ count \in [Windows -> Int]
    /\ at \in [Conns -> {"new", "increment", "open", "decrement", "closed"}]
    /\ holds \in [Conns -> 0 .. made]
    /\ counted \in [Windows -> SUBSET Conns]
    /\ passed \in [Windows -> SUBSET Conns]
    /\ returned \in [Windows -> SUBSET Conns]
    /\ \A w \in Windows :
          /\ passed[w] \subseteq counted[w]
          /\ count[w] = Cardinality(placed(w)) - Cardinality(late(w))

\* Nobody is turned away while the connections that hold a place, itself among
\* them, are within the limit: answered pings give their places back, whichever
\* counter they find.
RefusalDeserved ==
    [][\A c \in Conns :
          IncrementAndGet(c) /\ at'[c] = "closed" =>
              Cardinality(placed(holds[c])') > throttleLimit]_vars

\* Of the connections that hold a place in a window no more than the limit were
\* let in, and one more for each answer that came too late for its own window:
\* an entry that expires between the two calls, or a counter below zero, lets
\* in that many more and never a burst.
PassesBounded ==
    \A w \in Windows :
        Cardinality(passed[w] \cap placed(w))
            <= throttleLimit + Cardinality(late(w))
=============================================================================
