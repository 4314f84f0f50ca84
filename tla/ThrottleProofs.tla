--------------------------- MODULE ThrottleProofs ---------------------------
(***************************************************************************)
(* Throttle for any number of connections and windows and any limit: what  *)
(* a counter adds up to, and with it that nobody is turned away while      *)
(* there is a place, and that late answers let in one more each.           *)
(***************************************************************************)
EXTENDS Throttle, FiniteSetTheorems, TLAPS

\* A connection that is about to change a counter has looked one up; it is counted
\* once, and taken out once.
Turns ==
    \A c \in Conns :
        /\ at[c] \in {"increment", "decrement"} => holds[c] \in Windows
        /\ at[c] \in {"new", "increment"} => \A w \in Windows : c \notin counted[w]
        /\ at[c] # "closed" => \A w \in Windows : c \notin returned[w]

IInv == TypeOK /\ Turns /\ PassesBounded

-----------------------------------------------------------------------------
LEMMA Finite ==
  ASSUME NEW S \in SUBSET Conns
  PROVE  IsFiniteSet(S) /\ Cardinality(S) \in Nat
  BY ThrottleAssumption, FS_Subset, FS_CardinalityType

LEMMA Smaller ==
  ASSUME NEW S \in SUBSET Conns, NEW T \in SUBSET S
  PROVE  Cardinality(T) <= Cardinality(S)
  BY Finite, FS_Subset

\* The part of TypeOK that is about the counter of one window.
Sums(w) == /\ passed[w] \subseteq counted[w]
           /\ count[w] = Cardinality(placed(w)) - Cardinality(late(w))

Bounded(w) == Cardinality(passed[w] \cap placed(w))
                <= throttleLimit + Cardinality(late(w))

LEMMA InitInv == Init => IInv
<1>. SUFFICES ASSUME Init PROVE IInv
  OBVIOUS
<1>. throttleLimit \in Nat /\ 0 \in 0 .. MaxWindows
  BY ThrottleAssumption
<1>1. \A w \in Windows : placed(w) = {} /\ late(w) = {} /\ passed[w] = {}
  BY DEF Init, placed, late
<1>2. TypeOK
  BY <1>1, FS_EmptySet DEF Init, TypeOK
<1>3. Turns
  BY DEF Init, Turns
<1>4. PassesBounded
  BY <1>1, FS_EmptySet DEF PassesBounded
<1>. QED
  BY <1>2, <1>3, <1>4 DEF IInv

\* One who is counted takes a place; he is let in only if the counter allows it.
LEMMA IncrementInv ==
  ASSUME IInv, NEW c \in Conns, IncrementAndGet(c)
  PROVE  /\ IInv'
         /\ at'[c] = "closed" => Cardinality(placed(holds[c])') > throttleLimit
<1>. DEFINE v == holds[c]
<1>. throttleLimit \in Nat
  BY ThrottleAssumption
<1>1. /\ v \in Windows /\ at[c] = "increment" /\ UNCHANGED <<entry, made, holds, returned>>
      /\ count' = [count EXCEPT ![v] = @ + 1]
      /\ counted' = [counted EXCEPT ![v] = @ \cup {c}]
      /\ at' = [at EXCEPT ![c] = IF count'[v] > throttleLimit THEN "closed" ELSE "open"]
      /\ passed' = [passed EXCEPT ![v] = IF count'[v] > throttleLimit THEN @ ELSE @ \cup {c}]
  BY DEF IInv, Turns, IncrementAndGet
<1>2. /\ made \in 0 .. MaxWindows /\ entry \in {0, made} /\ count \in [Windows -> Int]
      /\ at \in [Conns -> {"new", "increment", "open", "decrement", "closed"}]
      /\ holds \in [Conns -> 0 .. made]
      /\ counted \in [Windows -> SUBSET Conns] /\ passed \in [Windows -> SUBSET Conns]
      /\ returned \in [Windows -> SUBSET Conns]
      /\ \A w \in Windows : Sums(w) /\ Bounded(w)
  BY DEF IInv, TypeOK, PassesBounded, Sums, Bounded
<1>3. \A w \in Windows : c \notin counted[w] /\ c \notin returned[w]
  BY <1>1 DEF IInv, Turns
<1>4. ASSUME NEW w \in Windows, w = v
      PROVE  /\ Sums(w)' /\ Bounded(w)'
             /\ count'[w] > throttleLimit => Cardinality(placed(w)') > throttleLimit
  <2>1. c \notin placed(w) /\ placed(w)' = placed(w) \cup {c} /\ late(w)' = late(w)
    BY <1>1, <1>2, <1>3, <1>4 DEF placed, late
  <2>2. placed(w) \in SUBSET Conns /\ late(w) \in SUBSET Conns
    BY <1>2 DEF placed, late
  <2>3. /\ Cardinality(placed(w)') = Cardinality(placed(w)) + 1
        /\ Cardinality(placed(w)) \in Nat /\ Cardinality(late(w)') \in Nat
    BY <2>1, <2>2, Finite, FS_AddElement
  <2>4. count'[w] = Cardinality(placed(w)') - Cardinality(late(w)')
    BY <1>1, <1>2, <1>4, <2>1, <2>3 DEF Sums
  <2>5. passed'[w] \subseteq counted'[w]
    BY <1>1, <1>2, <1>4 DEF Sums
  <2>6. Bounded(w)'
    <3>1. CASE count'[w] > throttleLimit
      <4>1. passed'[w] \cap placed(w)' = passed[w] \cap placed(w)
        BY <1>1, <1>2, <1>3, <1>4, <2>1, <3>1 DEF Sums
      <4>. QED
        BY <1>2, <2>1, <4>1 DEF Bounded
    <3>2. CASE ~(count'[w] > throttleLimit)
      <4>1. placed(w)' \in SUBSET Conns /\ passed'[w] \cap placed(w)' \in SUBSET placed(w)'
        BY <2>1, <2>2
      <4>2. Cardinality(passed'[w] \cap placed(w)') <= Cardinality(placed(w)')
        BY <4>1, Smaller
      <4>3. Cardinality(passed'[w] \cap placed(w)') \in Nat
        BY <4>1, Finite
      <4>. QED
        BY <2>3, <2>4, <3>2, <4>2, <4>3 DEF Bounded
    <3>. QED
      BY <3>1, <3>2
  <2>. QED
    BY <2>3, <2>4, <2>5, <2>6 DEF Sums
<1>5. ASSUME NEW w \in Windows, w # v PROVE Sums(w)' /\ Bounded(w)'
  <2>1. /\ passed'[w] = passed[w] /\ counted'[w] = counted[w] /\ count'[w] = count[w]
        /\ returned'[w] = returned[w]
    BY <1>1, <1>2, <1>5
  <2>. QED
    BY <1>2, <2>1 DEF Sums, Bounded, placed, late
<1>6. Turns'
  BY <1>1, <1>2, <1>3 DEF IInv, Turns
<1>7. TypeOK'
  <2>1. \A w \in Windows : Sums(w)'
    BY <1>4, <1>5
  <2>2. /\ count' \in [Windows -> Int]
        /\ at' \in [Conns -> {"new", "increment", "open", "decrement", "closed"}]
        /\ counted' \in [Windows -> SUBSET Conns] /\ passed' \in [Windows -> SUBSET Conns]
    BY <1>1, <1>2
  <2>. QED
    BY <1>1, <1>2, <2>1, <2>2 DEF TypeOK, Sums
<1>8. PassesBounded'
  BY <1>4, <1>5 DEF PassesBounded, Bounded
<1>9. at'[c] = "closed" => count'[v] > throttleLimit
  BY <1>1, <1>2
<1>10. at'[c] = "closed" => Cardinality(placed(holds[c])') > throttleLimit
  BY <1>1, <1>4, <1>9
<1>. QED
  BY <1>6, <1>7, <1>8, <1>10 DEF IInv

\* One whose answer is taken out gives his place back, or leaves one too many.
LEMMA DecrementInv ==
  ASSUME IInv, NEW c \in Conns, DecrementAndGet(c)
  PROVE  IInv'
<1>. DEFINE v == holds[c]
<1>. throttleLimit \in Nat
  BY ThrottleAssumption
<1>1. /\ v \in Windows /\ at[c] = "decrement" /\ at' = [at EXCEPT ![c] = "closed"]
      /\ UNCHANGED <<entry, made, holds, counted, passed>>
      /\ count' = [count EXCEPT ![v] = @ - 1]
      /\ returned' = [returned EXCEPT ![v] = @ \cup {c}]
  BY DEF IInv, Turns, DecrementAndGet, Goes
<1>2. /\ made \in 0 .. MaxWindows /\ entry \in {0, made} /\ count \in [Windows -> Int]
      /\ at \in [Conns -> {"new", "increment", "open", "decrement", "closed"}]
      /\ holds \in [Conns -> 0 .. made]
      /\ counted \in [Windows -> SUBSET Conns] /\ passed \in [Windows -> SUBSET Conns]
      /\ returned \in [Windows -> SUBSET Conns]
      /\ \A w \in Windows : Sums(w) /\ Bounded(w)
  BY DEF IInv, TypeOK, PassesBounded, Sums, Bounded
<1>3. \A w \in Windows : c \notin returned[w]
  BY <1>1 DEF IInv, Turns
<1>4. ASSUME NEW w \in Windows, w = v PROVE Sums(w)' /\ Bounded(w)'
  <2>1. placed(w) \in SUBSET Conns /\ late(w) \in SUBSET Conns
    BY <1>2 DEF placed, late
  <2>2. /\ Cardinality(placed(w)) \in Nat /\ Cardinality(late(w)) \in Nat
        /\ IsFiniteSet(placed(w)) /\ IsFiniteSet(late(w))
    BY <2>1, Finite
  <2>3. passed'[w] \subseteq counted'[w]
    BY <1>1, <1>2 DEF Sums
  <2>4. passed[w] \cap placed(w)' \in SUBSET (passed[w] \cap placed(w))
    BY <1>1, <1>2, <1>4 DEF placed
  <2>5. /\ Cardinality(passed[w] \cap placed(w)') <= Cardinality(passed[w] \cap placed(w))
        /\ Cardinality(passed[w] \cap placed(w)') \in Nat
        /\ Cardinality(passed[w] \cap placed(w)) \in Nat
    <3>1. passed[w] \cap placed(w) \in SUBSET Conns
      BY <2>1
    <3>. QED
      BY <2>4, <3>1, Smaller, Finite
  <2>6. CASE c \in counted[w]
    <3>1. c \in placed(w) /\ placed(w)' = placed(w) \ {c} /\ late(w)' = late(w)
      BY <1>1, <1>2, <1>3, <1>4, <2>6 DEF placed, late
    <3>2. Cardinality(placed(w)') = Cardinality(placed(w)) - 1
      BY <2>2, <3>1, FS_RemoveElement
    <3>. QED
      BY <1>1, <1>2, <1>4, <2>2, <2>3, <2>5, <3>1, <3>2 DEF Sums, Bounded
  <2>7. CASE c \notin counted[w]
    <3>1. c \notin late(w) /\ placed(w)' = placed(w) /\ late(w)' = late(w) \cup {c}
      BY <1>1, <1>2, <1>3, <1>4, <2>7 DEF placed, late
    <3>2. Cardinality(late(w)') = Cardinality(late(w)) + 1
      BY <2>2, <3>1, FS_AddElement
    <3>. QED
      BY <1>1, <1>2, <1>4, <2>2, <2>3, <2>5, <3>1, <3>2 DEF Sums, Bounded
  <2>. QED
    BY <2>6, <2>7
<1>5. ASSUME NEW w \in Windows, w # v PROVE Sums(w)' /\ Bounded(w)'
  <2>1. /\ passed'[w] = passed[w] /\ counted'[w] = counted[w] /\ count'[w] = count[w]
        /\ returned'[w] = returned[w]
    BY <1>1, <1>2, <1>5
  <2>. QED
    BY <1>2, <2>1 DEF Sums, Bounded, placed, late
<1>6. Turns'
  BY <1>1, <1>2, <1>3 DEF IInv, Turns
<1>7. TypeOK'
  <2>1. \A w \in Windows : Sums(w)'
    BY <1>4, <1>5
  <2>2. /\ count' \in [Windows -> Int] /\ returned' \in [Windows -> SUBSET Conns]
        /\ at' \in [Conns -> {"new", "increment", "open", "decrement", "closed"}]
    BY <1>1, <1>2
  <2>. QED
    BY <1>1, <1>2, <2>1, <2>2 DEF TypeOK, Sums
<1>8. PassesBounded'
  BY <1>4, <1>5 DEF PassesBounded, Bounded
<1>. QED
  BY <1>6, <1>7, <1>8 DEF IInv

\* The other steps touch no counter.
LEMMA LookUpInv ==
  ASSUME IInv, UNCHANGED <<count, counted, passed, returned>>,
         /\ made' \in 0 .. MaxWindows /\ made <= made' /\ entry' \in {0, made'}
         /\ holds' \in [Conns -> 0 .. made'],
         at' \in [Conns -> {"new", "increment", "open", "decrement", "closed"}],
         \A c \in Conns :
           /\ at'[c] \in {"increment", "decrement"} => holds'[c] \in Windows
           /\ at'[c] \in {"new", "increment"} => at[c] \in {"new", "increment"}
           /\ at'[c] # "closed" => at[c] # "closed"
  PROVE  IInv'
<1>1. TypeOK'
  BY DEF IInv, TypeOK, placed, late
<1>2. Turns'
  BY DEF IInv, Turns
<1>3. PassesBounded'
  BY DEF IInv, PassesBounded, placed, late
<1>. QED
  BY <1>1, <1>2, <1>3 DEF IInv

LEMMA NextInv == IInv /\ [Next]_vars => IInv'
<1>. SUFFICES ASSUME IInv, [Next]_vars PROVE IInv'
  OBVIOUS
<1>. /\ made \in 0 .. MaxWindows /\ entry \in {0, made} /\ MaxWindows \in Nat
     /\ at \in [Conns -> {"new", "increment", "open", "decrement", "closed"}]
     /\ holds \in [Conns -> 0 .. made]
  BY ThrottleAssumption DEF IInv, TypeOK
<1>1. CASE Expire
  BY <1>1, LookUpInv DEF Expire, IInv, Turns
<1>2. ASSUME NEW c \in Conns, GetUnchecked(c) PROVE IInv'
  <2>1. /\ entry' \in Windows /\ entry' = made' /\ made' \in 0 .. MaxWindows /\ made <= made'
    BY <1>2 DEF GetUnchecked, Windows
  <2>2. /\ at[c] = "new" /\ at' = [at EXCEPT ![c] = "increment"]
        /\ holds' = [holds EXCEPT ![c] = entry']
        /\ UNCHANGED <<count, counted, passed, returned>>
    BY <1>2 DEF GetUnchecked, Goes
  <2>3. holds' \in [Conns -> 0 .. made']
    BY <2>1, <2>2
  <2>. QED
    BY <2>1, <2>2, <2>3, LookUpInv DEF IInv, Turns
<1>3. ASSUME NEW c \in Conns, GetIfPresent(c) PROVE IInv'
  <2>1. /\ at[c] = "open"
        /\ at' = [at EXCEPT ![c] = IF entry = 0 THEN "closed" ELSE "decrement"]
        /\ holds' = [holds EXCEPT ![c] = entry]
        /\ UNCHANGED <<entry, made, count, counted, passed, returned>>
    BY <1>3 DEF GetIfPresent, Goes
  <2>2. entry # 0 => entry \in Windows
    BY DEF Windows
  <2>. QED
    BY <2>1, <2>2, LookUpInv DEF IInv, Turns
<1>4. CASE UNCHANGED vars
  BY <1>4, LookUpInv DEF vars, IInv, Turns
<1>. QED
  BY <1>1, <1>2, <1>3, <1>4, IncrementInv, DecrementInv DEF Next, Connection

LEMMA Inductive == Spec => []IInv
  BY InitInv, NextInv, PTL DEF Spec

\* The counter of a window is the number of those who hold a place in it, less
\* those answered too late for their own (throttle and unthrottle).
THEOREM CounterAddsUp == Spec => []TypeOK
  BY Inductive, PTL DEF IInv

\* In a window no more are let in than the limit and its late answers allow.
THEOREM PassesWithinLimit == Spec => []PassesBounded
  BY Inductive, PTL DEF IInv

\* throttle turns nobody away while there is a place.
THEOREM RefusedForGoodReason == Spec => RefusalDeserved
<1>1. IInv /\ [Next]_vars =>
        [\A c \in Conns : IncrementAndGet(c) /\ at'[c] = "closed" =>
            Cardinality(placed(holds[c])') > throttleLimit]_vars
  BY IncrementInv
<1>. QED
  BY <1>1, Inductive, PTL DEF Spec, RefusalDeserved
=============================================================================
