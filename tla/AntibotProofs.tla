---------------------------- MODULE AntibotProofs ----------------------------
(***************************************************************************)
(* Theorems about Antibot, for any number of connections, names, and every *)
(* value of the limits.                                                    *)
(***************************************************************************)
EXTENDS Antibot, FiniteSetTheorems, TLAPS

LEMMA InitType == Init => TypeOK
  BY FS_CardinalityType, AntibotAssumption
     DEF Init, TypeOK, Times, Never, Far, Places, Top

\* updateConnectionsSecond keeps the types of the counters and of its callers.
LEMMA UpdateTypes ==
    ASSUME TypeOK, NEW c \in Conns, NEW p \in Places, NEW q \in Places,
           q \notin {"accounts", "nickname", "in"},
           Test(c, p, q) \/ ResetSecond(c, p, q),
           UNCHANGED <<nameVars, totalPings, lastFirewall>>
    PROVE  TypeOK'
<1> USE AntibotAssumption DEF TypeOK, nameVars, timeVars, totalVars, Goes
<1>1. Top \in Nat
  BY FS_CardinalityType DEF Top
<1>2. CASE Test(c, p, q)
  BY <1>2 DEF Test
<1>3. CASE ResetSecond(c, p, q)
  <2>1. passed' \in Int
    <3>1. Cardinality(InRate) \in Nat /\ Cardinality(Conns) \in Nat
      BY FS_Subset, FS_CardinalityType DEF InRate
    <3> QED
      BY <1>1, <1>3, <3>1 DEF ResetSecond, Less
  <2> QED
    BY <1>1, <1>3, <2>1 DEF ResetSecond
<1> QED
  BY <1>2, <1>3

\* Every step keeps the types: no lost increment takes a counter out of range.
LEMMA NextType == TypeOK /\ [Next]_vars => TypeOK'
<1> SUFFICES ASSUME TypeOK, [Next]_vars PROVE TypeOK'
  OBVIOUS
<1>t. Top \in Nat /\ Cardinality(Conns) \in Nat
  BY FS_CardinalityType, AntibotAssumption DEF Top
<1> USE AntibotAssumption DEF nameVars, timeVars, totalVars, localVars, countVars
<1>1. CASE Tick
  BY <1>1 DEF Tick, Older, TypeOK, Times, Never, Far
<1>2. CASE Unfirewall
  BY <1>2 DEF Unfirewall, TypeOK
<1>3. ASSUME NEW c \in Conns,
             AddConnection(c) \/ AddReset(c) \/ RatelimitUpdate(c) \/ Message(c) \/ PingUpdate(c)
      PROVE  TypeOK'
  BY <1>3, UpdateTypes
     DEF AddConnection, AddReset, RatelimitUpdate, Message, PingUpdate, Places
<1>4. ASSUME NEW c \in Conns, Open(c) \/ InvalidProtocol(c) \/ RatelimitRefuses(c) \/ PingLook(c)
      PROVE  TypeOK'
  BY <1>4 DEF Open, InvalidProtocol, RatelimitRefuses, PingLook, firewall, Goes, TypeOK, Places
<1>5. ASSUME NEW c \in Conns, Leave(c) PROVE TypeOK'
  BY <1>5 DEF Leave, Forgets, TypeOK, Places
<1>6. ASSUME NEW c \in Conns, Status(c) PROVE TypeOK'
  BY <1>6 DEF Status, Goes, UpTo, TypeOK, Places
<1>7. ASSUME NEW c \in Conns, StampPenultimate(c) PROVE TypeOK'
  BY <1>7 DEF StampPenultimate, Goes, TypeOK, Places, Times, Never, Far
<1>8. ASSUME NEW c \in Conns, StampLast(c) PROVE TypeOK'
  BY <1>8 DEF StampLast, Goes, TypeOK, Places, Times, Never, Far
<1>9. ASSUME NEW c \in Conns, ReadSecond(c) \/ ReadTotal(c) PROVE TypeOK'
  BY <1>t, <1>9 DEF ReadSecond, ReadTotal, Goes, TypeOK, Places
<1>10. ASSUME NEW c \in Conns, WriteSecond(c) PROVE TypeOK'
  <2>1. connectionsSecond' \in 0 .. Top /\ passed' \in Int
    BY <1>t, <1>10 DEF WriteSecond, UpTo, Less, TypeOK
  <2> QED
    BY <1>10, <2>1 DEF WriteSecond, Goes, TypeOK, Places
<1>11. ASSUME NEW c \in Conns, WriteTotal(c) PROVE TypeOK'
  <2>1. totalConnections' \in 0 .. Attempts /\ told' \in (0 .. Attempts) \cup {None}
    BY <1>11 DEF WriteTotal, UpTo, TypeOK
  <2> QED
    BY <1>11, <2>1 DEF WriteTotal, Goes, TypeOK, Places
<1>12. ASSUME NEW c \in Conns, RatelimitPasses(c) \/ ReconnectPasses(c) PROVE TypeOK'
  BY <1>12 DEF RatelimitPasses, ReconnectPasses, Goes, TypeOK, Places
<1>13. ASSUME NEW c \in Conns, ReconnectRefuses(c) PROVE TypeOK'
  BY <1>13 DEF ReconnectRefuses, Goes, TypeOK, Places
<1>14. ASSUME NEW c \in Conns, AccountsRefuses(c) PROVE TypeOK'
  BY <1>14 DEF AccountsRefuses, Goes, Forgets, firewall, TypeOK, Places
<1>15. ASSUME NEW c \in Conns, AccountsPasses(c) PROVE TypeOK'
  BY <1>15 DEF AccountsPasses, Goes, TypeOK, Places
<1>16. ASSUME NEW c \in Conns, NicknameRefuses(c) PROVE TypeOK'
  BY <1>16 DEF NicknameRefuses, Goes, Forgets, firewall, TypeOK, Places
<1>17. ASSUME NEW c \in Conns, NicknamePasses(c) PROVE TypeOK'
  BY <1>17 DEF NicknamePasses, Goes, TypeOK, Places
<1>18. ASSUME NEW c \in Conns, NEW n \in Names, AddNickname(c, n) PROVE TypeOK'
  <2>1. totalConnections' \in 0 .. Attempts
    BY <1>18 DEF AddNickname, UpTo, TypeOK
  <2>2. nick' \in [Conns -> Names \cup {None}]
    BY <1>18 DEF AddNickname, TypeOK
  <2>3. fresh' \in [Conns -> BOOLEAN] /\ crossed' \in [Conns -> BOOLEAN]
    BY <1>18 DEF AddNickname, TypeOK
  <2>4. at' \in [Conns -> Places]
    BY <1>18 DEF AddNickname, Goes, Places, TypeOK
  <2>5. \A d \in Conns : at'[d] \in {"accounts", "nickname", "in"} => nick'[d] \in Names
    BY <1>18 DEF AddNickname, Goes, TypeOK
  <2> QED
    BY <1>18, <2>1, <2>2, <2>3, <2>4, <2>5 DEF AddNickname, TypeOK
<1>19. CASE UNCHANGED vars
  BY <1>19 DEF vars, TypeOK
<1> QED
  BY <1>1, <1>2, <1>3, <1>4, <1>5, <1>6, <1>7, <1>8, <1>9, <1>10, <1>11,
     <1>12, <1>13, <1>14, <1>15, <1>16, <1>17, <1>18, <1>19
     DEF Next, Connection, Counts, Checks

\* Types.
THEOREM TypeCorrect == Spec => []TypeOK
  BY InitType, NextType, PTL DEF Spec

-----------------------------------------------------------------------------
(* Which steps have to do with nicknames *)

\* Before the login request a connection has none to do with.
Named == {"accounts", "nickname", "in"}

Aside ==
    /\ UNCHANGED nameVars
    /\ \A d \in Conns : at'[d] = at[d] \/ {at[d], at'[d]} \cap Named = {}

LEMMA AsideMoves ==
    ASSUME TypeOK, [Next]_vars
    PROVE  \/ Aside
           \/ \E c \in Conns :
                \/ Leave(c) \/ AccountsRefuses(c) \/ AccountsPasses(c)
                \/ NicknameRefuses(c) \/ NicknamePasses(c)
                \/ \E n \in Names : AddNickname(c, n)
<1>a. at \in [Conns -> Places]
  BY DEF TypeOK
<1> DEFINE Step(c) == \E p, q \in Places \ Named : Goes(c, p, q)
<1>0. ASSUME NEW c \in Conns, UNCHANGED nameVars, Step(c) PROVE Aside
  BY <1>a, <1>0 DEF Aside, Goes, Named
<1>1. Tick \/ Unfirewall \/ UNCHANGED vars => Aside
  BY DEF Tick, Unfirewall, vars, Aside
<1>2. ASSUME NEW c \in Conns, Counts(c) PROVE UNCHANGED nameVars /\ Step(c)
  BY <1>2 DEF Counts, AddConnection, AddReset, StampPenultimate, StampLast, ReadSecond,
     WriteSecond, ReadTotal, WriteTotal, Test, ResetSecond, Places, Named, nameVars
<1>3. ASSUME NEW c \in Conns, Checks(c) PROVE UNCHANGED nameVars /\ Step(c)
  BY <1>3 DEF Checks, RatelimitUpdate, RatelimitPasses, RatelimitRefuses, Message, Status,
     PingUpdate, PingLook, Test, ResetSecond, Places, Named, nameVars
<1>4. ASSUME NEW c \in Conns,
             Open(c) \/ InvalidProtocol(c) \/ ReconnectPasses(c) \/ ReconnectRefuses(c)
      PROVE  UNCHANGED nameVars /\ Step(c)
  BY <1>4 DEF Open, InvalidProtocol, ReconnectPasses, ReconnectRefuses, Places, Named, nameVars
<1> QED
  BY <1>0, <1>1, <1>2, <1>3, <1>4 DEF Next, Connection

-----------------------------------------------------------------------------
(* NicknameHolds *)

\* The last nickname of the address is that of the connection, until another
\* is added: NicknameCheck looks at the right name unless it was crossed.
NickInv ==
    \A c \in Conns :
        \/ crossed[c]
        \/ /\ at[c] \in {"accounts", "nickname"} => lastNickname = nick[c]
           /\ at[c] = "in" => nick[c] \notin Blacklist

LEMMA NextNickInv == TypeOK /\ NickInv /\ [Next]_vars => NickInv'
<1> SUFFICES ASSUME TypeOK, NickInv, [Next]_vars PROVE NickInv'
  OBVIOUS
<1>a. at \in [Conns -> Places]
  BY DEF TypeOK
<1>b. nick \in [Conns -> Names \cup {None}] /\ crossed \in [Conns -> BOOLEAN]
  BY DEF TypeOK
<1> USE DEF NickInv, nameVars
<1>1. CASE Aside
  BY <1>1 DEF Aside, Named
<1>2. ASSUME NEW c \in Conns, Leave(c) PROVE NickInv'
  BY <1>a, <1>b, <1>2 DEF Leave, Forgets
<1>3. ASSUME NEW c \in Conns, AccountsRefuses(c) PROVE NickInv'
  BY <1>a, <1>b, <1>3 DEF AccountsRefuses, Goes, Forgets
<1>4. ASSUME NEW c \in Conns, AccountsPasses(c) PROVE NickInv'
  BY <1>a, <1>b, <1>4 DEF AccountsPasses, Goes
<1>5. ASSUME NEW c \in Conns, NicknameRefuses(c) PROVE NickInv'
  BY <1>a, <1>b, <1>5 DEF NicknameRefuses, Goes, Forgets
<1>6. ASSUME NEW c \in Conns, NicknamePasses(c) PROVE NickInv'
  BY <1>a, <1>b, <1>6 DEF NicknamePasses, Goes
<1>7. ASSUME NEW c \in Conns, NEW n \in Names, AddNickname(c, n) PROVE NickInv'
  BY <1>a, <1>b, <1>7 DEF AddNickname, Goes
<1> QED
  BY <1>1, <1>2, <1>3, <1>4, <1>5, <1>6, <1>7, AsideMoves

\* A blacklisted name gets in only if another was added meanwhile.
THEOREM NicknameChecked == Spec => []NicknameHolds
<1>1. Init => NickInv
  BY DEF Init, NickInv
<1>2. NickInv => NicknameHolds
  BY DEF NickInv, NicknameHolds
<1> QED
  BY InitType, NextType, NextNickInv, <1>1, <1>2, PTL DEF Spec

-----------------------------------------------------------------------------
(* NamesWithinLimit *)

\* The names that count against the limit.
counted ==
    nicknames \ (AccountsWhitelist \cup
                   {nick[c] : c \in {d \in Conns : at[d] = "accounts"}})

\* A set within the limit stays so when it shrinks.
LEMMA Shrinks ==
    ASSUME NEW S, NEW T, S \subseteq T, IsFiniteSet(T),
           Cardinality(T) <= AccountsLimit
    PROVE  Cardinality(S) <= AccountsLimit
<1>1. IsFiniteSet(S) /\ Cardinality(S) <= Cardinality(T)
  BY FS_Subset
<1>2. Cardinality(S) \in Nat /\ Cardinality(T) \in Nat
  BY <1>1, FS_CardinalityType
<1> QED
  BY <1>1, <1>2, AntibotAssumption

\* No step counts another name, but for the check that finds room for all.
LEMMA NextCounted ==
    TypeOK /\ [Next]_vars =>
        \/ counted' \subseteq counted
        \/ counted' \subseteq nicknames /\ Cardinality(nicknames) <= AccountsLimit
<1> SUFFICES ASSUME TypeOK, [Next]_vars
             PROVE  \/ counted' \subseteq counted
                    \/ /\ counted' \subseteq nicknames
                       /\ Cardinality(nicknames) <= AccountsLimit
  OBVIOUS
<1>0. ~tooMany => Cardinality(nicknames) <= AccountsLimit
  <2>1. IsFiniteSet(nicknames)
    BY FS_Subset, AntibotAssumption DEF TypeOK
  <2>2. Cardinality(nicknames) \in Nat
    BY <2>1, FS_CardinalityType
  <2> QED
    BY <2>2, AntibotAssumption DEF tooMany
<1> DEFINE Goal == \/ counted' \subseteq counted
                   \/ counted' \subseteq nicknames /\ ~tooMany
<1>a. at \in [Conns -> Places]
  BY DEF TypeOK
<1>b. nick \in [Conns -> Names \cup {None}]
  BY DEF TypeOK
<1> USE DEF counted, nameVars
<1>1. CASE Aside
  <2>1. \A d \in Conns : at'[d] = "accounts" <=> at[d] = "accounts"
    BY <1>1 DEF Aside, Named
  <2> QED
    BY <1>1, <2>1 DEF Aside
<1>2. ASSUME NEW c \in Conns, Leave(c) PROVE Goal
  BY <1>a, <1>b, <1>2 DEF Leave, Forgets
<1>3. ASSUME NEW c \in Conns, AccountsRefuses(c) PROVE Goal
  BY <1>a, <1>b, <1>3 DEF AccountsRefuses, Goes, Forgets
<1>4. ASSUME NEW c \in Conns, AccountsPasses(c) PROVE Goal
  BY <1>a, <1>b, <1>4 DEF AccountsPasses, Goes
<1>5. ASSUME NEW c \in Conns, NicknameRefuses(c) PROVE Goal
  BY <1>a, <1>b, <1>5 DEF NicknameRefuses, Goes, Forgets
<1>6. ASSUME NEW c \in Conns, NicknamePasses(c) PROVE Goal
  BY <1>a, <1>b, <1>6 DEF NicknamePasses, Goes
<1>7. ASSUME NEW c \in Conns, NEW n \in Names, AddNickname(c, n) PROVE Goal
  BY <1>a, <1>b, <1>7 DEF AddNickname, Goes
<1> QED
  BY <1>0, <1>1, <1>2, <1>3, <1>4, <1>5, <1>6, <1>7, AsideMoves

\* However logins of one address mix, it keeps no more names than the limit
\* and the whitelist allow, but for those whose check is still to come.
THEOREM AccountsLimited == Spec => []NamesWithinLimit
<1>1. Init => NamesWithinLimit
  <2>1. ASSUME Init PROVE counted = {}
    BY <2>1 DEF Init, counted
  <2> QED
    BY <2>1, FS_EmptySet, AntibotAssumption DEF NamesWithinLimit, counted
<1>2. TypeOK /\ NamesWithinLimit /\ [Next]_vars => NamesWithinLimit'
  <2> SUFFICES ASSUME TypeOK, NamesWithinLimit, [Next]_vars
               PROVE  Cardinality(counted') <= AccountsLimit
    BY DEF NamesWithinLimit, counted
  <2>1. IsFiniteSet(nicknames)
    BY FS_Subset, AntibotAssumption DEF TypeOK
  <2>2. IsFiniteSet(counted)
    BY <2>1, FS_Subset DEF counted
  <2>3. Cardinality(counted) <= AccountsLimit
    BY DEF NamesWithinLimit, counted
  <2> QED
    BY NextCounted, Shrinks, <2>1, <2>2, <2>3
<1> QED
  BY InitType, NextType, <1>1, <1>2, PTL DEF Spec
-----------------------------------------------------------------------------
(* KnownNamesStay *)

\* The names of the other logins whose check is still to come.
Pending(c) == {nick[d] : d \in {e \in Conns \ {c} : at[e] = "accounts"}}

\* A whitelisted name is not taken away again.  Where there is none, the names
\* are within the limit but for those pending, and a login under a name that was
\* known adds nothing to them.
KnownInv ==
    /\ \A c \in Conns : at[c] = "accounts" /\ nick[c] \in AccountsWhitelist
                         => nick[c] \in nicknames
    /\ AccountsWhitelist \cap nicknames = {} =>
         \A c \in Conns : at[c] = "accounts" /\ ~fresh[c]
                         => Cardinality(nicknames \ Pending(c)) <= AccountsLimit

\* Two steps change what the check looks at; of the others one ends a check.
LEMMA NameMoves ==
    ASSUME TypeOK, [Next]_vars
    PROVE  \/ \E c \in Conns, n \in Names : AddNickname(c, n)
           \/ \E c \in Conns : AccountsRefuses(c)
           \/ \E c \in Conns : AccountsPasses(c)
           \/ /\ nicknames' = nicknames
              /\ \A d \in Conns : at'[d] = "accounts" <=> at[d] = "accounts"
              /\ \A d \in Conns : at[d] = "accounts" => nick'[d] = nick[d] /\ fresh'[d] = fresh[d]
<1> DEFINE Same ==
       /\ nicknames' = nicknames
       /\ \A d \in Conns : at'[d] = "accounts" <=> at[d] = "accounts"
       /\ \A d \in Conns : at[d] = "accounts" => nick'[d] = nick[d] /\ fresh'[d] = fresh[d]
<1>a. at \in [Conns -> Places]
  BY DEF TypeOK
<1>b. nick \in [Conns -> Names \cup {None}] /\ fresh \in [Conns -> BOOLEAN]
  BY DEF TypeOK
<1>1. CASE Aside
  BY <1>1 DEF Aside, Named, nameVars
<1>2. ASSUME NEW c \in Conns, Leave(c) \/ NicknameRefuses(c) \/ NicknamePasses(c) PROVE Same
  BY <1>a, <1>b, <1>2 DEF Leave, NicknameRefuses, NicknamePasses, Goes, Forgets, nameVars
<1> QED
  BY <1>1, <1>2, AsideMoves

LEMMA NextKnownInv ==
    ASSUME TypeOK, NamesWithinLimit, KnownInv, [Next]_vars
    PROVE  KnownInv'
<1>a. at \in [Conns -> Places]
  BY DEF TypeOK
<1>b. nick \in [Conns -> Names \cup {None}] /\ fresh \in [Conns -> BOOLEAN]
  BY DEF TypeOK
<1>c. IsFiniteSet(nicknames)
  BY FS_Subset, AntibotAssumption DEF TypeOK
<1>d. \A S \in SUBSET nicknames : IsFiniteSet(S)
  BY <1>c, FS_Subset
<1>1. ASSUME NEW c \in Conns, NEW n \in Names, AddNickname(c, n) PROVE KnownInv'
  <2>1. /\ at[c] = "login" /\ at' = [at EXCEPT ![c] = "accounts"]
        /\ nick' = [nick EXCEPT ![c] = n] /\ nicknames' = nicknames \cup {n}
        /\ fresh' = [fresh EXCEPT ![c] = n \notin nicknames]
    BY <1>1 DEF AddNickname, Goes
  <2>2. ASSUME NEW d \in Conns, at'[d] = "accounts", nick'[d] \in AccountsWhitelist
        PROVE  nick'[d] \in nicknames'
    BY <1>a, <1>b, <2>1, <2>2 DEF KnownInv
  <2>3. ASSUME AccountsWhitelist \cap nicknames' = {}, NEW d \in Conns,
               at'[d] = "accounts", ~fresh'[d]
        PROVE  Cardinality(nicknames' \ Pending(d)') <= AccountsLimit
    <3>0. AccountsWhitelist \cap nicknames = {}
      BY <2>1, <2>3
    <3>1. CASE d = c
      <4>1. nicknames' = nicknames
        BY <1>b, <2>1, <2>3, <3>1
      <4>2. nicknames' \ Pending(d)' \subseteq counted
        BY <1>a, <1>b, <2>1, <3>0, <3>1, <4>1 DEF Pending, counted
      <4>3. IsFiniteSet(counted) /\ Cardinality(counted) <= AccountsLimit
        BY <1>d DEF counted, NamesWithinLimit
      <4> QED
        BY <4>2, <4>3, Shrinks
    <3>2. CASE d # c
      <4>1. at[d] = "accounts" /\ ~fresh[d]
        BY <1>a, <1>b, <2>1, <2>3, <3>2
      <4>2. nicknames' \ Pending(d)' \subseteq nicknames \ Pending(d)
        <5>1. n \in Pending(d)'
          BY <1>a, <1>b, <2>1, <3>2 DEF Pending
        <5>2. Pending(d) \subseteq Pending(d)'
          BY <1>a, <1>b, <2>1, <3>2 DEF Pending
        <5> QED
          BY <2>1, <5>1, <5>2
      <4>3. Cardinality(nicknames \ Pending(d)) <= AccountsLimit
        BY <3>0, <4>1 DEF KnownInv
      <4> QED
        BY <1>d, <4>2, <4>3, Shrinks
    <3> QED
      BY <3>1, <3>2
  <2> QED
    BY <2>2, <2>3 DEF KnownInv
<1>2. ASSUME NEW c \in Conns, AccountsRefuses(c) PROVE KnownInv'
  <2>1. /\ at[c] = "accounts" /\ at' = [at EXCEPT ![c] = "closed"]
        /\ nicknames' = nicknames \ {nick[c]} /\ nick[c] \notin AccountsWhitelist
        /\ nick' = [nick EXCEPT ![c] = None] /\ fresh' = [fresh EXCEPT ![c] = FALSE]
    BY <1>2 DEF AccountsRefuses, Goes, Forgets
  <2>2. ASSUME NEW d \in Conns, at'[d] = "accounts", nick'[d] \in AccountsWhitelist
        PROVE  nick'[d] \in nicknames'
    BY <1>a, <1>b, <2>1, <2>2 DEF KnownInv
  <2>3. ASSUME AccountsWhitelist \cap nicknames' = {}, NEW d \in Conns,
               at'[d] = "accounts", ~fresh'[d]
        PROVE  Cardinality(nicknames' \ Pending(d)') <= AccountsLimit
    <3>1. d # c /\ at[d] = "accounts" /\ ~fresh[d]
      BY <1>a, <1>b, <2>1, <2>3
    <3>2. Cardinality(nicknames \ Pending(d)) <= AccountsLimit
      BY <2>1, <2>3, <3>1 DEF KnownInv
    <3>3. Pending(d) \subseteq Pending(d)' \cup {nick[c]}
      BY <1>a, <1>b, <2>1 DEF Pending
    <3>4. nicknames' \ Pending(d)' \subseteq nicknames \ Pending(d)
      BY <2>1, <3>3
    <3> QED
      BY <1>d, <3>2, <3>4, Shrinks
  <2> QED
    BY <2>2, <2>3 DEF KnownInv
<1>3. ASSUME NEW c \in Conns, AccountsPasses(c) PROVE KnownInv'
  <2>1. /\ at[c] = "accounts" /\ at' = [at EXCEPT ![c] = "nickname"]
        /\ UNCHANGED <<nick, nicknames>>
    BY <1>3 DEF AccountsPasses, Goes
  <2>2. \A d \in Conns : at'[d] = "accounts" => at[d] = "accounts"
    BY <1>a, <2>1
  <2>3. AccountsWhitelist \cap nicknames = {} => Cardinality(nicknames) <= AccountsLimit
    <3>1. nick[c] \in AccountsWhitelist => nick[c] \in nicknames
      BY <2>1 DEF KnownInv
    <3>2. nick[c] \in AccountsWhitelist \/ ~tooMany
      BY <1>3 DEF AccountsPasses
    <3>3. Cardinality(nicknames) \in Nat
      BY <1>c, FS_CardinalityType
    <3> QED
      BY <3>1, <3>2, <3>3, AntibotAssumption DEF tooMany
  <2>4. \A d \in Conns : nicknames' \ Pending(d)' \subseteq nicknames
    BY <2>1
  <2>5. AccountsWhitelist \cap nicknames' = {} =>
          \A d \in Conns : Cardinality(nicknames' \ Pending(d)') <= AccountsLimit
    BY <1>c, <2>1, <2>3, <2>4, Shrinks
  <2> QED
    BY <2>1, <2>2, <2>5 DEF KnownInv
<1>4. ASSUME nicknames' = nicknames,
             \A d \in Conns : at'[d] = "accounts" <=> at[d] = "accounts",
             \A d \in Conns : at[d] = "accounts" => nick'[d] = nick[d] /\ fresh'[d] = fresh[d]
      PROVE  KnownInv'
  <2>1. \A c \in Conns : Pending(c)' = Pending(c)
    BY <1>4 DEF Pending
  <2> QED
    BY <1>4, <2>1 DEF KnownInv
<1> QED
  BY <1>1, <1>2, <1>3, <1>4, NameMoves

\* A known name loses its place only to a whitelisted one, or when another login
\* is between its two calls: with any number of logins of the address under way.
THEOREM KnownNamesKept == Spec => KnownNamesStay
<1>1. Init => KnownInv
  BY DEF Init, KnownInv
<1>2. ASSUME KnownInv, NEW c \in Conns, AccountsRefuses(c), ~fresh[c],
             AccountsWhitelist \cap nicknames = {},
             \A d \in Conns \ {c} : at[d] # "accounts", TypeOK
      PROVE  FALSE
  <2>1. at[c] = "accounts" /\ Cardinality(nicknames) > AccountsLimit
    BY <1>2 DEF AccountsRefuses, Goes, tooMany
  <2>2. nicknames \ Pending(c) = nicknames
    BY <1>2 DEF Pending
  <2>3. Cardinality(nicknames) <= AccountsLimit
    BY <1>2, <2>1, <2>2 DEF KnownInv
  <2>4. Cardinality(nicknames) \in Nat
    BY FS_Subset, FS_CardinalityType, AntibotAssumption, <1>2 DEF TypeOK
  <2> QED
    BY <2>1, <2>3, <2>4, AntibotAssumption
<1>3. KnownInv /\ TypeOK /\ [Next]_vars =>
        [\A c \in Conns :
           AccountsRefuses(c) /\ ~fresh[c] =>
              \/ AccountsWhitelist \cap nicknames # {}
              \/ \E d \in Conns \ {c} : at[d] = "accounts"]_vars
  BY <1>2
<1> QED
  BY InitType, NextType, NextKnownInv, AccountsLimited, <1>1, <1>3, PTL DEF Spec, KnownNamesStay

-----------------------------------------------------------------------------
(* RateBounded *)

\* What passed and what may still pass was counted, but for what was lost.
RateInv ==
    /\ RateBounded
    /\ passed + Cardinality(InRate) <= connectionsSecond

LEMMA SlotsAreFew ==
    /\ Cardinality(Conns) \in Nat
    /\ \A S \in SUBSET Conns : /\ IsFiniteSet(S) /\ Cardinality(S) \in Nat
                               /\ Cardinality(S) <= Cardinality(Conns)
  BY FS_Subset, FS_CardinalityType, AntibotAssumption

\* What the steps do to the counter.
Looked ==
    /\ InRate' \subseteq InRate
    /\ UNCHANGED <<connectionsSecond, passed>>

Restarted ==
    /\ InRate' \subseteq InRate /\ connectionsSecond' = 0
    /\ passed' \in {-Cardinality(InRate), Less(connectionsSecond)}

LEMMA UpdateMoves ==
    ASSUME TypeOK, NEW c \in Conns, NEW p \in Places, NEW q \in Places,
           Test(c, p, q) \/ ResetSecond(c, p, q),
           q \in {"ratelimitReset", "look"} => p \in {"ratelimit", "ratelimitReset"},
           q \notin {"total", "totalWrite", "ratelimit"}
    PROVE  Looked \/ Restarted
<1>1. InRate' \subseteq InRate
  BY DEF Test, ResetSecond, Goes, InRate, TypeOK
<1> QED
  BY <1>1 DEF Test, ResetSecond, Looked, Restarted

LEMMA RateMoves ==
    ASSUME TypeOK, [Next]_vars
    PROVE  \/ Looked \/ Restarted
           \/ \E c \in Conns : WriteSecond(c) \/ RatelimitPasses(c)
<1>a. at \in [Conns -> Places]
  BY DEF TypeOK
<1> USE DEF countVars
<1>1. ASSUME Tick \/ Unfirewall \/ UNCHANGED vars PROVE Looked
  BY <1>1 DEF Tick, Unfirewall, vars, Looked, InRate
<1>2. ASSUME NEW c \in Conns,
             AddConnection(c) \/ AddReset(c) \/ RatelimitUpdate(c) \/ Message(c) \/ PingUpdate(c)
      PROVE  Looked \/ Restarted
  BY <1>2, UpdateMoves
     DEF AddConnection, AddReset, RatelimitUpdate, Message, PingUpdate, Places
<1>3. ASSUME NEW c \in Conns,
             \/ StampPenultimate(c) \/ StampLast(c) \/ ReadSecond(c)
             \/ ReadTotal(c) \/ WriteTotal(c)
      PROVE  Looked
  BY <1>a, <1>3 DEF StampPenultimate, StampLast, ReadSecond, ReadTotal, WriteTotal, Goes,
     Looked, InRate
<1>4. ASSUME NEW c \in Conns,
             \/ Open(c) \/ Leave(c) \/ InvalidProtocol(c) \/ Status(c)
             \/ RatelimitRefuses(c) \/ PingLook(c)
             \/ ReconnectPasses(c) \/ ReconnectRefuses(c)
             \/ AccountsRefuses(c) \/ AccountsPasses(c)
             \/ NicknameRefuses(c) \/ NicknamePasses(c)
             \/ \E n \in Names : AddNickname(c, n)
      PROVE  Looked
  <2>1. UNCHANGED <<connectionsSecond, passed>>
    BY <1>4 DEF Open, Leave, InvalidProtocol, Status, RatelimitRefuses, PingLook,
       ReconnectPasses, ReconnectRefuses, AccountsRefuses, AccountsPasses, NicknameRefuses,
       NicknamePasses, AddNickname
  <2>2. \E q \in {"closed", "handshake", "ping", "message", "login", "accounts",
                   "nickname", "in"} : at' = [at EXCEPT ![c] = q]
    BY <1>4 DEF Goes, Open, Leave, InvalidProtocol, Status, RatelimitRefuses, PingLook,
       ReconnectPasses, ReconnectRefuses, AccountsRefuses, AccountsPasses, NicknameRefuses,
       NicknamePasses, AddNickname
  <2>3. InRate' \subseteq InRate
    BY <1>a, <2>2 DEF InRate
  <2> QED
    BY <2>1, <2>3 DEF Looked
<1> QED
  BY <1>1, <1>2, <1>3, <1>4 DEF Next, Connection, Counts, Checks

LEMMA NextRateInv ==
    ASSUME TypeOK, RateInv, [Next]_vars
    PROVE  RateInv'
<1> DEFINE N == Cardinality(Conns)
           P == ConnectionsPerSecond
<1>0. /\ N \in Nat /\ P \in Nat /\ P >= 1 /\ passed \in Int
      /\ Top = P - 1 + N /\ connectionsSecond \in 0 .. Top
      /\ at \in [Conns -> Places] /\ seen \in [Conns -> Nat]
  BY SlotsAreFew, AntibotAssumption DEF TypeOK, Top
<1>r. InRate \subseteq Conns /\ InRate' \subseteq Conns
  BY DEF InRate
<1>s. /\ Cardinality(InRate) \in Nat /\ Cardinality(InRate') \in Nat
      /\ Cardinality(InRate) <= N /\ Cardinality(InRate') <= N
      /\ InRate' \subseteq InRate => Cardinality(InRate') <= Cardinality(InRate)
  BY <1>r, SlotsAreFew, FS_Subset
<1>i. passed <= P - 1 /\ passed + Cardinality(InRate) <= connectionsSecond
  BY DEF RateInv, RateBounded
<1> SUFFICES passed' <= P - 1 /\ passed' + Cardinality(InRate') <= connectionsSecond'
  BY DEF RateInv, RateBounded
<1>1. CASE Looked
  BY <1>0, <1>s, <1>i, <1>1 DEF Looked
<1>2. CASE Restarted
  BY <1>0, <1>s, <1>i, <1>2 DEF Restarted, Less
<1>3. ASSUME NEW c \in Conns, WriteSecond(c)
      PROVE  passed' <= P - 1 /\ passed' + Cardinality(InRate') <= connectionsSecond'
  <2>1. Cardinality(InRate') <= Cardinality(InRate) + 1
    <3>1. InRate' = InRate \cup {c}
      BY <1>0, <1>3 DEF WriteSecond, Goes, InRate
    <3>2. c \notin InRate /\ IsFiniteSet(InRate)
      BY <1>3, <1>r, SlotsAreFew DEF WriteSecond, Goes, InRate
    <3> QED
      BY <1>s, <3>1, <3>2, FS_AddElement
  <2>2. /\ connectionsSecond' = UpTo(Top, seen[c] + 1)
        /\ passed' = IF seen[c] < connectionsSecond
                     THEN Less(connectionsSecond - seen[c]) ELSE passed
    BY <1>3 DEF WriteSecond
  <2>3. seen[c] \in Nat
    BY <1>0
  <2>4. CASE seen[c] < connectionsSecond
    <3>1. connectionsSecond' = seen[c] + 1 /\ passed' = Less(connectionsSecond - seen[c])
      BY <1>0, <2>2, <2>3, <2>4 DEF UpTo
    <3> QED
      BY <1>0, <1>s, <1>i, <2>1, <2>3, <2>4, <3>1 DEF Less
  <2>5. CASE ~(seen[c] < connectionsSecond)
    <3>1. passed' = passed
      BY <2>2, <2>5
    <3> QED
      BY <1>0, <1>s, <1>i, <2>1, <2>2, <2>3, <2>5, <3>1 DEF UpTo
  <2> QED
    BY <2>4, <2>5
<1>4. ASSUME NEW c \in Conns, RatelimitPasses(c)
      PROVE  passed' <= P - 1 /\ passed' + Cardinality(InRate') <= connectionsSecond'
  <2>1. /\ connectionsSecond < P /\ connectionsSecond' = connectionsSecond
        /\ passed' = passed + 1
    BY <1>0, <1>4 DEF RatelimitPasses, tooFast
  <2>2. Cardinality(InRate') = Cardinality(InRate) - 1
    <3>1. c \in InRate /\ InRate' = InRate \ {c} /\ IsFiniteSet(InRate)
      BY <1>0, <1>4, <1>r, SlotsAreFew DEF RatelimitPasses, Goes, InRate
    <3> QED
      BY <3>1, FS_RemoveElement
  <2> QED
    BY <1>0, <1>s, <1>i, <2>1, <2>2
<1> QED
  BY <1>1, <1>2, <1>3, <1>4, RateMoves

\* From one reset of the counter to the next no more connections pass than the
\* limit allows, and one more for each increment that was lost, for any number of
\* slots and any limit.
THEOREM RateLimited == Spec => []RateBounded
<1>1. Init => RateInv
  <2>1. ASSUME Init PROVE InRate = {}
    BY <2>1 DEF Init, InRate
  <2> QED
    BY <2>1, FS_EmptySet, AntibotAssumption DEF Init, RateInv, RateBounded
<1>2. RateInv => RateBounded
  BY DEF RateInv
<1> QED
  BY InitType, NextType, NextRateInv, <1>1, <1>2, PTL DEF Spec

-----------------------------------------------------------------------------
(* PromiseKept *)

\* What the client was told is enough: the number of its connections will do
\* once it has come back so often.
ToldInv == told # None => told + totalConnections >= Attempts

LEMMA ToldMoves ==
    ASSUME [Next]_vars
    PROVE  \/ UNCHANGED <<told, totalConnections>>
           \/ told' = None
           \/ \E c \in Conns : WriteTotal(c) \/ ReconnectRefuses(c)
           \/ \E c \in Conns, n \in Names : AddNickname(c, n) /\ told' = told
<1> USE DEF countVars, totalVars
<1>1. Tick \/ Unfirewall \/ UNCHANGED vars => UNCHANGED <<told, totalConnections>>
  BY DEF Tick, Unfirewall, vars
<1>2. ASSUME NEW c \in Conns, Counts(c)
      PROVE  WriteTotal(c) \/ UNCHANGED <<told, totalConnections>>
  BY <1>2 DEF Counts, AddConnection, AddReset, StampPenultimate, StampLast, ReadSecond,
     WriteSecond, ReadTotal, Test, ResetSecond
<1>3. ASSUME NEW c \in Conns, Checks(c) PROVE UNCHANGED <<told, totalConnections>>
  BY <1>3 DEF Checks, RatelimitUpdate, RatelimitPasses, RatelimitRefuses, Message, Status,
     PingUpdate, PingLook, Test, ResetSecond
<1>4. ASSUME NEW c \in Conns, NEW n \in Names, AddNickname(c, n)
      PROVE  told' = None \/ told' = told
  BY <1>4 DEF AddNickname
<1>5. ASSUME NEW c \in Conns,
             \/ Open(c) \/ Leave(c) \/ InvalidProtocol(c) \/ ReconnectPasses(c)
             \/ AccountsRefuses(c) \/ AccountsPasses(c)
             \/ NicknameRefuses(c) \/ NicknamePasses(c)
      PROVE  UNCHANGED <<told, totalConnections>>
  BY <1>5 DEF Open, Leave, InvalidProtocol, ReconnectPasses, AccountsRefuses,
     AccountsPasses, NicknameRefuses, NicknamePasses
<1> QED
  BY <1>1, <1>2, <1>3, <1>4, <1>5 DEF Next, Connection

LEMMA NextToldInv == TypeOK /\ ToldInv /\ [Next]_vars => ToldInv'
<1> SUFFICES ASSUME TypeOK, ToldInv, [Next]_vars PROVE ToldInv'
  OBVIOUS
<1>a. /\ Attempts \in Nat /\ None \notin 0 .. Attempts
      /\ told \in (0 .. Attempts) \cup {None} /\ totalConnections \in 0 .. Attempts
  BY AntibotAssumption DEF TypeOK
<1>1. CASE UNCHANGED <<told, totalConnections>> \/ told' = None
  BY <1>1 DEF ToldInv
<1>2. ASSUME NEW c \in Conns, WriteTotal(c) PROVE ToldInv'
  <2>1. /\ totalConnections' = UpTo(Attempts, seen[c] + 1) /\ seen[c] \in Nat
        /\ told' = IF seen[c] < totalConnections THEN None
                   ELSE IF told \in 1 .. Attempts THEN told - 1 ELSE told
    BY <1>2 DEF WriteTotal, TypeOK
  <2>2. CASE told = None \/ seen[c] < totalConnections
    BY <1>a, <2>1, <2>2 DEF ToldInv
  <2>3. CASE told \in 0 .. Attempts /\ ~(seen[c] < totalConnections)
    BY <1>a, <2>1, <2>3 DEF ToldInv, UpTo
  <2> QED
    BY <1>a, <2>2, <2>3
<1>3. ASSUME NEW c \in Conns, ReconnectRefuses(c) PROVE ToldInv'
  BY <1>a, <1>3 DEF ReconnectRefuses, ToldInv
<1>4. ASSUME NEW c \in Conns, NEW n \in Names, AddNickname(c, n), told' = told
      PROVE  ToldInv'
  <2>1. told' # None => totalConnections' = totalConnections
    BY <1>4 DEF AddNickname
  <2> QED
    BY <1>4, <2>1 DEF ToldInv
<1> QED
  BY <1>1, <1>2, <1>3, <1>4, ToldMoves

\* A client who came back as often as it was told is not sent away again for the
\* number of its connections, whatever other connections of its address do.
THEOREM PromisesKept == Spec => PromiseKept
<1>1. Init => ToldInv
  BY DEF Init, ToldInv
<1>2. TypeOK /\ ToldInv /\ [Next]_vars =>
        [\A c \in Conns : ReconnectRefuses(c) /\ told = 0 =>
           tooSlow \/ totalPings < Pings]_vars
  <2> SUFFICES ASSUME TypeOK, ToldInv, NEW c \in Conns, ReconnectRefuses(c), told = 0
               PROVE  tooSlow \/ totalPings < Pings
    OBVIOUS
  <2>1. totalConnections >= Attempts
    BY AntibotAssumption DEF TypeOK, ToldInv
  <2> QED
    BY <2>1, AntibotAssumption DEF ReconnectRefuses, needsAttempts, TypeOK
<1> QED
  BY InitType, NextType, NextToldInv, <1>1, <1>2, PTL DEF Spec, PromiseKept

=============================================================================
