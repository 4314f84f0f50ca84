------------------------------ MODULE Antibot ------------------------------
(***************************************************************************)
(* What FlameCord's antibot system does with the connections of one        *)
(* address: the handlers of InitialHandler for the handshake, the status   *)
(* and the login request, each on the event loop of its own connection,    *)
(* all on the one AddressData they share without a lock.                   *)
(*                                                                         *)
(* Every read and write of the counters and times of connections is a step *)
(* of its own; every other call of AddressData or of a check is one step.  *)
(* The address has its record already, it is on no whitelist of addresses, *)
(* and the lists of proxies and countries have nothing against it; the     *)
(* number of pings in a second, which is counted as that of connections    *)
(* is, is left open: it may be too high whenever it is asked for.  A tick  *)
(* is a second.  What firewall() queues is the matter of CommandQueue.     *)
(***************************************************************************)
EXTENDS Integers, FiniteSets

CONSTANTS
    Conns,       \* slots for the connections of the address
    Names, Blacklist,
    AccountsWhitelist, AccountsLimit,
    ConnectionsPerSecond,
    Attempts, Pings, MaxTime,  \* antibot.reconnect, the time in seconds
    Expire,      \* antibot.firewall.time
    None

ASSUME AntibotAssumption ==
    /\ IsFiniteSet(Conns) /\ IsFiniteSet(Names) /\ None \notin Names \cup (0 .. Attempts)
    /\ Blacklist \subseteq Names /\ AccountsWhitelist \subseteq Names
    /\ {AccountsLimit, Attempts, Pings, MaxTime} \subseteq Nat
    /\ {ConnectionsPerSecond, Expire} \subseteq Nat \ {0}

\* A time is kept as the seconds passed since: as many as matter, and "never".
Far == MaxTime + 1
Never == Far + 1
Times == 0 .. Never

VARIABLES
    at, nick,
    nicknames, lastNickname,
    lastConnection, penultimateConnection,
    connectionsSecond, \* bound: counted up to Top
    totalConnections,  \* bound: counted up to Attempts
    totalPings,        \* bound: counted up to Pings
    lastFirewall,
    due,         \* updateConnectionsSecond found the counter to be out of date
    now,         \* addConnection's currentTime
    seen,        \* what ++ has read
    fresh,       \* history: addNickname put in a name that was not there
    crossed,     \* history: another name was added since
    passed,      \* history: connections that passed since the counter was reset,
                 \* less the increments lost since; bound: down to -Cardinality(Conns)
    told         \* history: how often the client must reconnect, as it was told

nameVars == <<nick, nicknames, lastNickname, fresh, crossed>>
timeVars == <<lastConnection, penultimateConnection>>
totalVars == <<totalConnections, told>>
localVars == <<due, now, seen>>
countVars == <<timeVars, connectionsSecond, passed, totalVars, localVars>>
vars == <<at, nameVars, countVars, totalPings, lastFirewall>>

Init ==
    /\ at = [c \in Conns |-> "closed"]
    /\ nick = [c \in Conns |-> None]
    /\ nicknames = {} /\ lastNickname = None
    /\ lastConnection = Never /\ penultimateConnection = Never
    /\ connectionsSecond = 0 /\ totalConnections = 0 /\ totalPings = 0
    /\ lastFirewall = Expire
    /\ fresh = [c \in Conns |-> FALSE] /\ crossed = [c \in Conns |-> FALSE]
    /\ passed = 0 /\ told = None
    /\ due = [c \in Conns |-> FALSE]
    /\ now = [c \in Conns |-> 0] /\ seen = [c \in Conns |-> 0]

Older(t, bound) == IF t < bound THEN t + 1 ELSE t

Tick ==
    /\ lastConnection' = Older(lastConnection, Far)
    /\ penultimateConnection' = Older(penultimateConnection, Far)
    /\ lastFirewall' = Older(lastFirewall, Expire)
    /\ now' = [c \in Conns |-> IF at[c] \in {"reset", "penultimate", "last"}
                               THEN Older(now[c], Far) ELSE now[c]]
    /\ UNCHANGED <<at, nameVars, connectionsSecond, passed, totalVars, due, seen,
                   totalPings>>

isFirewalled == lastFirewall < Expire
firewall == lastFirewall' = 0
Goes(c, p, q) == at[c] = p /\ at' = [at EXCEPT ![c] = q]
UpTo(bound, n) == IF n < bound THEN n ELSE bound

\* The connection is closed, and its nickname and its history go with it.
Forgets(c) ==
    /\ nick' = [nick EXCEPT ![c] = None]
    /\ fresh' = [fresh EXCEPT ![c] = FALSE] /\ crossed' = [crossed EXCEPT ![c] = FALSE]

-----------------------------------------------------------------------------
(* initChannel, the end of a connection, the command that lifts the block *)

Open(c) ==
    /\ ~isFirewalled
    /\ Goes(c, "closed", "handshake")
    /\ UNCHANGED <<nameVars, countVars, totalPings, lastFirewall>>

\* The client leaves, or is in and is no more of this module's concern.
Leave(c) ==
    /\ at[c] \in {"handshake", "login", "in"}
    /\ at' = [at EXCEPT ![c] = "closed"]
    /\ Forgets(c)
    /\ UNCHANGED <<nicknames, lastNickname, countVars, totalPings, lastFirewall>>

InvalidProtocol(c) ==
    /\ Goes(c, "handshake", "closed")
    /\ firewall
    /\ UNCHANGED <<nameVars, countVars, totalPings>>

Unfirewall ==
    /\ lastFirewall' = Expire
    /\ UNCHANGED <<at, nameVars, countVars, totalPings>>

-----------------------------------------------------------------------------
(* updateConnectionsSecond *)

\* What the counter can be told apart up to: no more than pass and are to be checked.
Top == ConnectionsPerSecond - 1 + Cardinality(Conns)

Less(k) == IF passed - k < -Cardinality(Conns) THEN -Cardinality(Conns) ELSE passed - k

\* The connections that were counted and are still to be checked.
InRate == {c \in Conns : at[c] \in {"total", "totalWrite", "ratelimit",
                                   "ratelimitReset", "look"}}

\* A second has passed since the last connection, not since the counter started.
Test(c, p, q) ==
    /\ Goes(c, p, q)
    /\ due' = [due EXCEPT ![c] = lastConnection >= 1]
    /\ UNCHANGED <<timeVars, connectionsSecond, passed, totalVars, now, seen>>

\* Mutant of ResetSecond: the total starts again with the counter.
ResetTotalToo(c, p, q) ==
    /\ Goes(c, p, q)
    /\ due' = [due EXCEPT ![c] = FALSE]
    /\ connectionsSecond' = IF due[c] THEN 0 ELSE connectionsSecond
    /\ totalConnections' = IF due[c] THEN 0 ELSE totalConnections
    /\ UNCHANGED <<timeVars, told, passed, now, seen>>

\* The history starts again with the counter, but for the connections whose
\* increments go; a reset that comes late takes those of others with it.
ResetSecond(c, p, q) ==
    /\ Goes(c, p, q)
    /\ due' = [due EXCEPT ![c] = FALSE]
    /\ connectionsSecond' = IF due[c] THEN 0 ELSE connectionsSecond
    /\ passed' = IF ~due[c] THEN passed
                 ELSE IF lastConnection >= 1 THEN -Cardinality(InRate)
                 ELSE Less(connectionsSecond)
    /\ UNCHANGED <<timeVars, totalVars, now, seen>>

-----------------------------------------------------------------------------
(* The handshake of a login: addConnection *)

\* currentTime is taken, and updateConnectionsSecond begins.
AddConnection(c) ==
    /\ Test(c, "handshake", "reset")
    /\ UNCHANGED <<nameVars, totalPings, lastFirewall>>

AddReset(c) ==
    /\ ResetSecond(c, "reset", "penultimate")
    /\ UNCHANGED <<nameVars, totalPings, lastFirewall>>

StampPenultimate(c) ==
    /\ Goes(c, "penultimate", "last")
    /\ penultimateConnection' = IF lastConnection = Never THEN now[c]
                                ELSE lastConnection
    /\ UNCHANGED <<nameVars, lastConnection, connectionsSecond, passed, totalVars,
                   localVars, totalPings, lastFirewall>>

\* Ticks seen on the way are seconds, or the end of one that had begun before.
StampLast(c) ==
    /\ Goes(c, "last", "second")
    /\ lastConnection' \in {now[c], now[c] - 1} \cap Times
    /\ now' = [now EXCEPT ![c] = 0]
    /\ UNCHANGED <<nameVars, penultimateConnection, connectionsSecond, passed,
                   totalVars, due, seen, totalPings, lastFirewall>>

ReadSecond(c) ==
    /\ Goes(c, "second", "secondWrite")
    /\ seen' = [seen EXCEPT ![c] = connectionsSecond]
    /\ UNCHANGED <<nameVars, timeVars, connectionsSecond, passed, totalVars, due,
                   now, totalPings, lastFirewall>>

WriteSecond(c) ==
    /\ Goes(c, "secondWrite", "total")
    /\ connectionsSecond' = UpTo(Top, seen[c] + 1)
    /\ passed' = IF seen[c] < connectionsSecond
                 THEN Less(connectionsSecond - seen[c]) ELSE passed
    /\ seen' = [seen EXCEPT ![c] = 0]
    /\ UNCHANGED <<nameVars, timeVars, totalVars, due, now, totalPings, lastFirewall>>

ReadTotal(c) ==
    /\ Goes(c, "total", "totalWrite")
    /\ seen' = [seen EXCEPT ![c] = totalConnections]
    /\ UNCHANGED <<nameVars, timeVars, connectionsSecond, passed, totalVars, due,
                   now, totalPings, lastFirewall>>

\* One that others made is lost: what the client was told does not hold any more.
WriteTotal(c) ==
    /\ Goes(c, "totalWrite", "ratelimit")
    /\ totalConnections' = UpTo(Attempts, seen[c] + 1)
    /\ told' = IF seen[c] < totalConnections THEN None
               ELSE IF told \in 1 .. Attempts THEN told - 1 ELSE told
    /\ seen' = [seen EXCEPT ![c] = 0]
    /\ UNCHANGED <<nameVars, timeVars, connectionsSecond, passed, due, now,
                   totalPings, lastFirewall>>

-----------------------------------------------------------------------------
(* RatelimitCheck.check, of a login and of a status ping *)

\* Mutant of tooFast: > for >=.
tooFastLater == connectionsSecond > ConnectionsPerSecond

tooFast == connectionsSecond >= ConnectionsPerSecond

\* getConnectionsSecond, before the counter is returned.
RatelimitUpdate(c) ==
    /\ \/ Test(c, "ratelimit", "ratelimitReset")
       \/ ResetSecond(c, "ratelimitReset", "look")
    /\ UNCHANGED <<nameVars, totalPings, lastFirewall>>

RatelimitPasses(c) ==
    /\ ~tooFast
    /\ Goes(c, "look", "reconnect")
    /\ passed' = passed + 1
    /\ UNCHANGED <<nameVars, timeVars, connectionsSecond, totalVars, localVars,
                   totalPings, lastFirewall>>

\* For the connections or for the pings.
RatelimitRefuses(c) ==
    /\ Goes(c, "look", "message")
    /\ firewall
    /\ UNCHANGED <<nameVars, countVars, totalPings>>

\* The message of the disconnect asks for the counter again.
Message(c) ==
    /\ \/ Test(c, "message", "messageReset")
       \/ ResetSecond(c, "messageReset", "closed")
    /\ UNCHANGED <<nameVars, totalPings, lastFirewall>>

\* A status ping is counted, ...
Status(c) ==
    /\ Goes(c, "handshake", "ping")
    /\ totalPings' = UpTo(Pings, totalPings + 1)
    /\ UNCHANGED <<nameVars, countVars, lastFirewall>>

\* ... and then checked as a connection is.
PingUpdate(c) ==
    /\ \/ Test(c, "ping", "pingReset")
       \/ ResetSecond(c, "pingReset", "pingLook")
    /\ UNCHANGED <<nameVars, totalPings, lastFirewall>>

PingLook(c) ==
    /\ Goes(c, "pingLook", "closed")
    /\ firewall \/ (~tooFast /\ UNCHANGED lastFirewall)
    /\ UNCHANGED <<nameVars, countVars, totalPings>>

\* ReconnectCheck.check.  Whether it is in force depends on how many have
\* connected to the proxy of late, from wherever.
tooSlow == penultimateConnection > MaxTime
needsAttempts == totalConnections < Attempts \/ totalPings < Pings

ReconnectPasses(c) ==
    /\ Goes(c, "reconnect", "login")
    /\ UNCHANGED <<nameVars, countVars, totalPings, lastFirewall>>

\* The message tells how often the client must still reconnect.
ReconnectRefuses(c) ==
    /\ tooSlow \/ needsAttempts
    /\ Goes(c, "reconnect", "closed")
    /\ totalConnections' = IF tooSlow THEN 0 ELSE totalConnections
    /\ told' = Attempts - totalConnections'
    /\ UNCHANGED <<nameVars, timeVars, connectionsSecond, passed, localVars,
                   totalPings, lastFirewall>>

-----------------------------------------------------------------------------
(* The login request *)

\* Mutant of AddNickname: a name that is known is not taken as the last one.
AddUnknownNickname(c, n) ==
    /\ Goes(c, "login", "accounts")
    /\ nick' = [nick EXCEPT ![c] = n]
    /\ nicknames' = nicknames \cup {n}
    /\ lastNickname' = IF n \in nicknames THEN lastNickname ELSE n
    /\ totalConnections' = IF lastNickname # n THEN UpTo(Attempts, 1)
                           ELSE totalConnections
    /\ told' = IF lastNickname # n THEN None ELSE told
    /\ fresh' = [fresh EXCEPT ![c] = n \notin nicknames]
    /\ crossed' = [d \in Conns |-> IF d = c THEN FALSE
                         ELSE crossed[d] \/ (at[d] \in {"accounts", "nickname"}
                                             /\ n # nick[d])]
    /\ UNCHANGED <<timeVars, connectionsSecond, passed, localVars, totalPings,
                   lastFirewall>>

AddNickname(c, n) ==
    /\ Goes(c, "login", "accounts")
    /\ nick' = [nick EXCEPT ![c] = n]
    /\ nicknames' = nicknames \cup {n}
    /\ lastNickname' = n
    /\ totalConnections' = IF lastNickname # n THEN UpTo(Attempts, 1)
                           ELSE totalConnections
    /\ told' = IF lastNickname # n THEN None ELSE told
    /\ fresh' = [fresh EXCEPT ![c] = n \notin nicknames]
    /\ crossed' = [d \in Conns |-> IF d = c THEN FALSE
                         ELSE crossed[d] \/ (at[d] \in {"accounts", "nickname"}
                                             /\ n # nick[d])]
    /\ UNCHANGED <<timeVars, connectionsSecond, passed, localVars, totalPings,
                   lastFirewall>>

tooMany == Cardinality(nicknames) > AccountsLimit

\* Mutant of AccountsRefuses: the name stays.
RefusesAndKeeps(c) ==
    /\ nick[c] \notin AccountsWhitelist /\ tooMany
    /\ Goes(c, "accounts", "closed") /\ Forgets(c)
    /\ firewall
    /\ UNCHANGED <<nicknames, lastNickname, countVars, totalPings>>

\* Mutant of AccountsRefuses: >= for >.
RefusesAtLimit(c) ==
    /\ nick[c] \notin AccountsWhitelist /\ Cardinality(nicknames) >= AccountsLimit
    /\ Goes(c, "accounts", "closed") /\ Forgets(c)
    /\ nicknames' = nicknames \ {nick[c]}
    /\ firewall
    /\ UNCHANGED <<lastNickname, countVars, totalPings>>

AccountsRefuses(c) ==
    /\ nick[c] \notin AccountsWhitelist /\ tooMany
    /\ Goes(c, "accounts", "closed") /\ Forgets(c)
    /\ nicknames' = nicknames \ {nick[c]}
    /\ firewall
    /\ UNCHANGED <<lastNickname, countVars, totalPings>>

AccountsPasses(c) ==
    /\ nick[c] \in AccountsWhitelist \/ ~tooMany
    /\ Goes(c, "accounts", "nickname")
    /\ fresh' = [fresh EXCEPT ![c] = FALSE]
    /\ UNCHANGED <<nick, nicknames, lastNickname, crossed, countVars, totalPings,
                   lastFirewall>>

\* NicknameCheck.check looks at the last nickname of the address.
NicknameRefuses(c) ==
    /\ lastNickname \in Blacklist
    /\ Goes(c, "nickname", "closed") /\ Forgets(c)
    /\ firewall
    /\ UNCHANGED <<nicknames, lastNickname, countVars, totalPings>>

NicknamePasses(c) ==
    /\ lastNickname \notin Blacklist
    /\ Goes(c, "nickname", "in")
    /\ UNCHANGED <<nameVars, countVars, totalPings, lastFirewall>>

-----------------------------------------------------------------------------
\* Steps of addConnection, and of RatelimitCheck.
Counts(c) ==
    \/ AddConnection(c) \/ AddReset(c) \/ StampPenultimate(c) \/ StampLast(c)
    \/ ReadSecond(c) \/ WriteSecond(c) \/ ReadTotal(c) \/ WriteTotal(c)

Checks(c) ==
    \/ RatelimitUpdate(c) \/ RatelimitPasses(c) \/ RatelimitRefuses(c) \/ Message(c)
    \/ Status(c) \/ PingUpdate(c) \/ PingLook(c)

Connection(c) ==
    \/ Open(c) \/ Leave(c) \/ InvalidProtocol(c) \/ Counts(c) \/ Checks(c)
    \/ ReconnectPasses(c) \/ ReconnectRefuses(c)
    \/ AccountsRefuses(c) \/ AccountsPasses(c)
    \/ NicknameRefuses(c) \/ NicknamePasses(c)
    \/ \E n \in Names : AddNickname(c, n)

Next ==
    \/ Tick \/ Unfirewall
    \/ \E c \in Conns : Connection(c)

Spec == Init /\ [][Next]_vars

-----------------------------------------------------------------------------
(* Properties *)

Places == {"closed", "handshake", "reset", "penultimate", "last", "second",
           "secondWrite", "total", "totalWrite", "ratelimit", "ratelimitReset",
           "look", "message", "messageReset", "ping", "pingReset", "pingLook",
           "reconnect", "login", "accounts", "nickname", "in"}

TypeOK ==
    /\ at \in [Conns -> Places]
    /\ nick \in [Conns -> Names \cup {None}]
    /\ nicknames \subseteq Names /\ lastNickname \in Names \cup {None}
    /\ lastConnection \in Times /\ penultimateConnection \in Times
    /\ connectionsSecond \in 0 .. Top /\ passed \in Int
    /\ told \in 0 .. Attempts \cup {None}
    /\ totalConnections \in 0 .. Attempts /\ totalPings \in 0 .. Pings
    /\ lastFirewall \in 0 .. Expire
    /\ due \in [Conns -> BOOLEAN] /\ now \in [Conns -> 0 .. Far]
    /\ seen \in [Conns -> Nat]
    /\ fresh \in [Conns -> BOOLEAN] /\ crossed \in [Conns -> BOOLEAN]
    /\ \A c \in Conns : at[c] \in {"accounts", "nickname", "in"} =>
                          nick[c] \in Names

\* However logins of one address mix, it keeps no more names than the limit
\* and the whitelist allow, but for those whose check is still to come.
NamesWithinLimit ==
    Cardinality(nicknames \ (AccountsWhitelist \cup
                  {nick[c] : c \in {d \in Conns : at[d] = "accounts"}}))
      <= AccountsLimit

\* A name that was known before its login loses its place only where a name of
\* the whitelist takes one up, or another login was between its two calls.
KnownNamesStay ==
    [][\A c \in Conns :
          AccountsRefuses(c) /\ ~fresh[c] =>
             \/ AccountsWhitelist \cap nicknames # {}
             \/ \E d \in Conns \ {c} : at[d] = "accounts"]_vars

\* From one reset of the counter to the next no more connections pass than the
\* limit allows, and one more for each increment that was lost: because one of
\* several event loops wrote the counter back to what it had read before, or reset
\* it when another had begun to count again.  Nothing else lets one through.
RateBounded == passed <= ConnectionsPerSecond - 1

\* A client who reconnected as often as the last message told it, and was not
\* too slow, is not sent away again for the number of its connections; unless
\* a login under another name started that number again, or one was lost.
PromiseKept ==
    [][\A c \in Conns : ReconnectRefuses(c) /\ told = 0 =>
          tooSlow \/ totalPings < Pings]_vars

\* NicknameCheck looks at the last nickname of the address and not at that of its
\* client: a blacklisted name gets in only if another login of the address added
\* its name between the two calls of this one.
NicknameHolds ==
    \A c \in Conns : at[c] = "in" /\ nick[c] \in Blacklist => crossed[c]
=============================================================================
