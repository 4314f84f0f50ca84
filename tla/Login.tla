-------------------------------- MODULE Login --------------------------------
(***************************************************************************)
(* How clients log in: InitialHandler, the state machine of one client's   *)
(* channel until the game starts, for several clients at once, and the     *)
(* registry of connected users they share (BungeeCord.addConnection,       *)
(* removeConnection).                                                      *)
(*                                                                         *)
(* Every client has an event loop of its own, on which a packet handler is *)
(* one step.  An event (PreLoginEvent, LoginEvent, ProxyPingEvent) is      *)
(* continued by its callback, on whatever thread completes it last (module *)
(* AsyncEvent), so the callbacks are steps of their own.  Packets are      *)
(* abstracted to the decisions the handlers take on them.                  *)
(***************************************************************************)
EXTENDS Integers, FiniteSets

CONSTANTS
  Client,      \* slots for client channels; a slot is used again
  Name,        \* user names
  Folded,      \* user names as CaseInsensitiveMap keys them
  Fold,        \* the key of each name
  Canon,       \* the name the session server knows the user by
  Modes,       \* the online modes the config and plugins choose among
  None

ASSUME ClientAssumption == IsFiniteSet(Client) /\ None \notin Client
ASSUME NameAssumption == None \notin Name /\ Fold \in [Name -> Folded] /\ Canon \in [Name -> Name]
ASSUME ModesAssumption == Modes \subseteq BOOLEAN /\ Modes # {}

VARIABLES
  st,          \* thisState, and GAME once the handler is the UpstreamBridge
  chan,        \* the channel: see Chans
  processing,  \* processing
  name,        \* getName()
  uid,         \* uniqueId
  online,      \* onlineMode
  profile,     \* loginProfile has been set
  tasks,       \* callbacks of each kind that are still to run
  byName,      \* BungeeCord.connections
  byUUID       \* connectionsByUUID, and connectionsByOfflineUUID with it

vars == <<st, chan, processing, name, uid, online, profile, tasks, byName, byUUID>>

States == {"HANDSHAKE", "STATUS", "PING", "USERNAME", "ENCRYPT", "FINISHING", "GAME"}

Chans == {"open",
          "kicking",   \* closing is set: delayedClose is to send the Kick
          "closed",    \* closed is set, channelInactive is to come
          "gone"}      \* channelInactive was handled: the slot is free

Kinds == {"legacy",    \* LegacyPing: the ProxyPingEvent
          "status",    \* StatusRequest: the ProxyPingEvent
          "preLogin",  \* LoginRequest: the PreLoginEvent
          "preTail",   \* the end of that callback, after the EncryptionRequest
          "auth",      \* EncryptionResponse: the request to the session server
          "login",     \* finish: the LoginEvent
          "run",       \* the Runnable given to the event loop
          "join"}      \* that Runnable again, after its check of the channel

\* A UUID is made from the name, differently for online and for offline users.
UUID == BOOLEAN \X Name

Init ==
  /\ st = [c \in Client |-> "HANDSHAKE"]
  /\ chan = [c \in Client |-> "gone"]
  /\ processing = [c \in Client |-> FALSE]
  /\ name = [c \in Client |-> None]
  /\ uid = [c \in Client |-> None]
  /\ online = [c \in Client |-> CHOOSE m \in Modes : TRUE]
  /\ profile = [c \in Client |-> FALSE]
  /\ tasks = [c \in Client |-> [k \in Kinds |-> 0]]
  /\ byName = [k \in Folded |-> None]
  /\ byUUID = [u \in UUID |-> None]

registry == <<byName, byUUID>>
identity == <<name, uid, online, profile>>

IsClosed(c) == chan[c] \in {"closed", "gone"}
IsClosing(c) == chan[c] # "open"

\* InitialHandler.disconnect: a Kick after 250 ms where the client can read one,
\* else the channel is closed at once.
Disconnected(ch, s) ==
  IF s \in {"HANDSHAKE", "STATUS", "PING"}
  THEN IF ch = "gone" THEN "gone" ELSE "closed"
  ELSE IF ch = "open" THEN "kicking" ELSE ch

Disconnect(c, s) == chan' = [chan EXCEPT ![c] = Disconnected(@, s)]

Close(c) == chan' = [chan EXCEPT ![c] = IF @ = "gone" THEN @ ELSE "closed"]

Waiting(c, k) == tasks[c][k] > 0

\* A callback of kind k runs and leads to one of kind next, or to nothing.
Nothing == "nothing"

Took(c, k, next) ==
  /\ Waiting(c, k)
  /\ tasks' = [tasks EXCEPT ![c] =
       [j \in Kinds |-> @[j] + (IF j = next THEN 1 ELSE 0) - (IF j = k THEN 1 ELSE 0)]]

Submit(c, k) == tasks' = [tasks EXCEPT ![c][k] = @ + 1]

\* shouldHandle, and the checkStates every handler begins with.
Expect(c, s) == chan[c] = "open" /\ st[c] = s /\ ~processing[c]

-----------------------------------------------------------------------------
\* A client connects.

Accept(c) ==
  /\ chan[c] = "gone"
  /\ tasks[c] = [k \in Kinds |-> 0]
  /\ \A k \in Folded : byName[k] # c
  /\ \A u \in UUID : byUUID[u] # c
  /\ chan' = [chan EXCEPT ![c] = "open"]
  /\ st' = [st EXCEPT ![c] = "HANDSHAKE"]
  /\ processing' = [processing EXCEPT ![c] = FALSE]
  /\ name' = [name EXCEPT ![c] = None]
  /\ uid' = [uid EXCEPT ![c] = None]
  /\ \E m \in Modes : online' = [online EXCEPT ![c] = m]
  /\ profile' = [profile EXCEPT ![c] = FALSE]
  /\ UNCHANGED <<tasks, registry>>

\* handle(Handshake).  It is refused in HANDSHAKE (bad protocol, event cancelled),
\* in STATUS (rate limit), in USERNAME (antibot, unsupported version).
Handshake(c) ==
  /\ Expect(c, "HANDSHAKE")
  /\ \E s \in {"HANDSHAKE", "STATUS", "USERNAME"}, ok \in BOOLEAN :
       /\ s = "HANDSHAKE" => ~ok
       /\ st' = [st EXCEPT ![c] = s]
       /\ processing' = [processing EXCEPT ![c] = ~ok]
       /\ IF ok THEN UNCHANGED chan ELSE Disconnect(c, s)
  /\ UNCHANGED <<identity, tasks, registry>>

LegacyHandshake(c) ==
  /\ chan[c] = "open" /\ st[c] = "HANDSHAKE"
  /\ Close(c)
  /\ UNCHANGED <<st, processing, identity, tasks, registry>>

\* One legacy ping of a client at a time (a bound of the model).
LegacyPing(c) ==
  /\ chan[c] = "open" /\ st[c] = "HANDSHAKE" /\ tasks[c]["legacy"] = 0
  /\ Submit(c, "legacy")
  /\ UNCHANGED <<st, chan, processing, identity, registry>>

LegacyDone(c) ==
  /\ Took(c, "legacy", Nothing) /\ Close(c)
  /\ UNCHANGED <<st, processing, identity, registry>>

StatusRequest(c) ==
  /\ Expect(c, "STATUS")
  /\ st' = [st EXCEPT ![c] = "PING"]
  /\ Submit(c, "status")
  /\ UNCHANGED <<chan, processing, identity, registry>>

StatusDone(c) ==                  \* a plugin may have removed the response
  /\ Took(c, "status", Nothing)
  /\ Close(c) \/ UNCHANGED chan
  /\ UNCHANGED <<st, processing, identity, registry>>

Ping(c) ==
  /\ Expect(c, "PING")
  /\ processing' = [processing EXCEPT ![c] = TRUE]
  /\ Close(c)
  /\ UNCHANGED <<st, identity, tasks, registry>>

-----------------------------------------------------------------------------
\* handle(LoginRequest) and its PreLoginEvent.

\* bungee.getPlayer( getUniqueId() ) != null
UuidTaken(u) == u # None /\ byUUID[u] # None

\* Mutant of LoginRequest: "processing" is not checked.
RequestUnguarded(c) ==
  /\ chan[c] = "open" /\ st[c] = "USERNAME"
  /\ processing' = [processing EXCEPT ![c] = TRUE]
  /\ \E n \in Name : name' = [name EXCEPT ![c] = n]
  /\ \/ Disconnect(c, st[c]) /\ UNCHANGED tasks
     \/ (online[c] \/ ~UuidTaken(uid[c])) /\ Submit(c, "preLogin") /\ UNCHANGED chan
  /\ UNCHANGED <<st, uid, online, profile, registry>>

\* The request is refused for its name, key or address, or because the proxy is
\* full or the user is on.
LoginRequest(c) ==
  /\ Expect(c, "USERNAME")
  /\ processing' = [processing EXCEPT ![c] = TRUE]
  /\ \E n \in Name : name' = [name EXCEPT ![c] = n]
  /\ \/ Disconnect(c, st[c]) /\ UNCHANGED tasks
     \/ (online[c] \/ ~UuidTaken(uid[c])) /\ Submit(c, "preLogin") /\ UNCHANGED chan
  /\ UNCHANGED <<st, uid, online, profile, registry>>

\* finish(), of a user with name n and online mode m, as the last step of a
\* callback of kind k.  An online user that is on already is disconnected and
\* the LoginEvent is called all the same.
Finish(c, n, m, k) ==
  LET u == <<m, n>>
      nameTaken == byName[Fold[n]] # None IN
  /\ uid' = [uid EXCEPT ![c] = u]
  /\ \/ Disconnect(c, "FINISHING") /\ Took(c, k, Nothing)   \* secure profile
     \/ /\ m /\ Took(c, k, "login")
        /\ IF nameTaken \/ UuidTaken(u) THEN Disconnect(c, "FINISHING") ELSE UNCHANGED chan
     \/ /\ ~m /\ nameTaken /\ Took(c, k, Nothing)
        /\ Disconnect(c, "FINISHING")
     \/ /\ ~m /\ ~nameTaken /\ Took(c, k, "login")
        /\ UNCHANGED chan

PreLoginCancelled(c) ==
  /\ Took(c, "preLogin", Nothing) /\ Disconnect(c, st[c])
  /\ UNCHANGED <<st, processing, identity, registry>>

PreLoginLate(c) ==
  /\ IsClosed(c) /\ Took(c, "preLogin", Nothing)
  /\ UNCHANGED <<st, chan, processing, identity, registry>>

\* In ENCRYPT the client can answer before the callback has cleared processing.
\* Offline that is one step: no packet is accepted in FINISHING.
PreLoginDone(c) ==
  /\ Waiting(c, "preLogin") /\ ~IsClosed(c)
  /\ \E m \in Modes :
       /\ online' = [online EXCEPT ![c] = m]
       /\ \/ /\ m /\ Took(c, "preLogin", "preTail")
             /\ st' = [st EXCEPT ![c] = "ENCRYPT"]
             /\ UNCHANGED <<chan, processing, uid>>
          \/ /\ ~m /\ Finish(c, name[c], m, "preLogin")
             /\ st' = [st EXCEPT ![c] = "FINISHING"]
             /\ processing' = [processing EXCEPT ![c] = FALSE]
  /\ UNCHANGED <<name, profile, registry>>

PreLoginTail(c) ==
  /\ Took(c, "preTail", Nothing)
  /\ processing' = [processing EXCEPT ![c] = FALSE]
  /\ UNCHANGED <<st, chan, identity, registry>>

-----------------------------------------------------------------------------
\* handle(EncryptionResponse) and the answer of the session server.

EncryptionInvalid(c) ==           \* Preconditions "Invalid verification"
  /\ chan[c] = "open" /\ st[c] = "ENCRYPT"
  /\ Disconnect(c, st[c])
  /\ UNCHANGED <<st, processing, identity, tasks, registry>>

\* The state is changed before processing is checked.
EncryptionRefused(c) ==
  /\ chan[c] = "open" /\ st[c] = "ENCRYPT" /\ processing[c]
  /\ st' = [st EXCEPT ![c] = "FINISHING"]
  /\ Disconnect(c, "FINISHING")
  /\ UNCHANGED <<processing, identity, tasks, registry>>

EncryptionResponse(c) ==
  /\ Expect(c, "ENCRYPT")
  /\ st' = [st EXCEPT ![c] = "FINISHING"]
  /\ processing' = [processing EXCEPT ![c] = TRUE]
  /\ \/ Submit(c, "auth") /\ UNCHANGED chan
     \/ Close(c) /\ UNCHANGED tasks       \* a shared secret of the wrong length
  /\ UNCHANGED <<identity, registry>>

\* Mutant of AuthFailed: the failure is only logged.
AuthFailureLogged(c) ==
  /\ Took(c, "auth", Nothing)
  /\ UNCHANGED <<st, chan, processing, identity, registry>>

\* Mutant of AuthFailed: the user goes on to finish() under the name it gave.
AuthFailureFinishes(c) ==
  /\ Waiting(c, "auth")
  /\ Finish(c, name[c], online[c], "auth")
  /\ UNCHANGED <<st, processing, name, online, profile, registry>>

AuthFailed(c) ==
  /\ Took(c, "auth", Nothing) /\ Disconnect(c, st[c])
  /\ UNCHANGED <<st, processing, identity, registry>>

AuthDone(c) ==
  /\ Waiting(c, "auth")
  /\ name' = [name EXCEPT ![c] = Canon[@]]
  /\ profile' = [profile EXCEPT ![c] = TRUE]
  /\ Finish(c, Canon[name[c]], online[c], "auth")
  /\ UNCHANGED <<st, processing, online, registry>>

-----------------------------------------------------------------------------
\* The LoginEvent and the Runnable that starts the game.

LoginCancelled(c) ==
  /\ Took(c, "login", Nothing) /\ Disconnect(c, st[c])
  /\ UNCHANGED <<st, processing, identity, registry>>

LoginDone(c) ==
  /\ IF IsClosed(c) THEN Took(c, "login", Nothing) ELSE Took(c, "login", "run")
  /\ UNCHANGED <<st, chan, processing, identity, registry>>

\* new UpstreamBridge: BungeeCord.addConnection.
AddConnection(c) ==
  /\ byName' = [byName EXCEPT ![Fold[name[c]]] = c]
  /\ byUUID' = [byUUID EXCEPT ![uid[c]] = c]

\* Mutant of Run: it asks isClosed, as the callback before it does.
RunAsksIsClosed(c) ==
  /\ IF IsClosed(c) THEN Took(c, "run", Nothing) ELSE Took(c, "run", "join")
  /\ UNCHANGED <<st, chan, processing, identity, registry>>

\* Mutant of Run: it relies on the check of the callback before it.
RunUnchecked(c) ==
  /\ Took(c, "run", "join")
  /\ UNCHANGED <<st, chan, processing, identity, registry>>

Run(c) ==
  /\ IF IsClosing(c) THEN Took(c, "run", Nothing) ELSE Took(c, "run", "join")
  /\ UNCHANGED <<st, chan, processing, identity, registry>>

\* The user is made, registered and given the bridge, whatever another thread has
\* done to the channel since the check.  Nobody can tell these apart: whatever
\* reads the bridge runs on the event loop, which is busy until they are done.
Join(c) ==
  /\ Took(c, "join", Nothing)
  /\ st' = [st EXCEPT ![c] = "GAME"] /\ AddConnection(c)
  /\ UNCHANGED <<chan, processing, identity>>

\* The Runnable is between its check and its end: nothing else runs on the
\* client's event loop, neither the delayed close nor channelInactive.
Joining(c) == Waiting(c, "join")

-----------------------------------------------------------------------------
\* The channel.

\* exception() after a packet the state does not expect, or a plugin's
\* PendingConnection.disconnect, on any thread and so also in the middle of Run;
\* UserConnection.disconnect closes at once.
Fault(c) ==
  /\ chan[c] = "open"
  /\ Disconnect(c, st[c]) \/ (st[c] = "GAME" /\ Close(c))
  /\ UNCHANGED <<st, processing, identity, tasks, registry>>

DelayedClose(c) ==
  /\ chan[c] = "kicking" /\ ~Joining(c) /\ Close(c)
  /\ UNCHANGED <<st, processing, identity, tasks, registry>>

\* Mutant of RemoveConnection: the entries go whoever they name.
RemoveByName(c) ==
  /\ byName' = [byName EXCEPT ![Fold[name[c]]] = None]
  /\ byUUID' = [byUUID EXCEPT ![uid[c]] = None]

\* BungeeCord.removeConnection, when UpstreamBridge hears of the loss.
RemoveConnection(c) ==
  IF byName[Fold[name[c]]] = c
  THEN /\ byName' = [byName EXCEPT ![Fold[name[c]]] = None]
       /\ byUUID' = [byUUID EXCEPT ![uid[c]] = None]
  ELSE UNCHANGED registry

\* channelInactive, whether the client left or the proxy closed the channel.
Inactive(c) ==
  /\ chan[c] # "gone" /\ ~Joining(c) /\ chan' = [chan EXCEPT ![c] = "gone"]
  /\ IF st[c] = "GAME" THEN RemoveConnection(c) ELSE UNCHANGED registry
  /\ UNCHANGED <<st, processing, identity, tasks>>

-----------------------------------------------------------------------------
Packet(c) ==
  \/ Handshake(c) \/ LegacyHandshake(c) \/ LegacyPing(c) \/ StatusRequest(c) \/ Ping(c)
  \/ LoginRequest(c) \/ EncryptionInvalid(c) \/ EncryptionRefused(c) \/ EncryptionResponse(c)

Callback(c) ==
  \/ LegacyDone(c) \/ StatusDone(c)
  \/ PreLoginCancelled(c) \/ PreLoginLate(c) \/ PreLoginDone(c) \/ PreLoginTail(c)
  \/ AuthFailed(c) \/ AuthDone(c)
  \/ LoginCancelled(c) \/ LoginDone(c) \/ Run(c) \/ Join(c)

Next ==
  \E c \in Client :
    \/ Accept(c) \/ Packet(c) \/ Callback(c)
    \/ Fault(c) \/ DelayedClose(c) \/ Inactive(c)

Spec == Init /\ [][Next]_vars

\* Events complete, the session server answers or times out, and the event loop
\* runs what it was given; the scheduled close runs and netty reports it.  No
\* client has to send anything.
Fairness ==
  \A c \in Client :
    /\ WF_vars(LegacyDone(c)) /\ WF_vars(StatusDone(c))
    /\ WF_vars(PreLoginCancelled(c) \/ PreLoginLate(c) \/ PreLoginDone(c))
    /\ WF_vars(PreLoginTail(c)) /\ WF_vars(AuthFailed(c) \/ AuthDone(c))
    /\ WF_vars(LoginCancelled(c) \/ LoginDone(c)) /\ WF_vars(Run(c))
    /\ WF_vars(Join(c)) /\ WF_vars(DelayedClose(c))
    /\ WF_vars(chan[c] = "closed" /\ Inactive(c))

FairSpec == Spec /\ Fairness

-----------------------------------------------------------------------------
TypeOK ==
  /\ st \in [Client -> States]
  /\ chan \in [Client -> Chans]
  /\ processing \in [Client -> BOOLEAN]
  /\ name \in [Client -> {None} \cup Name]
  /\ uid \in [Client -> {None} \cup UUID]
  /\ online \in [Client -> BOOLEAN]
  /\ profile \in [Client -> BOOLEAN]
  /\ tasks \in [Client -> [Kinds -> Nat]]
  /\ byName \in [Folded -> Client \cup {None}]
  /\ byUUID \in [UUID -> Client \cup {None}]

\* At most one callback drives a login: whatever a client sends, and whenever,
\* it cannot have two logins under way on one connection.
LoginKinds == Kinds \ {"legacy", "status"}
OneStepAtATime ==
  \A c \in Client : Cardinality({k \in LoginKinds : tasks[c][k] > 0}) <= 1
                    /\ \A k \in LoginKinds : tasks[c][k] <= 1

\* Whoever is found by name is playing, under that name, and is found by UUID
\* too: a client that was kicked or lost in the middle of its login leaves no
\* name behind, and a user who was overwritten, under the same UUID or that of
\* the other mode, takes nothing along from the one who overwrote it.  (The
\* UUID of one who was overwritten from the other mode does stay behind.)
RegisteredIsConnected ==
  \A k \in Folded : byName[k] # None =>
    LET c == byName[k] IN
      /\ st[c] = "GAME" /\ chan[c] # "gone" /\ Fold[name[c]] = k
      /\ byUUID[uid[c]] = c

\* A user in online mode has been vouched for by the session server.
OnlineIsAuthenticated == \A c \in Client : st[c] = "GAME" /\ online[c] => profile[c]

\* The loss of one user never takes another one out of the registry.
RemovalKeepsOthers ==
  [][\A c \in Client : chan[c] # "gone" /\ chan'[c] = "gone" =>
       /\ \A k \in Folded : byName[k] \notin {c, None} => byName'[k] = byName[k]
       /\ \A u \in UUID : byUUID[u] \notin {c, None} => byUUID'[u] = byUUID[u]]_vars

\* A client that is being kicked never gets into the game, although the online
\* duplicate check disconnects it and lets its login go on.  A kick by another
\* thread that falls between the Runnable's check of the channel and the bridge
\* comes too late: that client joins and is closed then.
KickedNeverJoins ==
  [][\A c \in Client :
       st[c] # "GAME" /\ chan[c] # "open" /\ ~Joining(c) =>
         st'[c] # "GAME" /\ ~Joining(c)']_vars

\* A login the proxy is working on comes to something: the client is asked for
\* its next packet, is in the game, or is disconnected.
LoginResolves ==
  \A c \in Client : (processing[c] \/ st[c] = "FINISHING") ~>
    (st[c] \in {"HANDSHAKE", "USERNAME", "ENCRYPT"} /\ ~processing[c])
      \/ st[c] = "GAME" \/ IsClosed(c)

\* InitialHandler.finish: "In offline mode the existing user stays and we kick
\* the new one": no two connected users have one name.
OneUserPerName ==
  \A c, d \in Client :
    /\ st[c] = "GAME" /\ chan[c] = "open" /\ st[d] = "GAME" /\ chan[d] = "open"
    /\ Fold[name[c]] = Fold[name[d]]
    => c = d
=============================================================================
