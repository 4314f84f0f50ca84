------------------------------- MODULE Routing -------------------------------
(***************************************************************************)
(* How one logged-in user is connected to backend servers: UserConnection  *)
(* (connect, fallback, disconnect), the ServerConnector that logs the user *)
(* in to a backend, the DownstreamBridge that serves the connection once   *)
(* it is joined, and the UpstreamBridge of the client's own channel.       *)
(*                                                                         *)
(* All channels of a user share one event loop, so a handler is one step;  *)
(* plugins call connect and disconnect from threads of their own, whose    *)
(* reads and writes are separate steps.  Login is split where it has read  *)
(* user.isActive() and not yet installed the new server: a plugin thread   *)
(* can disconnect the user in between.                                     *)
(*                                                                         *)
(* A backend connection is a slot of Conn; a slot whose channel is gone is *)
(* used again unless user.server still names it.  Packets other than the   *)
(* ones that route the user, and those plugins send to a server that has   *)
(* no player yet, are not modelled.                                        *)
(***************************************************************************)
EXTENDS Integers, Sequences, FiniteSets

CONSTANTS
  Server,      \* backend servers (ServerInfo)
  Conn,        \* slots for backend connections: a bound on how many coexist
  Thread,      \* plugin threads
  Priority,    \* ListenerInfo.serverPriority, the fallback order
  Messaged,    \* the servers that plugins send data to
  PluginActs,  \* what plugins do, a subset of AllPluginActs
  BackendActs, \* how backends end a connection, a subset of AllBackendActs
  NoServer,    \* null, of a ServerInfo
  NoConn,      \* null, of a ServerConnection
  NoQueue      \* null, of serverJoinQueue

AllPluginActs ==
  {"cancelConnect",   \* cancels a ServerConnectEvent
   "retarget",        \* changes the target of a ServerConnectEvent
   "redirectKick",    \* cancels a ServerKickEvent and names another server
   "connect",         \* calls ProxiedPlayer.connect
   "disconnect",      \* calls ProxiedPlayer.disconnect
   "sendData"}        \* calls ServerInfo.sendData

AllBackendActs ==
  {"refuse",          \* the TCP connection fails or times out
   "moved",           \* it fails, and the name now resolves to another address
   "unresolved",      \* it fails, and its address cannot be compared with the
                      \* name's: the name does not resolve any more, or the address
                     \* is an IPv6 literal or a unix socket
   "kick",            \* sends a Kick
   "kickOutdated",    \* sends a Kick whose reason contains "outdated"
   "exception",       \* a decoder error or a read timeout
   "close",           \* closes the connection of a joined user
   "closeEarly",      \* closes the connection before the user joined
   "outdatedForge"}   \* shows during the login that a 1.7 Forge client is outdated

ASSUME ConnAssumption == IsFiniteSet(Conn) /\ NoConn \notin Conn
ASSUME ServerAssumption == NoServer \notin Server /\ Messaged \subseteq Server
ASSUME PriorityAssumption == Priority \in Seq(Server) /\ NoQueue \notin Seq(Server)
ASSUME ActsAssumption == PluginActs \subseteq AllPluginActs /\ BackendActs \subseteq AllBackendActs

VARIABLES
  \* the client's channel: "new" before the first connect, "open", "closed"
  \* once closed or closing is set, "gone" once channelInactive was handled
  up,
  server,      \* UserConnection.server, a connection or NoConn
  dim,         \* UserConnection.dimensionChange
  queue,       \* UserConnection.serverJoinQueue
  pending,     \* UserConnection.pendingConnects
  players,     \* BungeeServerInfo.players: how often each list holds the user
  phase,       \* phase of each backend connection
  target,      \* the server it leads to
  retry,       \* ServerConnectRequest.isRetry of the attempt
  obsolete,    \* ServerConnection.isObsolete
  joining,     \* the connection whose Login is being handled, or NoConn
  thread,      \* what each plugin thread is in the middle of
  packets,     \* the servers whose packetQueue holds something
  overtaken    \* history: ... that was queued after the queue had been drained

dataVars == <<packets, overtaken>>
vars == <<up, server, dim, queue, pending, players,
          phase, target, retry, obsolete, joining, thread, dataVars>>

Phases == {"free",        \* no channel
           "connecting",  \* Bootstrap.connect under way
           "login",       \* ServerConnector, State.LOGIN_SUCCESS
           "game",        \* ServerConnector, State.LOGIN
           "dropped",     \* ServerConnector, channel closing
           "bridge",      \* DownstreamBridge
           "closing"}     \* DownstreamBridge, channel closing

Idle == [act |-> "idle", to |-> NoServer]

Init ==
  /\ up = "new"
  /\ server = NoConn /\ dim = TRUE /\ queue = NoQueue /\ pending = {}
  /\ players = [s \in Server |-> 0]
  /\ phase = [c \in Conn |-> "free"]
  /\ target = [c \in Conn |-> NoServer]
  /\ retry = [c \in Conn |-> FALSE]
  /\ obsolete = [c \in Conn |-> FALSE]
  /\ joining = NoConn
  /\ thread = [t \in Thread |-> Idle]
  /\ packets = {} /\ overtaken = {}

InFlight(c) == phase[c] \in {"connecting", "login", "game"}
HasBridge(c) == phase[c] \in {"bridge", "closing"}

\* The event loop is not in the middle of handling a Login.
LoopFree == joining = NoConn

\* ProxiedPlayer.isActive: the client's channel is neither closed nor closing.
IsActive == up = "open"

\* Mutant of ServerClosed: the connection is left open.
ServerLeftOpen(ph) == ph

\* user.server is closed, if there is one ...
ServerClosed(ph) ==
  IF server # NoConn /\ ph[server] = "bridge" THEN [ph EXCEPT ![server] = "closing"] ELSE ph

\* ... and made obsolete, so that its loss is not answered.
ServerObsolete(ob) ==
  IF server = NoConn THEN ob ELSE [ob EXCEPT ![server] = TRUE]

ServerTarget == IF server = NoConn THEN NoServer ELSE target[server]

-----------------------------------------------------------------------------
\* UserConnection.updateAndGetNextServer(current).

JoinQueue == IF queue = NoQueue THEN Priority ELSE queue

\* Positions of the queue that do not name the current target.
Others(q, current) == {i \in 1..Len(q) : q[i] # current}

NextServer(current) ==
  LET q == JoinQueue IN
    IF Others(q, current) = {} THEN NoServer
    ELSE q[CHOOSE i \in Others(q, current) : \A j \in Others(q, current) : i <= j]

\* Mutant of NextQueue: the servers tried are not taken off the queue.
QueueNotPopped(current) == JoinQueue

NextQueue(current) ==
  LET q == JoinQueue IN
    IF Others(q, current) = {} THEN <<>>
    ELSE SubSeq(q, 1 + CHOOSE i \in Others(q, current) :
                         \A j \in Others(q, current) : i <= j, Len(q))

-----------------------------------------------------------------------------
\* UserConnection.connect, as the tail of a handler that has made the phases ph
\* and the obsolete flags ob.

\* ServerConnectEvent: the target the attempt is for, or NoServer if cancelled.
ConnectEvent(s) ==
  {s} \cup (IF "retarget" \in PluginActs THEN Server ELSE {})
      \cup (IF "cancelConnect" \in PluginActs THEN {NoServer} ELSE {})

\* pendingConnects.add( target ), and Bootstrap.connect of a new channel.
Launch(s, again, ph, ob) ==
  \E c \in Conn :
    /\ ph[c] = "free" /\ c # server
    /\ phase' = [ph EXCEPT ![c] = "connecting"]
    /\ target' = [target EXCEPT ![c] = s]
    /\ retry' = [retry EXCEPT ![c] = again]
    /\ obsolete' = [ob EXCEPT ![c] = FALSE]

NoLaunch(ph, ob) ==
  phase' = ph /\ obsolete' = ob /\ UNCHANGED <<target, retry>>

\* Already connected, or already connecting: the call returns.
Refused(s, pend) == s = ServerTarget \/ s \in pend

\* pend is what pendingConnects holds when connect is called.
Connect(s, again, ph, ob, pend) ==
  \E e \in ConnectEvent(s) :
    \/ /\ e = NoServer \/ Refused(e, pend)
       /\ pending' = pend
       /\ NoLaunch(ph, ob)
    \/ /\ e # NoServer /\ ~Refused(e, pend)
       /\ pending' = pend \cup {e}
       /\ Launch(e, again, ph, ob)

\* UserConnection.disconnect0.
Disconnect(ph, ob) ==
  IF IsActive
  THEN /\ up' = "closed"
       /\ phase' = ServerClosed(ph) /\ obsolete' = ServerObsolete(ob)
       /\ UNCHANGED <<target, retry>>
  ELSE NoLaunch(ph, ob) /\ UNCHANGED up

\* ServerKickEvent with fallback server def, cancelled beforehand if pre: the
\* server the user is sent to, or NoServer if the user is to be disconnected.
KickEvent(from, def, pre) ==
  {IF pre THEN def ELSE NoServer}
    \cup (IF "redirectKick" \in PluginActs THEN Server \ {from} ELSE {})

-----------------------------------------------------------------------------
\* The attempt: InitialHandler's first connect, and the channel listener.

Join(s) ==
  /\ up = "new" /\ up' = "open"
  /\ Connect(s, TRUE, phase, obsolete, pending)
  /\ UNCHANGED <<server, dim, queue, players, joining, thread, dataVars>>

TcpConnected(c) ==
  /\ LoopFree /\ phase[c] = "connecting"
  /\ phase' = [phase EXCEPT ![c] = "login"]
  /\ UNCHANGED <<up, server, dim, queue, pending, players,
                 target, retry, obsolete, joining, thread, dataVars>>

TcpRefused(c) ==
  /\ LoopFree /\ phase[c] = "connecting" /\ "refuse" \in BackendActs
  /\ LET def == NextServer(target[c])
         ph == [phase EXCEPT ![c] = "free"]
         pend == pending \ {target[c]}
         fallback == retry[c] /\ def # NoServer /\ def # ServerTarget IN
     /\ queue' = NextQueue(target[c])
     /\ \/ /\ fallback
           /\ Connect(def, TRUE, ph, obsolete, pend)
           /\ UNCHANGED up
        \/ /\ ~fallback /\ dim
           /\ Disconnect(ph, obsolete)
           /\ pending' = pend
        \/ /\ ~fallback /\ ~dim
           /\ NoLaunch(ph, obsolete)
           /\ pending' = pend
           /\ UNCHANGED up
  /\ UNCHANGED <<server, dim, players, joining, thread, dataVars>>

\* DynDNS: the address changed, so the same server is tried again.
TcpMoved(c) ==
  /\ LoopFree /\ phase[c] = "connecting" /\ "moved" \in BackendActs
  /\ Connect(target[c], FALSE, [phase EXCEPT ![c] = "free"], obsolete,
             pending \ {target[c]})
  /\ UNCHANGED <<up, server, dim, queue, players, joining, thread, dataVars>>

\* DynDNS: comparing the addresses throws, and netty drops the exception: the
\* callback has taken the server out of pendingConnects and does nothing more.
TcpUnresolved(c) ==
  /\ LoopFree /\ phase[c] = "connecting" /\ "unresolved" \in BackendActs
  /\ phase' = [phase EXCEPT ![c] = "free"]
  /\ pending' = pending \ {target[c]}
  /\ UNCHANGED <<up, server, dim, queue, players,
                 target, retry, obsolete, joining, thread, dataVars>>

-----------------------------------------------------------------------------
\* ServerConnector: the login on the backend.

LoginSuccess(c) ==
  /\ LoopFree /\ phase[c] = "login"
  /\ phase' = [phase EXCEPT ![c] = "game"]
  /\ UNCHANGED <<up, server, dim, queue, pending, players,
                 target, retry, obsolete, joining, thread, dataVars>>

\* Mutant of LoginBegin: the user is joined without asking whether it is active.
LoginIgnoresActive(c) ==
  /\ LoopFree /\ phase[c] = "game"
  /\ packets' = packets \ {target[c]} /\ overtaken' = overtaken \ {target[c]}
  /\ dim' \in IF server = NoConn THEN {dim} ELSE {dim, TRUE}
  /\ obsolete' = ServerObsolete(obsolete)
  /\ joining' = c /\ phase' = ServerClosed(phase)
  /\ UNCHANGED <<up, server, queue, pending, players, target, retry, thread>>

\* Mutant of LoginBegin: the queue is left for the next user.
LoginKeepsPackets(c) ==
  /\ LoopFree /\ phase[c] = "game"
  /\ dim' \in IF server = NoConn THEN {dim} ELSE {dim, TRUE}
  /\ obsolete' = ServerObsolete(obsolete)
  /\ LET ph == ServerClosed(phase) IN
     \/ /\ IsActive /\ joining' = c /\ phase' = ph
     \/ /\ ~IsActive /\ phase' = [ph EXCEPT ![c] = "dropped"] /\ UNCHANGED joining
  /\ UNCHANGED <<up, server, queue, pending, players, target, retry, thread,
                 dataVars>>

\* handle(Login) up to user.isActive(): what is queued for the server is sent to
\* it, and the old server is made obsolete and closed.  A legacy client's
\* dimensionChange is set on the way.
LoginBegin(c) ==
  /\ LoopFree /\ phase[c] = "game"
  /\ packets' = packets \ {target[c]} /\ overtaken' = overtaken \ {target[c]}
  /\ dim' \in IF server = NoConn THEN {dim} ELSE {dim, TRUE}
  /\ obsolete' = ServerObsolete(obsolete)
  /\ LET ph == ServerClosed(phase) IN
     \/ /\ IsActive /\ joining' = c /\ phase' = ph
     \/ /\ ~IsActive /\ phase' = [ph EXCEPT ![c] = "dropped"] /\ UNCHANGED joining
  /\ UNCHANGED <<up, server, queue, pending, players, target, retry, thread>>

\* Mutant of LoginEnd: the user is not added to the server's players.
LoginForgetsPlayer(c) ==
  /\ joining = c /\ joining' = NoConn
  /\ pending' = pending \ {target[c]}
  /\ queue' = NoQueue /\ dim' = FALSE /\ server' = c
  /\ phase' = [phase EXCEPT ![c] = "bridge"]
  /\ obsolete' = [obsolete EXCEPT ![c] = FALSE]
  /\ UNCHANGED <<up, target, retry, players, thread, dataVars>>

\* The rest of handle(Login): the user is on the new server.
LoginEnd(c) ==
  /\ joining = c /\ joining' = NoConn
  /\ players' = [players EXCEPT ![target[c]] = @ + 1]
  /\ pending' = pending \ {target[c]}
  /\ queue' = NoQueue /\ dim' = FALSE /\ server' = c
  /\ phase' = [phase EXCEPT ![c] = "bridge"]
  /\ obsolete' = [obsolete EXCEPT ![c] = FALSE]
  /\ UNCHANGED <<up, target, retry, thread, dataVars>>

\* handle(Kick).  A redirect that a plugin cancels throws where the user has no
\* server; the connector is obsolete by then and only its channel closes.
ConnectorKick(c) ==
  /\ LoopFree /\ phase[c] \in {"login", "game"}
  /\ LET def == NextServer(target[c])
         ph == [phase EXCEPT ![c] = "dropped"] IN
     /\ queue' = NextQueue(target[c])
     /\ \E kick \in {"kick", "kickOutdated"} \cap BackendActs :
        \E to \in KickEvent(target[c], def, kick = "kickOutdated" /\ def # NoServer) :
          \/ /\ to # NoServer
             /\ Connect(to, FALSE, ph, obsolete, pending)
             /\ UNCHANGED up
          \/ /\ to = NoServer /\ dim
             /\ Disconnect(ph, obsolete)
             /\ UNCHANGED pending
          \/ /\ to = NoServer /\ ~dim
             /\ NoLaunch(ph, obsolete)
             /\ UNCHANGED <<up, pending>>
  /\ UNCHANGED <<server, dim, players, joining, thread, dataVars>>

\* Mutant of ConnectorException: a user without a server is left waiting.
ExceptionLeavesUser(c) ==
  /\ LoopFree /\ phase[c] \in {"login", "game"} /\ "exception" \in BackendActs
  /\ NoLaunch([phase EXCEPT ![c] = "dropped"], obsolete)
  /\ UNCHANGED <<up, server, dim, queue, pending, players, joining, thread,
                 dataVars>>

\* exception(), after which HandlerBoss closes the channel.
ConnectorException(c) ==
  /\ LoopFree /\ phase[c] \in {"login", "game"} /\ "exception" \in BackendActs
  /\ LET ph == [phase EXCEPT ![c] = "dropped"] IN
       IF server = NoConn THEN Disconnect(ph, obsolete)
       ELSE NoLaunch(ph, obsolete) /\ UNCHANGED up
  /\ UNCHANGED <<server, dim, queue, pending, players, joining, thread,
                 dataVars>>

\* handle(PluginMessage) of a 1.7 Forge handshake: checkUserOutdated disconnects.
ConnectorOutdated(c) ==
  /\ LoopFree /\ phase[c] = "game" /\ "outdatedForge" \in BackendActs
  /\ Disconnect([phase EXCEPT ![c] = "dropped"], obsolete)
  /\ pending' = pending \ {target[c]}
  /\ UNCHANGED <<server, dim, queue, players, joining, thread, dataVars>>

\* Mutant of ConnectorClosed: pendingConnects keeps the server.
ClosedStaysPending(c) ==
  /\ LoopFree
  /\ \/ phase[c] = "dropped"
     \/ phase[c] \in {"login", "game"} /\ "closeEarly" \in BackendActs
  /\ phase' = [phase EXCEPT ![c] = "free"]
  /\ UNCHANGED <<up, server, dim, queue, pending, players,
                 target, retry, obsolete, joining, thread, dataVars>>

\* channelInactive of a channel whose handler is still the ServerConnector.
ConnectorClosed(c) ==
  /\ LoopFree
  /\ \/ phase[c] = "dropped"
     \/ phase[c] \in {"login", "game"} /\ "closeEarly" \in BackendActs
  /\ phase' = [phase EXCEPT ![c] = "free"]
  /\ pending' = pending \ {target[c]}
  /\ UNCHANGED <<up, server, dim, queue, players,
                 target, retry, obsolete, joining, thread, dataVars>>

-----------------------------------------------------------------------------
\* DownstreamBridge: the connection of a joined user.

\* Mutant of ConnectNow: dimensionChange is left as it was.
ConnectNowKeepsDim(c, to, ph) ==
  /\ Connect(to, FALSE, ph, [obsolete EXCEPT ![c] = TRUE], pending)
  /\ UNCHANGED dim

\* connectNow( to ) once the connection c is obsolete.
ConnectNow(c, to, ph) ==
  /\ dim' = TRUE
  /\ Connect(to, FALSE, ph, [obsolete EXCEPT ![c] = TRUE], pending)

\* The reaction of exception, disconnected and handle(Kick) to the loss of c;
\* a user that is disconnected leaves the obsolete flags ob.
Lost(c, ph, ob) ==
  LET def == NextServer(target[c]) IN
  /\ queue' = NextQueue(target[c])
  /\ \E to \in KickEvent(target[c], def, FALSE) :
       \/ /\ to # NoServer
          /\ ConnectNow(c, to, ph)
          /\ UNCHANGED up
       \/ /\ to = NoServer
          /\ Disconnect(ph, ob)
          /\ UNCHANGED <<dim, pending>>

Unmoved(ph) == NoLaunch(ph, obsolete) /\ UNCHANGED <<up, dim, queue, pending>>

\* exception(), after which HandlerBoss closes the channel.
BridgeException(c) ==
  /\ LoopFree /\ phase[c] = "bridge" /\ "exception" \in BackendActs
  /\ LET ph == [phase EXCEPT ![c] = "closing"] IN
       IF obsolete[c] THEN Unmoved(ph) ELSE Lost(c, ph, obsolete)
  /\ UNCHANGED <<server, players, joining, thread, dataVars>>

\* Mutant of BridgeClosed: an obsolete connection returns before it takes the
\* user off the server's players.
ObsoleteKeepsPlayer(c) ==
  /\ LoopFree
  /\ \/ phase[c] = "closing"
     \/ phase[c] = "bridge" /\ "close" \in BackendActs
  /\ LET ph == [phase EXCEPT ![c] = "free"] IN
       IF obsolete[c] THEN Unmoved(ph) /\ UNCHANGED players
       ELSE Lost(c, ph, obsolete) /\ players' = [players EXCEPT ![target[c]] = @ - 1]
  /\ UNCHANGED <<server, joining, thread, dataVars>>

\* disconnected(): the backend closed the channel, or the proxy had closed it.
BridgeClosed(c) ==
  /\ LoopFree
  /\ \/ phase[c] = "closing"
     \/ phase[c] = "bridge" /\ "close" \in BackendActs
  /\ players' = [players EXCEPT ![target[c]] = @ - 1]
  /\ LET ph == [phase EXCEPT ![c] = "free"] IN
       IF obsolete[c] THEN Unmoved(ph) ELSE Lost(c, ph, obsolete)
  /\ UNCHANGED <<server, joining, thread, dataVars>>

\* handle(Kick); shouldHandle drops it if obsolete.  The backend closes next.
BridgeKick(c) ==
  /\ LoopFree /\ phase[c] = "bridge" /\ ~obsolete[c] /\ "kick" \in BackendActs
  /\ Lost(c, [phase EXCEPT ![c] = "closing"], [obsolete EXCEPT ![c] = TRUE])
  /\ UNCHANGED <<server, players, joining, thread, dataVars>>

-----------------------------------------------------------------------------
\* UpstreamBridge: the client's channel.

\* disconnected(): the client left, or the proxy had closed the channel.  The
\* server is closed but not made obsolete.
ClientGone ==
  /\ LoopFree /\ up \in {"open", "closed"} /\ up' = "gone"
  /\ phase' = ServerClosed(phase)
  /\ UNCHANGED <<server, dim, queue, pending, players,
                 target, retry, obsolete, joining, thread, dataVars>>

\* exception(): a bad packet of the client, or its read timeout.
ClientException ==
  /\ LoopFree /\ IsActive
  /\ Disconnect(phase, obsolete)
  /\ UNCHANGED <<server, dim, queue, pending, players, joining, thread,
                 dataVars>>

-----------------------------------------------------------------------------
\* Plugin threads: connect up to its checks, which do not ask whether the client
\* is still there, then the rest; disconnect0 up to ch.close, then the server.

ThreadConnect(t, s) ==
  /\ thread[t] = Idle /\ up # "new" /\ "connect" \in PluginActs
  /\ \E e \in ConnectEvent(s) :
       /\ e # NoServer /\ ~Refused(e, pending)
       /\ thread' = [thread EXCEPT ![t] = [act |-> "connect", to |-> e]]
  /\ UNCHANGED <<up, server, dim, queue, pending, players,
                 phase, target, retry, obsolete, joining, dataVars>>

ThreadLaunch(t) ==
  /\ thread[t].act = "connect"
  /\ pending' = pending \cup {thread[t].to}
  /\ \E again \in BOOLEAN : Launch(thread[t].to, again, phase, obsolete)
  /\ thread' = [thread EXCEPT ![t] = Idle]
  /\ UNCHANGED <<up, server, dim, queue, players, joining, dataVars>>

ThreadDisconnect(t) ==
  /\ thread[t] = Idle /\ IsActive /\ "disconnect" \in PluginActs
  /\ up' = "closed"
  /\ thread' = [thread EXCEPT ![t] = [act |-> "disconnect", to |-> NoServer]]
  /\ UNCHANGED <<server, dim, queue, pending, players,
                 phase, target, retry, obsolete, joining, dataVars>>

ThreadDropServer(t) ==
  /\ thread[t].act = "disconnect"
  /\ obsolete' = ServerObsolete(obsolete) /\ phase' = ServerClosed(phase)
  /\ thread' = [thread EXCEPT ![t] = Idle]
  /\ UNCHANGED <<up, server, dim, queue, pending, players, target, retry, joining,
                 dataVars>>

\* BungeeServerInfo.sendData: to a user on the server, which changes nothing
\* here; or the list of players is empty, and the message is queued.
ThreadSendData(t, s) ==
  /\ thread[t] = Idle /\ "sendData" \in PluginActs /\ s \in Messaged
  /\ players[s] = 0
  /\ thread' = [thread EXCEPT ![t] = [act |-> "sendData", to |-> s]]
  /\ UNCHANGED <<up, server, dim, queue, pending, players,
                 phase, target, retry, obsolete, joining, dataVars>>

\* A user is on the server, or its Login has drained the queue already.
Drained(s) == players[s] > 0 \/ (joining # NoConn /\ target[joining] = s)

ThreadQueue(t) ==
  /\ thread[t].act = "sendData"
  /\ packets' = packets \cup {thread[t].to}
  /\ overtaken' = overtaken \cup {s \in {thread[t].to} : Drained(s)}
  /\ thread' = [thread EXCEPT ![t] = Idle]
  /\ UNCHANGED <<up, server, dim, queue, pending, players,
                 phase, target, retry, obsolete, joining>>

-----------------------------------------------------------------------------
Attempt(c) == TcpConnected(c) \/ TcpRefused(c) \/ TcpMoved(c) \/ TcpUnresolved(c)

Connector(c) ==
  \/ LoginSuccess(c) \/ LoginBegin(c) \/ ConnectorKick(c)
  \/ ConnectorException(c) \/ ConnectorOutdated(c) \/ ConnectorClosed(c)

Bridge(c) == BridgeException(c) \/ BridgeClosed(c) \/ BridgeKick(c)

ThreadStep(t) == ThreadLaunch(t) \/ ThreadDropServer(t) \/ ThreadQueue(t)

Next ==
  \/ \E s \in Server : Join(s)
  \/ \E c \in Conn : Attempt(c) \/ Connector(c) \/ LoginEnd(c) \/ Bridge(c)
  \/ ClientGone \/ ClientException
  \/ \E t \in Thread, s \in Server : ThreadConnect(t, s) \/ ThreadSendData(t, s)
  \/ \E t \in Thread : ThreadDisconnect(t) \/ ThreadStep(t)

Spec == Init /\ [][Next]_vars

\* InitialHandler always makes the first connect.  A TCP connection is made or
\* times out; the read timeout of the backend pipeline ends a login that makes
\* no progress; netty delivers channelInactive for every channel it closed; the
\* event loop and the plugin threads finish what they began.  Nothing makes a
\* backend or a client leave.
Fairness ==
  /\ WF_vars(\E s \in Server : Join(s))
  /\ \A c \in Conn :
       /\ WF_vars(Attempt(c))
       /\ WF_vars(Connector(c))
       /\ WF_vars(LoginEnd(c))
       /\ WF_vars(phase[c] = "closing" /\ BridgeClosed(c))
  /\ WF_vars(up = "closed" /\ ClientGone)
  /\ \A t \in Thread : WF_vars(ThreadStep(t))

FairSpec == Spec /\ Fairness

-----------------------------------------------------------------------------
TypeOK ==
  /\ up \in {"new", "open", "closed", "gone"}
  /\ server \in Conn \cup {NoConn}
  /\ dim \in BOOLEAN
  /\ queue \in {NoQueue} \cup Seq(Server)
  /\ pending \subseteq Server
  /\ players \in [Server -> Nat]
  /\ phase \in [Conn -> Phases]
  /\ target \in [Conn -> Server \cup {NoServer}]
  /\ retry \in [Conn -> BOOLEAN]
  /\ obsolete \in [Conn -> BOOLEAN]
  /\ joining \in Conn \cup {NoConn}
  /\ thread \in [Thread -> [act : {"idle", "connect", "disconnect", "sendData"},
                         to : Server \cup {NoServer}]]
  /\ packets \subseteq Server /\ overtaken \subseteq packets

\* Only one backend's packets reach the client: a DownstreamBridge whose channel
\* has not been closed is the one of user.server.
OneLiveServer ==
  \A c \in Conn : phase[c] = "bridge" => c = server

\* ServerInfo.players holds the user once for each connection that joined the
\* server and whose loss the proxy has not handled: no ghost players, and no
\* joined user missing, through switches back and forth.
PlayersMatchBridges ==
  \A s \in Server : players[s] = Cardinality({c \in Conn : HasBridge(c) /\ target[c] = s})

\* "Already connecting" is never said of a server no attempt is under way to:
\* pendingConnects cannot shut the user out of a server for good.
PendingIsUnderWay ==
  \A s \in pending : \E c \in Conn :
    target[c] = s /\ (InFlight(c) \/ phase[c] = "dropped")

\* A user whose server is lost has dimensionChange set, so the next failed
\* attempt disconnects it instead of leaving it in an empty world.
LostServerIsFatal ==
  up = "open" /\ LoopFree /\ (server = NoConn \/ obsolete[server] \/ phase[server] = "free")
    => dim

\* An open client that has neither a live server nor an attempt under way to get
\* one: nothing the proxy does will ever end that.
Stranded ==
  /\ up = "open"
  /\ ~(server # NoConn /\ phase[server] = "bridge" /\ ~obsolete[server])
  /\ \A c \in Conn : ~InFlight(c)

\* A failed attempt or a lost server is answered by the next server or by a
\* disconnect; what strands an open client is a failed attempt whose address
\* cannot be compared (TcpUnresolved), and nothing else.  As long as plugins leave
\* redirects and connects alone, no backend closes before the user joined, and no
\* Kick calls the client outdated: these are not answered either.
NeverStranded ==
  [][Stranded' => Stranded \/ \E c \in Conn : TcpUnresolved(c)]_vars

\* A message that sendData queued does not lie in the queue beside a user of its
\* server, who could have carried it, unless it was queued after that user's
\* login had drained the queue: sendData looks at the players first, without a
\* lock, and handle(Login) drains first and adds the player last.
PacketsLeave == \A s \in packets : players[s] > 0 => s \in overtaken

\* Once UpstreamBridge.disconnected has run, the user never joins a backend.
GoneUserNeverJoins ==
  [][up = "gone" => \A c \in Conn : phase[c] # "bridge" => phase'[c] # "bridge"]_vars

\* The fallback order resolves the first connect: the user reaches a server, or
\* is disconnected.  Excepted are addresses that cannot be compared: the user is
\* stranded, or plugins try again and again and each of their attempts ends so.
JoinResolves ==
  \/ <>(server # NoConn \/ up \in {"closed", "gone"} \/ Stranded)
  \/ []<><<\E c \in Conn : TcpUnresolved(c)>>_vars

\* No backend connection outlives the client for good, those included that plugins
\* start after the client has gone.
NoLeak ==
  \A c \in Conn : up = "gone" /\ phase[c] # "free" ~> phase[c] = "free"
=============================================================================
