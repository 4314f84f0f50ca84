---------------------------- MODULE RoutingProofs ----------------------------
(***************************************************************************)
(* Routing for any number of servers, connections and plugin threads: the  *)
(* client hears one backend, the player lists agree with the connections,  *)
(* pendingConnects and the packet queues keep nothing behind, and who has  *)
(* lost its server is disconnected by the next failure.                    *)
(*                                                                         *)
(* Many handlers end in the same few ways.  The proofs first say of every  *)
(* handler how it ends (Started, GivenUp, AttemptEnds, BridgeEnds), and    *)
(* then of each of these what it does to the invariants.                   *)
(***************************************************************************)
EXTENDS Routing, FiniteSetTheorems, SequenceTheorems,
        WellFoundedInduction, TLAPS

\* A connection with a channel leads to a server.
Targets == \A c \in Conn : phase[c] # "free" => target[c] \in Server

\* A thread in the middle of connect or sendData is about a server, and one in
\* the middle of disconnect has closed the client's channel.
ThreadsOK ==
  \A t \in Thread :
    /\ thread[t].act \in {"connect", "sendData"} => thread[t].to \in Server
    /\ thread[t].act = "disconnect" => up \in {"closed", "gone"}

\* The server the client had is closed before a Login goes on, and the client is
\* not gone until it ends.
JoinInv ==
  joining # NoConn =>
    /\ phase[joining] = "game" /\ up \in {"open", "closed"}
    /\ \A c \in Conn : phase[c] # "bridge"

\* user.server is a connection that was joined.
ServerJoined == server # NoConn => phase[server] \in {"bridge", "closing", "free"}

\* The client has dimensionChange set until it joins a server.
NewIsFatal == up = "new" => dim

\* What is queued for the server that is being joined was queued after the drain.
JoinDrained ==
  joining # NoConn /\ target[joining] \in packets => target[joining] \in overtaken

Counted(s) == {c \in Conn : HasBridge(c) /\ target[c] = s}

IInv ==
  /\ TypeOK /\ Targets /\ ThreadsOK /\ JoinInv /\ ServerJoined /\ JoinDrained
  /\ OneLiveServer /\ PlayersMatchBridges /\ PendingIsUnderWay
  /\ NewIsFatal /\ LostServerIsFatal /\ PacketsLeave

-----------------------------------------------------------------------------
\* How handlers end.

\* connect returns, or starts an attempt on a free slot.
Started(ph, ob, pend) ==
  \/ NoLaunch(ph, ob) /\ pending' = pend
  \/ \E e \in Server, again \in BOOLEAN :
       Launch(e, again, ph, ob) /\ pending' = pend \cup {e}

\* disconnect0.
GivenUp(ph, ob, pend) == Disconnect(ph, ob) /\ pending' = pend

\* An attempt c fails, or its channel closes.
AttemptEnds(c) ==
  /\ LoopFree /\ phase[c] \in {"connecting", "login", "game", "dropped"}
  /\ \E p \in {"free", "dropped"}, pend \in {pending, pending \ {target[c]}} :
       /\ p = "free" => pend = pending \ {target[c]}
       /\ \/ Started([phase EXCEPT ![c] = p], obsolete, pend) /\ UNCHANGED up
          \/ GivenUp([phase EXCEPT ![c] = p], obsolete, pend)
  /\ UNCHANGED <<server, dim, players, joining, thread, dataVars>>

\* The connection c of a user who joined fails, or its channel closes.
BridgeEnds(c) ==
  /\ LoopFree /\ HasBridge(c)
  /\ \E p \in {"closing", "free"} :
       /\ players' = IF p = "free" THEN [players EXCEPT ![target[c]] = @ - 1]
                     ELSE players
       /\ LET ph == [phase EXCEPT ![c] = p]
              lost == [obsolete EXCEPT ![c] = TRUE] IN
          \/ obsolete[c] /\ Unmoved(ph)
          \/ /\ ~obsolete[c]
             /\ \/ Started(ph, lost, pending) /\ dim' = TRUE /\ UNCHANGED up
                \/ \E ob \in {obsolete, lost} : GivenUp(ph, ob, pending) /\ UNCHANGED dim
  /\ UNCHANGED <<server, joining, thread, dataVars>>

\* The first position there is: of the intervals 1 .. i the smallest.
LEMMA FirstOther ==
  ASSUME NEW q \in Seq(Server), NEW s, Others(q, s) # {}
  PROVE  (CHOOSE i \in Others(q, s) : \A j \in Others(q, s) : i <= j) \in Others(q, s)
<1>. DEFINE Upto == {1 .. i : i \in Others(q, s)}
<1>1. Others(q, s) \subseteq Nat \ {0}
  BY LenProperties DEF Others
<1>2. Upto \subseteq FiniteSubsetsOf(Nat) /\ Upto # {}
  <2>1. \A i \in Nat : IsFiniteSet(1 .. i) /\ 1 .. i \subseteq Nat
    BY FS_Interval
  <2>. QED
    BY <1>1, <2>1 DEF FiniteSubsetsOf
<1>3. IsWellFoundedOn(StrictSubsetOrdering(Nat), FiniteSubsetsOf(Nat))
  BY FS_StrictSubsetOrderingWellFounded
<1>4. PICK x \in Upto : \A y \in Upto : <<y, x>> \notin StrictSubsetOrdering(Nat)
  <2>. HIDE DEF Upto
  <2>. QED
    BY <1>2, <1>3, WFMin
<1>5. PICK i \in Others(q, s) : x = 1 .. i
  OBVIOUS
<1>6. ASSUME NEW j \in Others(q, s) PROVE i <= j
  <2>1. SUFFICES ASSUME j < i PROVE FALSE
    BY <1>1
  <2>2. 1 .. j \subseteq 1 .. i /\ i \in 1 .. i /\ i \notin 1 .. j
    BY <1>1, <2>1
  <2>3. <<1 .. j, 1 .. i>> \in StrictSubsetOrdering(Nat)
    BY <1>1, <2>2 DEF StrictSubsetOrdering
  <2>. QED
    BY <1>4, <1>5, <2>3
<1>. QED
  BY <1>6

\* The fallback order never leaves the servers.
LEMMA NextServerType ==
  ASSUME TypeOK, NEW s
  PROVE  NextServer(s) \in Server \cup {NoServer} /\ NextQueue(s) \in Seq(Server)
<1>. DEFINE q == JoinQueue
            k == CHOOSE i \in Others(q, s) : \A j \in Others(q, s) : i <= j
<1>1. q \in Seq(Server)
  BY PriorityAssumption DEF TypeOK, JoinQueue
<1>2. CASE Others(q, s) = {}
  BY <1>2, EmptySeq DEF NextServer, NextQueue
<1>3. CASE Others(q, s) # {}
  <2>1. k \in Others(q, s)
    BY <1>1, <1>3, FirstOther
  <2>2. k \in 1 .. Len(q) /\ Len(q) \in Nat
    BY <1>1, <2>1, LenProperties DEF Others
  <2>3. q[k] \in Server
    BY <1>1, <2>2, ElementOfSeq
  <2>4. \A i \in 1 + k .. Len(q) : q[i] \in Server
    BY <1>1, <2>2, ElementOfSeq
  <2>5. SubSeq(q, 1 + k, Len(q)) \in Seq(Server)
    BY <2>2, <2>4, SubSeqProperties
  <2>6. NextServer(s) = q[k] /\ NextQueue(s) = SubSeq(q, 1 + k, Len(q))
    BY <1>3 DEF NextServer, NextQueue
  <2>. QED
    BY <2>3, <2>5, <2>6
<1>. QED
  BY <1>2, <1>3

\* Whatever plugins make of a ServerConnectEvent, connect starts one attempt at most.
LEMMA ConnectStarts ==
  ASSUME NEW s \in Server, NEW again \in BOOLEAN, NEW ph, NEW ob, NEW pend,
         Connect(s, again, ph, ob, pend)
  PROVE  Started(ph, ob, pend)
<1>1. PICK e \in ConnectEvent(s) :
        \/ NoLaunch(ph, ob) /\ pending' = pend
        \/ e # NoServer /\ Launch(e, again, ph, ob) /\ pending' = pend \cup {e}
  BY DEF Connect
<1>2. e # NoServer => e \in Server
  BY DEF ConnectEvent
<1>. QED
  BY <1>1, <1>2 DEF Started

\* The handlers that end an attempt.
LEMMA AttemptSteps ==
  ASSUME TypeOK, Targets, NEW c \in Conn,
         \/ TcpRefused(c) \/ TcpMoved(c) \/ TcpUnresolved(c) \/ ConnectorKick(c)
         \/ ConnectorException(c) \/ ConnectorOutdated(c) \/ ConnectorClosed(c)
  PROVE  AttemptEnds(c) /\ queue' \in {NoQueue} \cup Seq(Server)
<1>. DEFINE freed == [phase EXCEPT ![c] = "free"]
            dropped == [phase EXCEPT ![c] = "dropped"]
            def == NextServer(target[c])
            less == pending \ {target[c]}
<1>1. def \in Server \cup {NoServer} /\ NextQueue(target[c]) \in Seq(Server)
  BY NextServerType
<1>2. queue \in {NoQueue} \cup Seq(Server)
  BY DEF TypeOK
<1>3. CASE TcpRefused(c)
  <2>1. \/ Started(freed, obsolete, less) /\ UNCHANGED up
        \/ GivenUp(freed, obsolete, less)
    <3>1. CASE Connect(def, TRUE, freed, obsolete, less) /\ def # NoServer /\ UNCHANGED up
      BY <1>1, <3>1, ConnectStarts
    <3>. QED
      BY <1>3, <3>1 DEF TcpRefused, Started, GivenUp
  <2>. QED
    BY <1>1, <1>3, <2>1 DEF TcpRefused, AttemptEnds
<1>4. CASE TcpMoved(c)
  <2>1. target[c] \in Server
    BY <1>4 DEF TcpMoved, Targets
  <2>2. Started(freed, obsolete, less) /\ UNCHANGED up
    BY <1>4, <2>1, ConnectStarts DEF TcpMoved
  <2>. QED
    BY <1>2, <1>4, <2>2 DEF TcpMoved, AttemptEnds
<1>5. CASE ConnectorKick(c)
  <2>1. PICK pre \in BOOLEAN : \E to \in KickEvent(target[c], def, pre) :
          \/ to # NoServer /\ Connect(to, FALSE, dropped, obsolete, pending) /\ UNCHANGED up
          \/ Disconnect(dropped, obsolete) /\ UNCHANGED pending
          \/ NoLaunch(dropped, obsolete) /\ UNCHANGED <<up, pending>>
    BY <1>5 DEF ConnectorKick
  <2>2. \A to \in KickEvent(target[c], def, pre) : to # NoServer => to \in Server
    BY <1>1 DEF KickEvent
  <2>3. \/ Started(dropped, obsolete, pending) /\ UNCHANGED up
        \/ GivenUp(dropped, obsolete, pending)
    <3>. HIDE DEF dropped, def
    <3>1. PICK to \in KickEvent(target[c], def, pre) :
            \/ to # NoServer /\ Connect(to, FALSE, dropped, obsolete, pending) /\ UNCHANGED up
            \/ Disconnect(dropped, obsolete) /\ UNCHANGED pending
            \/ NoLaunch(dropped, obsolete) /\ UNCHANGED <<up, pending>>
      BY <2>1
    <3>2. CASE to # NoServer /\ Connect(to, FALSE, dropped, obsolete, pending) /\ UNCHANGED up
      <4>1. to \in Server
        BY <2>2, <3>2
      <4>. QED
        BY <3>2, <4>1, ConnectStarts
    <3>. QED
      BY <3>1, <3>2 DEF Started, GivenUp
  <2>. QED
    BY <1>1, <1>5, <2>3 DEF ConnectorKick, AttemptEnds
<1>6. CASE ConnectorException(c)
  <2>1. \/ Started(dropped, obsolete, pending) /\ UNCHANGED up
        \/ GivenUp(dropped, obsolete, pending)
    BY <1>6 DEF ConnectorException, Started, GivenUp
  <2>. QED
    BY <1>2, <1>6, <2>1 DEF ConnectorException, AttemptEnds
<1>7. CASE ConnectorOutdated(c)
  <2>1. GivenUp(dropped, obsolete, less)
    BY <1>7 DEF ConnectorOutdated, GivenUp
  <2>. QED
    BY <1>2, <1>7, <2>1 DEF ConnectorOutdated, AttemptEnds
<1>8. CASE ConnectorClosed(c)
  <2>1. Started(freed, obsolete, less) /\ UNCHANGED up
    BY <1>8 DEF ConnectorClosed, Started, NoLaunch
  <2>. QED
    BY <1>2, <1>8, <2>1 DEF ConnectorClosed, AttemptEnds
<1>9. CASE TcpUnresolved(c)
  <2>1. Started(freed, obsolete, less) /\ UNCHANGED up
    BY <1>9 DEF TcpUnresolved, Started, NoLaunch
  <2>. QED
    BY <1>2, <1>9, <2>1 DEF TcpUnresolved, AttemptEnds
<1>. QED
  BY <1>3, <1>4, <1>5, <1>6, <1>7, <1>8, <1>9

\* The handlers that end the connection of a user who joined.
LEMMA LostEnds ==
  ASSUME TypeOK, NEW c \in Conn, NEW ph, NEW ob, Lost(c, ph, ob)
  PROVE  /\ \/ Started(ph, [obsolete EXCEPT ![c] = TRUE], pending) /\ dim' = TRUE
                /\ UNCHANGED up
            \/ GivenUp(ph, ob, pending) /\ UNCHANGED dim
         /\ queue' \in Seq(Server)
<1>1. /\ NextServer(target[c]) \in Server \cup {NoServer}
      /\ NextQueue(target[c]) \in Seq(Server)
  BY NextServerType
<1>2. PICK to \in KickEvent(target[c], NextServer(target[c]), FALSE) :
        \/ to # NoServer /\ ConnectNow(c, to, ph) /\ UNCHANGED up
        \/ Disconnect(ph, ob) /\ UNCHANGED <<dim, pending>>
  BY DEF Lost
<1>3. to # NoServer => to \in Server
  BY <1>1 DEF KickEvent
<1>4. queue' \in Seq(Server)
  BY <1>1 DEF Lost
<1>. QED
  BY <1>2, <1>3, <1>4, ConnectStarts DEF ConnectNow, GivenUp

LEMMA BridgeSteps ==
  ASSUME TypeOK, NEW c \in Conn, BridgeException(c) \/ BridgeClosed(c) \/ BridgeKick(c)
  PROVE  BridgeEnds(c) /\ queue' \in {NoQueue} \cup Seq(Server)
<1>1. queue \in {NoQueue} \cup Seq(Server)
  BY DEF TypeOK
<1>. DEFINE lost == [obsolete EXCEPT ![c] = TRUE]
            ends(ph) ==
              \/ obsolete[c] /\ Unmoved(ph)
              \/ /\ ~obsolete[c]
                 /\ \/ Started(ph, lost, pending) /\ dim' = TRUE /\ UNCHANGED up
                    \/ \E ob \in {obsolete, lost} : GivenUp(ph, ob, pending) /\ UNCHANGED dim
<1>2. CASE BridgeException(c)
  <2>1. /\ ends([phase EXCEPT ![c] = "closing"])
        /\ queue' \in {NoQueue} \cup Seq(Server)
    BY <1>1, <1>2, LostEnds DEF BridgeException, Unmoved
  <2>. QED
    BY <1>2, <2>1 DEF BridgeException, BridgeEnds, HasBridge
<1>3. CASE BridgeClosed(c)
  <2>1. /\ ends([phase EXCEPT ![c] = "free"])
        /\ queue' \in {NoQueue} \cup Seq(Server)
    BY <1>1, <1>3, LostEnds DEF BridgeClosed, Unmoved
  <2>. QED
    BY <1>3, <2>1 DEF BridgeClosed, BridgeEnds, HasBridge
<1>4. CASE BridgeKick(c)
  <2>1. /\ ends([phase EXCEPT ![c] = "closing"])
        /\ queue' \in {NoQueue} \cup Seq(Server)
    BY <1>4, LostEnds DEF BridgeKick
  <2>. QED
    BY <1>4, <2>1 DEF BridgeKick, BridgeEnds, HasBridge
<1>. QED
  BY <1>2, <1>3, <1>4

-----------------------------------------------------------------------------
\* What the ends of handlers do to the slots: besides what ph says, the server may
\* be closed, and a free slot may be taken for an attempt.
Slots(ph) ==
  \A d \in Conn :
    \/ phase'[d] = ph[d] /\ target'[d] = target[d]
    \/ /\ d = server /\ ph[d] = "bridge" /\ phase'[d] = "closing"
       /\ target'[d] = target[d]
    \/ /\ d # server /\ ph[d] = "free" /\ phase'[d] = "connecting"
       /\ target'[d] \in Server

SlotTypes ==
  /\ phase' \in [Conn -> Phases] /\ obsolete' \in [Conn -> BOOLEAN]
  /\ target' \in [Conn -> Server \cup {NoServer}] /\ retry' \in [Conn -> BOOLEAN]
  /\ pending' \subseteq Server

LEMMA ClosedSlots ==
  ASSUME TypeOK, NEW ph \in [Conn -> Phases]
  PROVE  /\ ServerClosed(ph) \in [Conn -> Phases]
         /\ \A d \in Conn : \/ ServerClosed(ph)[d] = ph[d]
                            \/ d = server /\ ph[d] = "bridge" /\ ServerClosed(ph)[d] = "closing"
         /\ server # NoConn => ServerClosed(ph)[server] # "bridge"
  BY DEF TypeOK, ServerClosed, Phases

LEMMA ObsoleteSlots ==
  ASSUME TypeOK, NEW ob \in [Conn -> BOOLEAN]
  PROVE  /\ ServerObsolete(ob) \in [Conn -> BOOLEAN]
         /\ server # NoConn => ServerObsolete(ob)[server]
  BY DEF TypeOK, ServerObsolete

LEMMA LaunchSlots ==
  ASSUME TypeOK, NEW ph \in [Conn -> Phases], NEW ob \in [Conn -> BOOLEAN],
         NEW e \in Server, NEW again \in BOOLEAN, Launch(e, again, ph, ob)
  PROVE  /\ Slots(ph)
         /\ phase' \in [Conn -> Phases] /\ obsolete' \in [Conn -> BOOLEAN]
         /\ target' \in [Conn -> Server \cup {NoServer}] /\ retry' \in [Conn -> BOOLEAN]
         /\ server # NoConn => obsolete'[server] = ob[server] /\ phase'[server] = ph[server]
         /\ \E d \in Conn : ph[d] = "free" /\ phase'[d] = "connecting" /\ target'[d] = e
<1>1. PICK c \in Conn :
        /\ ph[c] = "free" /\ c # server
        /\ phase' = [ph EXCEPT ![c] = "connecting"]
        /\ target' = [target EXCEPT ![c] = e]
        /\ retry' = [retry EXCEPT ![c] = again]
        /\ obsolete' = [ob EXCEPT ![c] = FALSE]
  BY DEF Launch
<1>2. Slots(ph)
  BY <1>1 DEF TypeOK, Slots
<1>3. /\ phase' \in [Conn -> Phases] /\ obsolete' \in [Conn -> BOOLEAN]
      /\ target' \in [Conn -> Server \cup {NoServer}] /\ retry' \in [Conn -> BOOLEAN]
  BY <1>1 DEF TypeOK, Phases
<1>4. server # NoConn => obsolete'[server] = ob[server] /\ phase'[server] = ph[server]
  BY <1>1 DEF TypeOK
<1>5. ph[c] = "free" /\ phase'[c] = "connecting" /\ target'[c] = e
  BY <1>1 DEF TypeOK
<1>. QED
  BY <1>2, <1>3, <1>4, <1>5

\* pendingConnects grows by the server of a new attempt only.
LEMMA StartedSlots ==
  ASSUME TypeOK, NEW ph \in [Conn -> Phases], NEW ob \in [Conn -> BOOLEAN],
         NEW pend \in SUBSET Server, Started(ph, ob, pend)
  PROVE  /\ Slots(ph) /\ SlotTypes
         /\ server # NoConn => obsolete'[server] = ob[server] /\ phase'[server] = ph[server]
         /\ \A s \in pending' :
              s \in pend \/ \E d \in Conn : phase'[d] = "connecting" /\ target'[d] = s
<1>1. CASE NoLaunch(ph, ob) /\ pending' = pend
  BY <1>1 DEF NoLaunch, Slots, SlotTypes, TypeOK
<1>2. ASSUME NEW e \in Server, NEW again \in BOOLEAN,
             Launch(e, again, ph, ob), pending' = pend \cup {e}
      PROVE  /\ Slots(ph) /\ SlotTypes
             /\ server # NoConn => obsolete'[server] = ob[server] /\ phase'[server] = ph[server]
             /\ \A s \in pending' :
                  s \in pend \/ \E d \in Conn : phase'[d] = "connecting" /\ target'[d] = s
  BY <1>2, LaunchSlots DEF SlotTypes
<1>. QED
  BY <1>1, <1>2 DEF Started

LEMMA GivenUpSlots ==
  ASSUME TypeOK, NEW ph \in [Conn -> Phases], NEW ob \in [Conn -> BOOLEAN],
         NEW pend \in SUBSET Server, GivenUp(ph, ob, pend)
  PROVE  /\ Slots(ph) /\ SlotTypes
         /\ up' # "open" /\ up' \in {up, "closed"} /\ (up # "open" => up' = up)
         /\ pending' = pend
<1>1. CASE IsActive
  BY <1>1, ClosedSlots, ObsoleteSlots
     DEF GivenUp, Disconnect, IsActive, Slots, SlotTypes, TypeOK
<1>2. CASE ~IsActive
  BY <1>2 DEF GivenUp, Disconnect, IsActive, NoLaunch, Slots, SlotTypes, TypeOK
<1>. QED
  BY <1>1, <1>2

\* The kinds of steps there are.
Advance(c) == TcpConnected(c) \/ LoginSuccess(c)

Asks(t) ==
  \/ \E s \in Server : ThreadConnect(t, s) \/ ThreadSendData(t, s)
  \/ ThreadDisconnect(t) \/ ThreadQueue(t)

LEMMA Steps ==
  ASSUME TypeOK, Targets, Next
  PROVE  \/ \E s \in Server : Join(s)
         \/ \E c \in Conn : \/ Advance(c) \/ AttemptEnds(c) \/ BridgeEnds(c)
                           \/ LoginBegin(c) \/ LoginEnd(c)
         \/ ClientGone \/ ClientException
         \/ \E t \in Thread : Asks(t) \/ ThreadLaunch(t) \/ ThreadDropServer(t)
<1>1. ASSUME NEW c \in Conn, Attempt(c) \/ Connector(c) \/ Bridge(c)
      PROVE  Advance(c) \/ AttemptEnds(c) \/ BridgeEnds(c) \/ LoginBegin(c)
  BY <1>1, AttemptSteps, BridgeSteps DEF Attempt, Connector, Bridge, Advance
<1>. QED
  BY <1>1 DEF Next, Asks, ThreadStep

-----------------------------------------------------------------------------
\* Connections, and who is joined to one.

\* ph lets connections end and attempts go on, and takes no slot ...
Mild(ph) ==
  \A d \in Conn : ph[d] # phase[d] =>
    /\ ph[d] # "bridge" /\ phase[d] # "free"
    /\ d = server => ph[d] \in {"closing", "free"}

\* ... attempts only, ...
Tame(ph) ==
  \A d \in Conn : ph[d] # phase[d] =>
    /\ phase[d] \in {"connecting", "login", "game", "dropped"}
    /\ ph[d] \in {"login", "game", "dropped", "free"}

\* ... or the connection c of a user who joined.
BridgeLost(c, ph) ==
  /\ HasBridge(c)
  /\ \E p \in {"closing", "free"} :
       /\ ph = [phase EXCEPT ![c] = p]
       /\ players' = IF p = "free" THEN [players EXCEPT ![target[c]] = @ - 1]
                     ELSE players

Joined == ServerJoined /\ OneLiveServer /\ Targets

LEMMA SlotsKeep ==
  ASSUME TypeOK, Joined, NEW ph \in [Conn -> Phases], Mild(ph), Slots(ph),
         server' = server
  PROVE  Joined'
<1>1. ServerJoined'
  BY DEF TypeOK, Joined, ServerJoined, Mild, Slots
<1>2. OneLiveServer'
  BY DEF TypeOK, Joined, OneLiveServer, Mild, Slots
<1>3. Targets'
  BY DEF TypeOK, Joined, Targets, Mild, Slots
<1>. QED
  BY <1>1, <1>2, <1>3 DEF Joined

LEMMA AttemptTame ==
  ASSUME TypeOK, Joined, NEW c \in Conn, NEW p \in {"login", "game", "dropped", "free"},
         phase[c] \in {"connecting", "login", "game", "dropped"}
  PROVE  [phase EXCEPT ![c] = p] \in [Conn -> Phases] /\ Tame([phase EXCEPT ![c] = p])
  BY DEF TypeOK, Phases, Tame

LEMMA TameIsMild ==
  ASSUME TypeOK, Joined, NEW ph, Tame(ph)
  PROVE  Mild(ph)
<1>1. ASSUME NEW d \in Conn, phase[d] \in {"connecting", "login", "game", "dropped"}
      PROVE  d # server
  BY <1>1, ConnAssumption DEF Joined, ServerJoined
<1>. QED
  BY <1>1 DEF Tame, Mild

LEMMA LostIsMild ==
  ASSUME TypeOK, NEW c \in Conn, NEW ph, BridgeLost(c, ph)
  PROVE  Mild(ph)
  BY DEF TypeOK, BridgeLost, HasBridge, Mild

\* What the steps but LoginEnd do to the slots.
LEMMA StepSlots ==
  ASSUME TypeOK, Joined, ThreadsOK, [Next]_vars
  PROVE  \/ \E c \in Conn : LoginEnd(c)
         \/ /\ UNCHANGED <<server, players>>
            /\ \E ph \in [Conn -> Phases] : Tame(ph) /\ Slots(ph)
         \/ /\ UNCHANGED server
            /\ \E c \in Conn, ph \in [Conn -> Phases] : BridgeLost(c, ph) /\ Slots(ph)
<1>. DEFINE Kept == /\ UNCHANGED <<server, players>>
                    /\ \E ph \in [Conn -> Phases] : Tame(ph) /\ Slots(ph)
            Ended == /\ UNCHANGED server
                     /\ \E c \in Conn, ph \in [Conn -> Phases] :
                          BridgeLost(c, ph) /\ Slots(ph)
<1>. phase \in [Conn -> Phases] /\ Tame(phase)
  BY DEF TypeOK, Tame
<1>. obsolete \in [Conn -> BOOLEAN] /\ pending \subseteq Server
  BY DEF TypeOK
<1>1. ASSUME NEW s \in Server, Join(s) PROVE Kept
  BY <1>1, ConnectStarts, StartedSlots DEF Join
<1>2. ASSUME NEW c \in Conn, Advance(c) PROVE Kept
  <2>1. PICK p \in {"login", "game"} :
          phase' = [phase EXCEPT ![c] = p] /\ phase[c] \in {"connecting", "login"}
    BY <1>2 DEF Advance, TcpConnected, LoginSuccess
  <2>. DEFINE ph == [phase EXCEPT ![c] = p]
  <2>2. ph \in [Conn -> Phases] /\ Tame(ph)
    BY <2>1, AttemptTame
  <2>3. UNCHANGED <<server, players, target>>
    BY <1>2 DEF Advance, TcpConnected, LoginSuccess
  <2>4. Slots(ph)
    BY <2>1, <2>3 DEF Slots
  <2>. QED
    BY <2>2, <2>3, <2>4
<1>3. ASSUME NEW c \in Conn, AttemptEnds(c) PROVE Kept
  <2>1. PICK p \in {"free", "dropped"}, pend \in {pending, pending \ {target[c]}} :
          \/ Started([phase EXCEPT ![c] = p], obsolete, pend)
          \/ GivenUp([phase EXCEPT ![c] = p], obsolete, pend)
    BY <1>3 DEF AttemptEnds
  <2>. DEFINE ph == [phase EXCEPT ![c] = p]
  <2>2. ph \in [Conn -> Phases] /\ Tame(ph)
    BY <1>3, AttemptTame DEF AttemptEnds
  <2>3. Started(ph, obsolete, pend) \/ GivenUp(ph, obsolete, pend)
    BY <2>1
  <2>4. pend \in SUBSET Server
    OBVIOUS
  <2>5. Slots(ph)
    <3>. HIDE DEF ph
    <3>. QED
      BY <2>2, <2>3, <2>4, StartedSlots, GivenUpSlots
  <2>. QED
    BY <1>3, <2>2, <2>5 DEF AttemptEnds
<1>4. ASSUME NEW c \in Conn, BridgeEnds(c) PROVE Ended
  <2>. DEFINE lost == [obsolete EXCEPT ![c] = TRUE]
  <2>1. PICK p \in {"closing", "free"} :
          /\ players' = IF p = "free" THEN [players EXCEPT ![target[c]] = @ - 1]
                        ELSE players
          /\ \/ NoLaunch([phase EXCEPT ![c] = p], obsolete)
             \/ Started([phase EXCEPT ![c] = p], lost, pending)
             \/ \E ob \in {obsolete, lost} : GivenUp([phase EXCEPT ![c] = p], ob, pending)
    BY <1>4 DEF BridgeEnds, Unmoved
  <2>. DEFINE ph == [phase EXCEPT ![c] = p]
  <2>2. ph \in [Conn -> Phases] /\ BridgeLost(c, ph)
    BY <1>4, <2>1 DEF BridgeEnds, BridgeLost, Phases
  <2>3. lost \in [Conn -> BOOLEAN]
    OBVIOUS
  <2>4. NoLaunch(ph, obsolete) => Slots(ph)
    BY <2>2 DEF NoLaunch, Slots
  <2>5. Slots(ph)
    <3>. HIDE DEF lost
    <3>. QED
      BY <2>1, <2>2, <2>3, <2>4, StartedSlots, GivenUpSlots
  <2>. QED
    BY <1>4, <2>2, <2>5 DEF BridgeEnds
<1>5. ASSUME NEW c \in Conn, LoginBegin(c) PROVE Kept
  <2>1. PICK ph \in {phase, [phase EXCEPT ![c] = "dropped"]} :
          phase' = ServerClosed(ph) /\ UNCHANGED <<target, server, players>>
    <3>1. [ServerClosed(phase) EXCEPT ![c] = "dropped"]
            = ServerClosed([phase EXCEPT ![c] = "dropped"])
      BY <1>5 DEF LoginBegin, ServerClosed, TypeOK, Joined, ServerJoined
    <3>2. \/ phase' = ServerClosed(phase)
          \/ phase' = [ServerClosed(phase) EXCEPT ![c] = "dropped"]
      BY <1>5 DEF LoginBegin
    <3>3. UNCHANGED <<target, server, players>>
      BY <1>5 DEF LoginBegin
    <3>. QED
      BY <3>1, <3>2, <3>3
  <2>2. ph \in [Conn -> Phases] /\ Tame(ph)
    BY <1>5, AttemptTame DEF LoginBegin
  <2>3. Slots(ph)
    BY <2>1, <2>2, ClosedSlots DEF Slots
  <2>. QED
    BY <2>1, <2>2, <2>3
<1>6. CASE ClientGone
  BY <1>6, ClosedSlots DEF ClientGone, Slots
<1>7. CASE ClientException
  BY <1>7, GivenUpSlots DEF ClientException, GivenUp
<1>8. ASSUME NEW t \in Thread, Asks(t) PROVE Kept
  BY <1>8 DEF Asks, ThreadConnect, ThreadSendData, ThreadDisconnect, ThreadQueue, Slots
<1>9. ASSUME NEW t \in Thread, ThreadLaunch(t) PROVE Kept
  <2>1. thread[t].to \in Server
    BY <1>9 DEF ThreadLaunch, ThreadsOK
  <2>. QED
    BY <1>9, <2>1, LaunchSlots DEF ThreadLaunch
<1>10. ASSUME NEW t \in Thread, ThreadDropServer(t) PROVE Kept
  BY <1>10, ClosedSlots DEF ThreadDropServer, Slots
<1>11. CASE UNCHANGED vars
  BY <1>11 DEF vars, Slots
<1>. QED
  BY <1>1, <1>2, <1>3, <1>4, <1>5, <1>6, <1>7, <1>8, <1>9, <1>10, <1>11, Steps
     DEF Joined

LEMMA NextJoined ==
  ASSUME TypeOK, Joined, ThreadsOK, JoinInv, [Next]_vars PROVE Joined'
<1>1. ASSUME NEW c \in Conn, LoginEnd(c) PROVE Joined'
  BY <1>1, ConnAssumption
     DEF LoginEnd, TypeOK, Joined, JoinInv, ServerJoined, OneLiveServer, Targets
<1>. QED
  BY <1>1, StepSlots, SlotsKeep, TameIsMild, LostIsMild

LEMMA NextJoin ==
  ASSUME TypeOK, Joined, ThreadsOK, JoinInv, [Next]_vars PROVE JoinInv'
<1>. phase \in [Conn -> Phases] /\ joining \in Conn \cup {NoConn}
  BY DEF TypeOK
<1>1. ASSUME NEW s \in Server, Join(s) PROVE JoinInv'
  BY <1>1 DEF Join, JoinInv
<1>2. ASSUME NEW c \in Conn, Advance(c) \/ AttemptEnds(c) \/ BridgeEnds(c) PROVE JoinInv'
  BY <1>2 DEF Advance, TcpConnected, LoginSuccess, AttemptEnds, BridgeEnds, LoopFree, JoinInv
<1>3. ASSUME NEW c \in Conn, LoginBegin(c) PROVE JoinInv'
  <2>1. CASE joining' = NoConn
    BY <2>1 DEF JoinInv
  <2>2. CASE joining' # NoConn
    <3>1. /\ joining' = c /\ phase[c] = "game" /\ phase' = ServerClosed(phase)
          /\ up' = "open"
      BY <1>3, <2>2 DEF LoginBegin, LoopFree, IsActive
    <3>2. \A d \in Conn : phase'[d] # "bridge"
      BY <3>1, ClosedSlots, ConnAssumption DEF Joined, OneLiveServer
    <3>3. phase'[c] = "game"
      BY <3>1, ClosedSlots
    <3>. QED
      BY <3>1, <3>2, <3>3 DEF JoinInv
  <2>. QED
    BY <2>1, <2>2
<1>4. ASSUME NEW c \in Conn, LoginEnd(c) PROVE JoinInv'
  BY <1>4 DEF LoginEnd, JoinInv
<1>5. CASE ClientGone \/ ClientException
  BY <1>5 DEF ClientGone, ClientException, LoopFree, JoinInv
<1>6. ASSUME NEW t \in Thread, Asks(t) PROVE JoinInv'
  BY <1>6 DEF Asks, ThreadConnect, ThreadSendData, ThreadDisconnect, ThreadQueue, JoinInv
<1>7. ASSUME NEW t \in Thread, ThreadLaunch(t) PROVE JoinInv'
  <2>1. thread[t].to \in Server
    BY <1>7 DEF ThreadLaunch, ThreadsOK
  <2>2. Slots(phase) /\ UNCHANGED <<up, joining>>
    BY <1>7, <2>1, LaunchSlots DEF ThreadLaunch, TypeOK
  <2>. QED
    BY <2>2 DEF Slots, JoinInv
<1>8. ASSUME NEW t \in Thread, ThreadDropServer(t) PROVE JoinInv'
  <2>1. phase' = ServerClosed(phase) /\ UNCHANGED <<up, joining>>
    BY <1>8 DEF ThreadDropServer
  <2>. QED
    BY <2>1, ClosedSlots DEF JoinInv
<1>9. CASE UNCHANGED vars
  BY <1>9 DEF vars, JoinInv
<1>. QED
  BY <1>1, <1>2, <1>3, <1>4, <1>5, <1>6, <1>7, <1>8, <1>9, Steps DEF Joined

\* The client's channel goes from new to open to closed to gone.
LEMMA UpGoesOn ==
  ASSUME TypeOK, Joined, ThreadsOK, JoinInv, [Next]_vars
  PROVE  /\ up' \in {"new", "open", "closed", "gone"}
         /\ up \in {"closed", "gone"} => up' \in {"closed", "gone"}
         /\ up # "new" => up' # "new"
         /\ up = "gone" => up' = "gone" /\ \A c \in Conn : ~LoginEnd(c)
         /\ up' = "gone" => up = "gone" \/ ClientGone
<1>. DEFINE On == /\ up' \in {"new", "open", "closed", "gone"}
                  /\ up \in {"closed", "gone"} => up' \in {"closed", "gone"}
                  /\ up # "new" => up' # "new"
                  /\ up = "gone" => up' = "gone"
                  /\ up' = "gone" => up = "gone" \/ ClientGone
<1>. up \in {"new", "open", "closed", "gone"}
  BY DEF TypeOK
<1>1. \A ph, ob, pend : GivenUp(ph, ob, pend) => On
  BY DEF GivenUp, Disconnect, IsActive
<1>2. ASSUME NEW s \in Server, Join(s) PROVE On
  BY <1>2 DEF Join
<1>3. ASSUME NEW c \in Conn,
             Advance(c) \/ AttemptEnds(c) \/ BridgeEnds(c) \/ LoginBegin(c) \/ LoginEnd(c)
      PROVE  On
  BY <1>1, <1>3 DEF Advance, TcpConnected, LoginSuccess, AttemptEnds, BridgeEnds, Unmoved,
                    LoginBegin, LoginEnd
<1>4. ASSUME ClientGone PROVE On
  BY <1>4 DEF ClientGone
<1>5. ASSUME ClientException PROVE On
  BY <1>5 DEF ClientException, Disconnect, IsActive
<1>6. ASSUME NEW t \in Thread, Asks(t) \/ ThreadLaunch(t) \/ ThreadDropServer(t) PROVE On
  BY <1>6 DEF Asks, ThreadConnect, ThreadSendData, ThreadDisconnect, ThreadQueue,
              ThreadLaunch, ThreadDropServer, IsActive
<1>7. ASSUME UNCHANGED vars PROVE On
  BY <1>7 DEF vars
<1>8. On
  BY <1>2, <1>3, <1>4, <1>5, <1>6, <1>7, Steps DEF Joined
<1>9. up = "gone" => \A c \in Conn : ~LoginEnd(c)
  BY ConnAssumption DEF LoginEnd, JoinInv
<1>. QED
  BY <1>8, <1>9

ThreadTypes ==
  thread \in [Thread -> [act : {"idle", "connect", "disconnect", "sendData"},
                        to : Server \cup {NoServer}]]

LEMMA NextThreads ==
  ASSUME TypeOK, Joined, ThreadsOK, JoinInv, [Next]_vars
  PROVE  ThreadsOK' /\ ThreadTypes'
<1>. up \in {"closed", "gone"} => up' \in {"closed", "gone"}
  BY UpGoesOn
<1>. ThreadTypes
  BY DEF TypeOK, ThreadTypes
<1>1. ASSUME UNCHANGED thread PROVE ThreadsOK' /\ ThreadTypes'
  BY <1>1 DEF ThreadsOK, ThreadTypes
<1>2. ASSUME NEW t \in Thread, NEW s \in Server, ThreadConnect(t, s)
      PROVE  ThreadsOK' /\ ThreadTypes'
  <2>1. PICK e \in Server : thread' = [thread EXCEPT ![t] = [act |-> "connect", to |-> e]]
    BY <1>2 DEF ThreadConnect, ConnectEvent
  <2>. QED
    BY <2>1 DEF ThreadsOK, ThreadTypes
<1>3. ASSUME NEW t \in Thread, NEW s \in Server, ThreadSendData(t, s)
      PROVE  ThreadsOK' /\ ThreadTypes'
  BY <1>3 DEF ThreadSendData, ThreadsOK, ThreadTypes
<1>4. ASSUME NEW t \in Thread, ThreadDisconnect(t) PROVE ThreadsOK' /\ ThreadTypes'
  BY <1>4 DEF ThreadDisconnect, ThreadsOK, ThreadTypes
<1>5. ASSUME NEW t \in Thread, ThreadLaunch(t) \/ ThreadDropServer(t) \/ ThreadQueue(t)
      PROVE  ThreadsOK' /\ ThreadTypes'
  <2>1. thread' = [thread EXCEPT ![t] = Idle]
    BY <1>5 DEF ThreadLaunch, ThreadDropServer, ThreadQueue
  <2>. QED
    BY <2>1 DEF Idle, ThreadsOK, ThreadTypes
<1>6. \/ UNCHANGED thread
      \/ \E t \in Thread : Asks(t) \/ ThreadLaunch(t) \/ ThreadDropServer(t)
  <2>1. ASSUME NEW c \in Conn,
               Advance(c) \/ AttemptEnds(c) \/ BridgeEnds(c) \/ LoginBegin(c) \/ LoginEnd(c)
        PROVE  UNCHANGED thread
    BY <2>1 DEF Advance, TcpConnected, LoginSuccess, AttemptEnds, BridgeEnds, LoginBegin,
                LoginEnd
  <2>. QED
    BY <2>1, Steps DEF Joined, Join, ClientGone, ClientException, vars
<1>. QED
  BY <1>1, <1>2, <1>3, <1>4, <1>5, <1>6 DEF Asks

-----------------------------------------------------------------------------
\* The player lists.

LEMMA CountedFinite ==
  ASSUME NEW s
  PROVE  IsFiniteSet(Counted(s)) /\ Cardinality(Counted(s)) \in Nat
<1>1. Counted(s) \in SUBSET Conn
  BY DEF Counted
<1>. QED
  BY <1>1, ConnAssumption, FS_Subset, FS_CardinalityType

LEMMA NextPlayers ==
  ASSUME TypeOK, Joined, ThreadsOK, JoinInv, PlayersMatchBridges, [Next]_vars
  PROVE  players' \in [Server -> Nat] /\ PlayersMatchBridges'
<1>. players \in [Server -> Nat] /\ phase \in [Conn -> Phases]
  BY DEF TypeOK
<1>. \A s \in Server : players[s] = Cardinality(Counted(s))
  BY DEF PlayersMatchBridges, Counted
<1>1. SUFFICES /\ players' \in [Server -> Nat]
               /\ \A s \in Server : players'[s] = Cardinality(Counted(s)')
  BY DEF PlayersMatchBridges, Counted
<1>2. ASSUME NEW c \in Conn, LoginEnd(c)
      PROVE  /\ players' \in [Server -> Nat]
             /\ \A s \in Server : players'[s] = Cardinality(Counted(s)')
  <2>1. /\ phase[c] = "game" /\ phase' = [phase EXCEPT ![c] = "bridge"]
        /\ target' = target /\ players' = [players EXCEPT ![target[c]] = @ + 1]
    BY <1>2, ConnAssumption DEF LoginEnd, JoinInv
  <2>2. target[c] \in Server
    BY <2>1 DEF Joined, Targets
  <2>3. ASSUME NEW s \in Server, s = target[c] PROVE players'[s] = Cardinality(Counted(s)')
    <3>1. c \notin Counted(s) /\ Counted(s)' = Counted(s) \cup {c}
      BY <2>1, <2>3 DEF Counted, HasBridge
    <3>2. Cardinality(Counted(s) \cup {c}) = Cardinality(Counted(s)) + 1
      BY <3>1, CountedFinite, FS_AddElement
    <3>. QED
      BY <2>1, <2>3, <3>1, <3>2
  <2>4. ASSUME NEW s \in Server, s # target[c] PROVE players'[s] = Cardinality(Counted(s)')
    <3>1. Counted(s)' = Counted(s)
      BY <2>1, <2>4 DEF Counted, HasBridge
    <3>. QED
      BY <2>1, <2>4, <3>1
  <2>5. players' \in [Server -> Nat]
    BY <2>1, <2>2
  <2>. QED
    BY <2>3, <2>4, <2>5
<1>3. ASSUME UNCHANGED players, NEW ph \in [Conn -> Phases], Tame(ph), Slots(ph)
      PROVE  /\ players' \in [Server -> Nat]
             /\ \A s \in Server : players'[s] = Cardinality(Counted(s)')
  <2>1. \A s \in Server : Counted(s)' = Counted(s)
    BY <1>3 DEF Tame, Slots, Counted, HasBridge
  <2>. QED
    BY <1>3, <2>1
<1>4. ASSUME NEW c \in Conn, NEW ph \in [Conn -> Phases], BridgeLost(c, ph), Slots(ph)
      PROVE  /\ players' \in [Server -> Nat]
             /\ \A s \in Server : players'[s] = Cardinality(Counted(s)')
  <2>1. PICK p \in {"closing", "free"} :
          /\ ph = [phase EXCEPT ![c] = p]
          /\ players' = IF p = "free" THEN [players EXCEPT ![target[c]] = @ - 1]
                        ELSE players
    BY <1>4 DEF BridgeLost
  <2>2. HasBridge(c) /\ target[c] \in Server
    BY <1>4 DEF BridgeLost, Joined, Targets, HasBridge
  <2>3. CASE p = "closing"
    <3>1. \A s \in Server : Counted(s)' = Counted(s)
      BY <1>4, <2>1, <2>2, <2>3 DEF Slots, Counted, HasBridge
    <3>. QED
      BY <2>1, <2>3, <3>1
  <2>4. CASE p = "free"
    <3>1. players' = [players EXCEPT ![target[c]] = @ - 1]
      BY <2>1, <2>4
    <3>2. ASSUME NEW s \in Server, s = target[c]
          PROVE  players'[s] = Cardinality(Counted(s)') /\ players'[s] \in Nat
      <4>1. c \in Counted(s) /\ Counted(s)' = Counted(s) \ {c}
        BY <1>4, <2>1, <2>2, <2>4, <3>2 DEF Slots, Counted, HasBridge
      <4>2. /\ Cardinality(Counted(s) \ {c}) = Cardinality(Counted(s)) - 1
            /\ Cardinality(Counted(s) \ {c}) \in Nat
        BY <4>1, CountedFinite, FS_RemoveElement, FS_CardinalityType
      <4>. QED
        BY <3>1, <3>2, <4>1, <4>2
    <3>3. ASSUME NEW s \in Server, s # target[c] PROVE players'[s] = Cardinality(Counted(s)')
      <4>1. Counted(s)' = Counted(s)
        BY <1>4, <2>1, <2>2, <2>4, <3>3 DEF Slots, Counted, HasBridge
      <4>. QED
        BY <3>1, <3>3, <4>1
    <3>4. players' \in [Server -> Nat]
      BY <2>2, <3>1, <3>2
    <3>. QED
      BY <3>2, <3>3, <3>4
  <2>. QED
    BY <2>3, <2>4
<1>. QED
  BY <1>2, <1>3, <1>4, StepSlots

-----------------------------------------------------------------------------
\* Types.

LEMMA QueueType ==
  ASSUME TypeOK, Joined, [Next]_vars
  PROVE  queue' \in {NoQueue} \cup Seq(Server)
<1>. queue \in {NoQueue} \cup Seq(Server)
  BY DEF TypeOK
<1>1. ASSUME NEW c \in Conn, Attempt(c) \/ Connector(c) \/ Bridge(c)
      PROVE  queue' \in {NoQueue} \cup Seq(Server)
  <2>1. \/ AttemptEnds(c) /\ queue' \in {NoQueue} \cup Seq(Server)
        \/ BridgeEnds(c) /\ queue' \in {NoQueue} \cup Seq(Server)
        \/ Advance(c) \/ LoginBegin(c)
    BY <1>1, AttemptSteps, BridgeSteps DEF Attempt, Connector, Bridge, Advance, Joined
  <2>. QED
    BY <2>1 DEF Advance, TcpConnected, LoginSuccess, LoginBegin
<1>2. ASSUME NEW c \in Conn, LoginEnd(c) PROVE queue' \in {NoQueue} \cup Seq(Server)
  BY <1>2 DEF LoginEnd
<1>3. CASE UNCHANGED queue
  BY <1>3
<1>4. \/ UNCHANGED queue
      \/ \E c \in Conn : Attempt(c) \/ Connector(c) \/ LoginEnd(c) \/ Bridge(c)
  BY DEF Next, Join, ClientGone, ClientException, ThreadConnect, ThreadSendData,
         ThreadDisconnect, ThreadStep, ThreadLaunch, ThreadDropServer, ThreadQueue, vars
<1>. QED
  BY <1>1, <1>2, <1>3, <1>4

LEMMA NextSlotTypes ==
  ASSUME TypeOK, Joined, ThreadsOK, JoinInv, [Next]_vars PROVE SlotTypes
<1>. /\ phase \in [Conn -> Phases] /\ obsolete \in [Conn -> BOOLEAN]
     /\ target \in [Conn -> Server \cup {NoServer}] /\ retry \in [Conn -> BOOLEAN]
     /\ pending \subseteq Server
  BY DEF TypeOK
<1>1. ASSUME NEW s \in Server, Join(s) PROVE SlotTypes
  BY <1>1, ConnectStarts, StartedSlots DEF Join
<1>2. ASSUME NEW c \in Conn, Advance(c) PROVE SlotTypes
  BY <1>2 DEF Advance, TcpConnected, LoginSuccess, Phases, SlotTypes
<1>3. ASSUME NEW c \in Conn, AttemptEnds(c) PROVE SlotTypes
  <2>1. PICK p \in {"free", "dropped"}, pend \in {pending, pending \ {target[c]}} :
          \/ Started([phase EXCEPT ![c] = p], obsolete, pend)
          \/ GivenUp([phase EXCEPT ![c] = p], obsolete, pend)
    BY <1>3 DEF AttemptEnds
  <2>2. [phase EXCEPT ![c] = p] \in [Conn -> Phases] /\ pend \in SUBSET Server
    BY DEF Phases
  <2>. QED
    BY <2>1, <2>2, StartedSlots, GivenUpSlots
<1>4. ASSUME NEW c \in Conn, BridgeEnds(c) PROVE SlotTypes
  <2>. DEFINE lost == [obsolete EXCEPT ![c] = TRUE]
  <2>1. PICK p \in {"closing", "free"} :
          \/ NoLaunch([phase EXCEPT ![c] = p], obsolete) /\ UNCHANGED pending
          \/ Started([phase EXCEPT ![c] = p], lost, pending)
          \/ \E ob \in {obsolete, lost} : GivenUp([phase EXCEPT ![c] = p], ob, pending)
    BY <1>4 DEF BridgeEnds, Unmoved
  <2>2. [phase EXCEPT ![c] = p] \in [Conn -> Phases] /\ lost \in [Conn -> BOOLEAN]
    BY DEF Phases
  <2>3. ASSUME NoLaunch([phase EXCEPT ![c] = p], obsolete), UNCHANGED pending PROVE SlotTypes
    BY <2>2, <2>3 DEF NoLaunch, SlotTypes
  <2>. HIDE DEF lost
  <2>. QED
    BY <2>1, <2>2, <2>3, StartedSlots, GivenUpSlots
<1>5. ASSUME NEW c \in Conn, LoginBegin(c) PROVE SlotTypes
  <2>1. phase' \in [Conn -> Phases]
    BY <1>5, ClosedSlots DEF LoginBegin, Phases
  <2>2. obsolete' \in [Conn -> BOOLEAN]
    BY <1>5, ObsoleteSlots DEF LoginBegin
  <2>. QED
    BY <1>5, <2>1, <2>2 DEF LoginBegin, SlotTypes
<1>6. ASSUME NEW c \in Conn, LoginEnd(c) PROVE SlotTypes
  BY <1>6 DEF LoginEnd, Phases, SlotTypes
<1>7. ASSUME ClientGone PROVE SlotTypes
  BY <1>7, ClosedSlots DEF ClientGone, SlotTypes
<1>8. ASSUME ClientException PROVE SlotTypes
  BY <1>8, GivenUpSlots DEF ClientException, GivenUp
<1>9. ASSUME NEW t \in Thread, Asks(t) PROVE SlotTypes
  BY <1>9 DEF Asks, ThreadConnect, ThreadSendData, ThreadDisconnect, ThreadQueue, SlotTypes
<1>10. ASSUME NEW t \in Thread, ThreadLaunch(t) PROVE SlotTypes
  <2>1. thread[t].to \in Server
    BY <1>10 DEF ThreadLaunch, ThreadsOK
  <2>. QED
    BY <1>10, <2>1, LaunchSlots DEF ThreadLaunch, SlotTypes
<1>11. ASSUME NEW t \in Thread, ThreadDropServer(t) PROVE SlotTypes
  BY <1>11, ClosedSlots, ObsoleteSlots DEF ThreadDropServer, SlotTypes
<1>12. ASSUME UNCHANGED vars PROVE SlotTypes
  BY <1>12 DEF vars, SlotTypes
<1>. QED
  BY <1>1, <1>2, <1>3, <1>4, <1>5, <1>6, <1>7, <1>8, <1>9, <1>10, <1>11, <1>12, Steps
     DEF Joined

LEMMA NextTypes ==
  ASSUME TypeOK, Joined, ThreadsOK, JoinInv, PlayersMatchBridges, [Next]_vars
  PROVE  TypeOK'
<1>1. up' \in {"new", "open", "closed", "gone"}
  BY UpGoesOn
<1>2. SlotTypes /\ ThreadTypes' /\ queue' \in {NoQueue} \cup Seq(Server)
  BY NextSlotTypes, NextThreads, QueueType
<1>3. players' \in [Server -> Nat]
  BY NextPlayers
<1>. DEFINE Rest == /\ server' \in Conn \cup {NoConn} /\ dim' \in BOOLEAN
                    /\ joining' \in Conn \cup {NoConn}
                    /\ packets' \subseteq Server /\ overtaken' \subseteq packets'
<1>. /\ server \in Conn \cup {NoConn} /\ dim \in BOOLEAN
     /\ joining \in Conn \cup {NoConn}
     /\ packets \subseteq Server /\ overtaken \subseteq packets
  BY DEF TypeOK
<1>4. ASSUME UNCHANGED <<server, dim, joining, dataVars>> PROVE Rest
  BY <1>4 DEF dataVars
<1>5. ASSUME NEW c \in Conn, BridgeEnds(c) PROVE Rest
  BY <1>5 DEF BridgeEnds, Unmoved, dataVars
<1>6. ASSUME NEW c \in Conn, LoginBegin(c) \/ LoginEnd(c) PROVE Rest
  BY <1>6 DEF LoginBegin, LoginEnd, dataVars
<1>7. ASSUME NEW t \in Thread, ThreadQueue(t) PROVE Rest
  <2>1. thread[t].to \in Server
    BY <1>7 DEF ThreadQueue, ThreadsOK
  <2>. QED
    BY <1>7, <2>1 DEF ThreadQueue
<1>8. \/ UNCHANGED <<server, dim, joining, dataVars>>
      \/ \E c \in Conn : BridgeEnds(c) \/ LoginBegin(c) \/ LoginEnd(c)
      \/ \E t \in Thread : ThreadQueue(t)
  BY Steps DEF Joined, Join, Advance, TcpConnected, LoginSuccess, AttemptEnds, ClientGone,
     ClientException, Asks, ThreadConnect, ThreadSendData, ThreadDisconnect, ThreadLaunch,
     ThreadDropServer, vars
<1>9. Rest
  BY <1>4, <1>5, <1>6, <1>7, <1>8
<1>. QED
  BY <1>1, <1>2, <1>3, <1>9 DEF TypeOK, SlotTypes, ThreadTypes

-----------------------------------------------------------------------------
\* pendingConnects.

UnderWay == {"connecting", "login", "game", "dropped"}

LEMMA PendingKeeps ==
  ASSUME NEW ph, Slots(ph),
         \A s \in pending' :
           \/ \E d \in Conn : ph[d] \in UnderWay /\ target[d] = s
           \/ \E d \in Conn : phase'[d] = "connecting" /\ target'[d] = s
  PROVE  PendingIsUnderWay'
<1>1. \A d \in Conn : ph[d] \in UnderWay => phase'[d] = ph[d] /\ target'[d] = target[d]
  BY DEF Slots, UnderWay
<1>. QED
  BY <1>1 DEF PendingIsUnderWay, InFlight, UnderWay

LEMMA NextPending ==
  ASSUME TypeOK, Joined, ThreadsOK, JoinInv, PendingIsUnderWay, [Next]_vars
  PROVE  PendingIsUnderWay'
<1>. /\ phase \in [Conn -> Phases] /\ obsolete \in [Conn -> BOOLEAN]
     /\ pending \subseteq Server
  BY DEF TypeOK
<1>a. \A s \in pending : \E d \in Conn : phase[d] \in UnderWay /\ target[d] = s
  BY DEF PendingIsUnderWay, InFlight, UnderWay
<1>1. ASSUME NEW s \in Server, Join(s) PROVE PendingIsUnderWay'
  <2>1. Started(phase, obsolete, pending)
    BY <1>1, ConnectStarts DEF Join
  <2>. QED
    BY <1>a, <2>1, StartedSlots, PendingKeeps
<1>2. ASSUME NEW c \in Conn, Advance(c) PROVE PendingIsUnderWay'
  <2>1. PICK p \in {"login", "game"} : phase' = [phase EXCEPT ![c] = p]
    BY <1>2 DEF Advance, TcpConnected, LoginSuccess
  <2>2. UNCHANGED <<target, pending>>
    BY <1>2 DEF Advance, TcpConnected, LoginSuccess
  <2>. QED
    BY <1>a, <2>1, <2>2 DEF PendingIsUnderWay, InFlight, UnderWay
<1>3. ASSUME NEW c \in Conn, AttemptEnds(c) PROVE PendingIsUnderWay'
  <2>1. PICK p \in {"free", "dropped"}, pend \in {pending, pending \ {target[c]}} :
          /\ p = "free" => pend = pending \ {target[c]}
          /\ \/ Started([phase EXCEPT ![c] = p], obsolete, pend)
             \/ GivenUp([phase EXCEPT ![c] = p], obsolete, pend)
    BY <1>3 DEF AttemptEnds
  <2>. DEFINE ph == [phase EXCEPT ![c] = p]
  <2>2. ph \in [Conn -> Phases] /\ pend \in SUBSET Server
    BY DEF Phases
  <2>3. \A s \in pend : \E d \in Conn : ph[d] \in UnderWay /\ target[d] = s
    BY <1>a, <2>1 DEF UnderWay
  <2>4. Started(ph, obsolete, pend) \/ GivenUp(ph, obsolete, pend)
    BY <2>1
  <2>. HIDE DEF ph
  <2>. QED
    BY <2>2, <2>3, <2>4, StartedSlots, GivenUpSlots, PendingKeeps
<1>4. ASSUME NEW c \in Conn, BridgeEnds(c) PROVE PendingIsUnderWay'
  <2>. DEFINE lost == [obsolete EXCEPT ![c] = TRUE]
  <2>1. PICK p \in {"closing", "free"} :
          \/ NoLaunch([phase EXCEPT ![c] = p], obsolete) /\ UNCHANGED pending
          \/ Started([phase EXCEPT ![c] = p], lost, pending)
          \/ \E ob \in {obsolete, lost} : GivenUp([phase EXCEPT ![c] = p], ob, pending)
    BY <1>4 DEF BridgeEnds, Unmoved
  <2>. DEFINE ph == [phase EXCEPT ![c] = p]
  <2>2. ph \in [Conn -> Phases] /\ lost \in [Conn -> BOOLEAN] /\ pending \in SUBSET Server
    BY DEF Phases
  <2>3. \A s \in pending : \E d \in Conn : ph[d] \in UnderWay /\ target[d] = s
    BY <1>4, <1>a DEF BridgeEnds, HasBridge, UnderWay
  <2>4. NoLaunch(ph, obsolete) => Slots(ph)
    BY <2>2 DEF NoLaunch, Slots
  <2>5. \/ NoLaunch(ph, obsolete) /\ UNCHANGED pending
        \/ Started(ph, lost, pending)
        \/ \E ob \in {obsolete, lost} : GivenUp(ph, ob, pending)
    BY <2>1
  <2>. HIDE DEF ph, lost
  <2>. QED
    BY <2>2, <2>3, <2>4, <2>5, StartedSlots, GivenUpSlots, PendingKeeps
<1>5. ASSUME NEW c \in Conn, LoginBegin(c) PROVE PendingIsUnderWay'
  <2>1. /\ phase[c] = "game" /\ UNCHANGED <<pending, target>>
        /\ \/ phase' = ServerClosed(phase)
           \/ phase' = [ServerClosed(phase) EXCEPT ![c] = "dropped"]
    BY <1>5 DEF LoginBegin
  <2>2. \A d \in Conn : phase[d] \in UnderWay => phase'[d] \in UnderWay
    BY <2>1, ClosedSlots DEF UnderWay
  <2>. QED
    BY <1>a, <2>1, <2>2 DEF PendingIsUnderWay, InFlight, UnderWay
<1>6. ASSUME NEW c \in Conn, LoginEnd(c) PROVE PendingIsUnderWay'
  BY <1>6, <1>a DEF LoginEnd, PendingIsUnderWay, InFlight, UnderWay
<1>7. ASSUME UNCHANGED <<pending, target>>,
             phase' = phase \/ phase' = ServerClosed(phase)
      PROVE  PendingIsUnderWay'
  <2>1. \A d \in Conn : phase[d] \in UnderWay => phase'[d] \in UnderWay
    BY <1>7, ClosedSlots DEF UnderWay
  <2>. QED
    BY <1>7, <1>a, <2>1 DEF PendingIsUnderWay, InFlight, UnderWay
<1>8. ASSUME NEW t \in Thread, ThreadLaunch(t) PROVE PendingIsUnderWay'
  <2>1. thread[t].to \in Server
    BY <1>8 DEF ThreadLaunch, ThreadsOK
  <2>2. /\ Slots(phase) /\ pending' = pending \cup {thread[t].to}
        /\ \E d \in Conn : phase'[d] = "connecting" /\ target'[d] = thread[t].to
    BY <1>8, <2>1, LaunchSlots DEF ThreadLaunch
  <2>. QED
    BY <1>a, <2>2, PendingKeeps
<1>9. ASSUME ClientException PROVE PendingIsUnderWay'
  <2>1. Slots(phase) /\ UNCHANGED pending
    BY <1>9, GivenUpSlots DEF ClientException, GivenUp
  <2>. QED
    BY <1>a, <2>1, PendingKeeps
<1>10. ASSUME \/ ClientGone
              \/ \E t \in Thread : Asks(t) \/ ThreadDropServer(t)
              \/ UNCHANGED vars
       PROVE  PendingIsUnderWay'
  BY <1>7, <1>10 DEF ClientGone, Asks, ThreadConnect, ThreadSendData, ThreadDisconnect,
     ThreadQueue, ThreadDropServer, vars
<1>. QED
  BY <1>1, <1>2, <1>3, <1>4, <1>5, <1>6, <1>8, <1>9, <1>10, Steps DEF Joined

-----------------------------------------------------------------------------
\* dimensionChange.

\* What most steps leave alone of an open client and its server.
SameServer ==
  /\ UNCHANGED <<server, joining, up>> /\ (dim => dim')
  /\ server # NoConn => obsolete'[server] = obsolete[server]
                        /\ (phase'[server] = "free" => phase[server] = "free")

LEMMA NextFatal ==
  ASSUME TypeOK, Joined, ThreadsOK, JoinInv, NewIsFatal, LostServerIsFatal, [Next]_vars
  PROVE  NewIsFatal' /\ LostServerIsFatal'
<1>. DEFINE Goal == NewIsFatal' /\ LostServerIsFatal'
<1>. /\ phase \in [Conn -> Phases] /\ obsolete \in [Conn -> BOOLEAN]
     /\ pending \in SUBSET Server /\ server \in Conn \cup {NoConn}
  BY DEF TypeOK
<1>1. ASSUME SameServer PROVE Goal
  BY <1>1 DEF SameServer, NewIsFatal, LostServerIsFatal, LoopFree
<1>2. ASSUME up' \in {"closed", "gone"} PROVE Goal
  BY <1>2 DEF NewIsFatal, LostServerIsFatal
<1>3. ASSUME up' # "open", UNCHANGED <<up, dim>> PROVE Goal
  BY <1>3 DEF NewIsFatal, LostServerIsFatal
<1>4. ASSUME NEW ph, NEW ob, NEW pend, GivenUp(ph, ob, pend), UNCHANGED dim PROVE Goal
  <2>1. up' = "closed" \/ (up' # "open" /\ UNCHANGED up)
    BY <1>4 DEF GivenUp, Disconnect, IsActive
  <2>. QED
    BY <1>2, <1>3, <1>4, <2>1
<1>5. ASSUME NEW s \in Server, Join(s) PROVE Goal
  BY <1>5 DEF Join, NewIsFatal, LostServerIsFatal
<1>6. ASSUME NEW c \in Conn, Advance(c) PROVE Goal
  <2>1. SameServer
    BY <1>6 DEF Advance, TcpConnected, LoginSuccess, SameServer
  <2>. QED
    BY <1>1, <2>1
<1>7. ASSUME NEW c \in Conn, AttemptEnds(c) PROVE Goal
  <2>1. PICK p \in {"free", "dropped"}, pend \in {pending, pending \ {target[c]}} :
          \/ Started([phase EXCEPT ![c] = p], obsolete, pend) /\ UNCHANGED up
          \/ GivenUp([phase EXCEPT ![c] = p], obsolete, pend)
    BY <1>7 DEF AttemptEnds
  <2>. DEFINE ph == [phase EXCEPT ![c] = p]
  <2>2. ph \in [Conn -> Phases] /\ pend \in SUBSET Server
    BY DEF Phases
  <2>3. c # server /\ UNCHANGED <<server, joining, dim>>
    BY <1>7, ConnAssumption DEF AttemptEnds, Joined, ServerJoined
  <2>4. ASSUME Started(ph, obsolete, pend), UNCHANGED up PROVE SameServer
    <3>1. server # NoConn => ph[server] = phase[server]
      BY <2>3
    <3>. HIDE DEF ph
    <3>. QED
      BY <2>2, <2>3, <2>4, <3>1, StartedSlots DEF SameServer
  <2>. QED
    BY <1>1, <1>4, <2>1, <2>3, <2>4
<1>8. ASSUME NEW c \in Conn, BridgeEnds(c) PROVE Goal
  <2>1. PICK p \in {"closing", "free"} :
          LET ph == [phase EXCEPT ![c] = p]
              lost == [obsolete EXCEPT ![c] = TRUE] IN
          \/ obsolete[c] /\ Unmoved(ph)
          \/ dim' = TRUE
          \/ \E ob \in {obsolete, lost} : GivenUp(ph, ob, pending) /\ UNCHANGED dim
    BY <1>8 DEF BridgeEnds
  <2>2. CASE obsolete[c] /\ Unmoved([phase EXCEPT ![c] = p])
    BY <1>8, <2>2 DEF BridgeEnds, Unmoved, NoLaunch, NewIsFatal, LostServerIsFatal, LoopFree
  <2>3. CASE dim' = TRUE
    BY <2>3 DEF NewIsFatal, LostServerIsFatal
  <2>. QED
    BY <1>4, <2>1, <2>2, <2>3
<1>9. ASSUME NEW c \in Conn, LoginBegin(c) PROVE Goal
  <2>1. /\ UNCHANGED up /\ (dim => dim')
        /\ joining' = c \/ up # "open"
    BY <1>9 DEF LoginBegin, IsActive
  <2>2. c # NoConn
    BY ConnAssumption
  <2>. QED
    BY <2>1, <2>2 DEF NewIsFatal, LostServerIsFatal, LoopFree
<1>10. ASSUME NEW c \in Conn, LoginEnd(c) PROVE Goal
  <2>1. up # "new" /\ UNCHANGED up /\ c # NoConn
    BY <1>10, ConnAssumption DEF LoginEnd, JoinInv
  <2>2. server' = c /\ ~obsolete'[c] /\ phase'[c] = "bridge"
    BY <1>10 DEF LoginEnd
  <2>. QED
    BY <2>1, <2>2 DEF NewIsFatal, LostServerIsFatal
<1>11. ASSUME ClientGone PROVE Goal
  BY <1>2, <1>11 DEF ClientGone
<1>12. ASSUME ClientException PROVE Goal
  BY <1>4, <1>12 DEF ClientException, GivenUp
<1>13. ASSUME NEW t \in Thread, Asks(t) PROVE Goal
  <2>1. SameServer \/ up' = "closed"
    BY <1>13 DEF Asks, ThreadConnect, ThreadSendData, ThreadDisconnect, ThreadQueue, SameServer
  <2>. QED
    BY <1>1, <1>2, <2>1
<1>14. ASSUME NEW t \in Thread, ThreadLaunch(t) PROVE Goal
  <2>1. thread[t].to \in Server
    BY <1>14 DEF ThreadLaunch, ThreadsOK
  <2>2. SameServer
    BY <1>14, <2>1, LaunchSlots DEF ThreadLaunch, SameServer
  <2>. QED
    BY <1>1, <2>2
<1>15. ASSUME NEW t \in Thread, ThreadDropServer(t) PROVE Goal
  BY <1>2, <1>15 DEF ThreadDropServer, ThreadsOK
<1>16. ASSUME UNCHANGED vars PROVE Goal
  BY <1>1, <1>16 DEF vars, SameServer
<1>. QED
  BY <1>5, <1>6, <1>7, <1>8, <1>9, <1>10, <1>11, <1>12, <1>13, <1>14, <1>15, <1>16, Steps
     DEF Joined

-----------------------------------------------------------------------------
\* The packet queues.

LEMMA NextPackets ==
  ASSUME TypeOK, Joined, ThreadsOK, JoinInv, JoinDrained, PacketsLeave, [Next]_vars
  PROVE  JoinDrained' /\ PacketsLeave'
<1>. DEFINE Goal == JoinDrained' /\ PacketsLeave'
<1>. /\ players \in [Server -> Nat] /\ packets \subseteq Server
     /\ joining \in Conn \cup {NoConn} /\ phase \in [Conn -> Phases]
  BY DEF TypeOK
<1>1. ASSUME UNCHANGED <<packets, overtaken, players, joining>>,
             joining # NoConn => target'[joining] = target[joining]
      PROVE  Goal
  BY <1>1 DEF JoinDrained, PacketsLeave
<1>2. ASSUME NEW s \in Server, Join(s) PROVE Goal
  <2>1. joining = NoConn
    BY <1>2 DEF Join, JoinInv
  <2>. QED
    BY <1>1, <1>2, <2>1 DEF Join, dataVars
<1>3. ASSUME NEW c \in Conn, Advance(c) \/ AttemptEnds(c) PROVE Goal
  BY <1>1, <1>3 DEF Advance, TcpConnected, LoginSuccess, AttemptEnds, LoopFree, dataVars
<1>4. ASSUME NEW c \in Conn, BridgeEnds(c) PROVE Goal
  <2>1. joining' = NoConn /\ UNCHANGED <<packets, overtaken>>
    BY <1>4 DEF BridgeEnds, LoopFree, dataVars
  <2>2. \A s \in Server : players'[s] > 0 => players[s] > 0
    BY <1>4 DEF BridgeEnds
  <2>. QED
    BY <2>1, <2>2 DEF JoinDrained, PacketsLeave
<1>5. ASSUME NEW c \in Conn, LoginBegin(c) PROVE Goal
  BY <1>5 DEF LoginBegin, LoopFree, JoinDrained, PacketsLeave
<1>6. ASSUME NEW c \in Conn, LoginEnd(c) PROVE Goal
  <2>1. /\ players' = [players EXCEPT ![target[c]] = @ + 1]
        /\ joining' = NoConn /\ UNCHANGED <<packets, overtaken>>
        /\ target[c] \in packets => target[c] \in overtaken
    BY <1>6, ConnAssumption DEF LoginEnd, JoinDrained, dataVars
  <2>. QED
    BY <2>1 DEF JoinDrained, PacketsLeave
<1>7. ASSUME ClientGone \/ ClientException PROVE Goal
  BY <1>1, <1>7 DEF ClientGone, ClientException, LoopFree, dataVars
<1>8. ASSUME NEW t \in Thread, ThreadQueue(t) PROVE Goal
  BY <1>8 DEF ThreadQueue, Drained, JoinDrained, PacketsLeave
<1>9. ASSUME NEW t \in Thread, Asks(t), ~ThreadQueue(t) PROVE Goal
  BY <1>1, <1>9 DEF Asks, ThreadConnect, ThreadSendData, ThreadDisconnect, dataVars
<1>10. ASSUME NEW t \in Thread, ThreadLaunch(t) PROVE Goal
  <2>1. thread[t].to \in Server
    BY <1>10 DEF ThreadLaunch, ThreadsOK
  <2>2. Slots(phase)
    BY <1>10, <2>1, LaunchSlots DEF ThreadLaunch, TypeOK
  <2>3. joining # NoConn => target'[joining] = target[joining]
    BY <2>2 DEF Slots, JoinInv
  <2>. QED
    BY <1>1, <1>10, <2>3 DEF ThreadLaunch, dataVars
<1>11. ASSUME (\E t \in Thread : ThreadDropServer(t)) \/ UNCHANGED vars PROVE Goal
  BY <1>1, <1>11 DEF ThreadDropServer, vars, dataVars
<1>. QED
  BY <1>2, <1>3, <1>4, <1>5, <1>6, <1>7, <1>8, <1>9, <1>10, <1>11, Steps DEF Joined

-----------------------------------------------------------------------------
LEMMA InitInv == Init => IInv
<1>. SUFFICES ASSUME Init PROVE IInv
  OBVIOUS
<1>1. TypeOK
  BY ServerAssumption DEF Init, Idle, Phases, TypeOK
<1>2. Targets /\ ThreadsOK /\ JoinInv /\ ServerJoined /\ JoinDrained /\ NewIsFatal
  BY DEF Init, Idle, Targets, ThreadsOK, JoinInv, ServerJoined, JoinDrained, NewIsFatal
<1>3. OneLiveServer /\ PendingIsUnderWay /\ LostServerIsFatal /\ PacketsLeave
  BY DEF Init, OneLiveServer, PendingIsUnderWay, LostServerIsFatal, PacketsLeave
<1>4. PlayersMatchBridges
  <2>1. \A s \in Server : {c \in Conn : HasBridge(c) /\ target[c] = s} = {}
    BY DEF Init, HasBridge
  <2>. QED
    BY <2>1, FS_EmptySet DEF Init, PlayersMatchBridges
<1>. QED
  BY <1>1, <1>2, <1>3, <1>4 DEF IInv

LEMMA NextInv == IInv /\ [Next]_vars => IInv'
  BY NextJoined, NextJoin, NextThreads, NextPlayers, NextTypes, NextPending, NextFatal,
     NextPackets DEF IInv, Joined

LEMMA Inductive == Spec => []IInv
  BY InitInv, NextInv, PTL DEF Spec

\* Every variable keeps its type; a count in the player lists is
\* never negative (BungeeServerInfo.removePlayer comes after addPlayer).
THEOREM TypeCorrect == Spec => []TypeOK
  BY Inductive, PTL DEF IInv

\* The client never hears two backends (handle(Login) closes the old server
\* before the new one is served).
THEOREM OneBackend == Spec => []OneLiveServer
  BY Inductive, PTL DEF IInv

\* The lists of players are those of the connections that joined, whatever the
\* order in which old connections close (addPlayer, removePlayer).
THEOREM PlayersAreThere == Spec => []PlayersMatchBridges
  BY Inductive, PTL DEF IInv

\* No server stays in pendingConnects without an attempt.
THEOREM NothingStaysPending == Spec => []PendingIsUnderWay
  BY Inductive, PTL DEF IInv

\* Who has lost its server is disconnected by the next failure of an attempt.
THEOREM LossIsFatal == Spec => []LostServerIsFatal
  BY Inductive, PTL DEF IInv

\* What sendData queues is drained by the next Login, unless it came after it.
THEOREM PacketsAreDrained == Spec => []PacketsLeave
  BY Inductive, PTL DEF IInv

\* A client that is gone is never joined to a backend (handle(Login) asks
\* isActive, and the event loop handles nothing else before it ends).
THEOREM GoneIsGone == Spec => GoneUserNeverJoins
<1>1. IInv /\ [Next]_vars =>
        [up = "gone" => \A c \in Conn : phase[c] # "bridge" => phase'[c] # "bridge"]_vars
  <2>. SUFFICES ASSUME IInv, [Next]_vars, up = "gone", NEW c \in Conn, phase[c] # "bridge"
                PROVE  phase'[c] # "bridge"
    OBVIOUS
  <2>1. TypeOK /\ Joined /\ ThreadsOK /\ JoinInv
    BY DEF IInv, Joined
  <2>2. \A d \in Conn : ~LoginEnd(d)
    BY <2>1, UpGoesOn
  <2>3. PICK ph \in [Conn -> Phases] : Mild(ph) /\ Slots(ph)
    BY <2>1, <2>2, StepSlots, TameIsMild, LostIsMild
  <2>. QED
    BY <2>3 DEF Mild, Slots
<1>. QED
  BY <1>1, Inductive, PTL DEF Spec, GoneUserNeverJoins

-----------------------------------------------------------------------------
\* Who is open has a server, or is getting one.

\* Plugins leave connects and redirects alone, no backend closes before the user
\* joined, and no Kick calls the client outdated: these are not answered.
Answered ==
  /\ PluginActs \cap {"cancelConnect", "retarget", "redirectKick"} = {}
  /\ BackendActs \cap {"kickOutdated", "closeEarly"} = {}

\* Nothing has begun before the first connect.
Untouched ==
  up = "new" =>
    /\ server = NoConn /\ \A c \in Conn : phase[c] = "free"
    /\ \A t \in Thread : thread[t].act # "connect"

Live == server # NoConn /\ phase[server] = "bridge" /\ ~obsolete[server]

\* Before the first server: an attempt is under way, and no failed one lies about.
Waiting ==
  /\ server = NoConn /\ \E c \in Conn : InFlight(c)
  /\ \A c \in Conn : phase[c] # "dropped"

Held == up = "open" => Live \/ joining # NoConn \/ Waiting

\* What is left of that when an attempt ended unanswered.
Parked == server = NoConn /\ \A c \in Conn : phase[c] # "dropped"
Standing == up = "open" => Live \/ joining # NoConn \/ Parked

LEMMA NextUntouched ==
  ASSUME IInv, Untouched, [Next]_vars PROVE Untouched'
<1>. TypeOK /\ Joined /\ ThreadsOK /\ JoinInv
  BY DEF IInv, Joined
<1>1. SUFFICES ASSUME up = "new", up' = "new"
               PROVE  /\ server' = NoConn /\ \A c \in Conn : phase'[c] = "free"
                      /\ \A t \in Thread : thread'[t].act # "connect"
  BY UpGoesOn DEF Untouched
<1>2. /\ server = NoConn /\ \A c \in Conn : phase[c] = "free"
      /\ \A t \in Thread : thread[t].act \notin {"connect", "disconnect"}
  BY <1>1 DEF Untouched, ThreadsOK
<1>3. \A s \in Server : ~Join(s)
  BY <1>1 DEF Join
<1>4. ASSUME NEW c \in Conn
      PROVE  ~(Advance(c) \/ AttemptEnds(c) \/ BridgeEnds(c) \/ LoginBegin(c) \/ LoginEnd(c))
  BY <1>1, <1>2, ConnAssumption
     DEF Advance, TcpConnected, LoginSuccess, AttemptEnds, BridgeEnds, HasBridge, LoginBegin,
         LoginEnd, JoinInv
<1>5. ~ClientGone /\ ~ClientException
  BY <1>1 DEF ClientGone, ClientException, IsActive
<1>6. ASSUME NEW t \in Thread PROVE ~ThreadLaunch(t) /\ ~ThreadDropServer(t)
  BY <1>2 DEF ThreadLaunch, ThreadDropServer
<1>7. ASSUME NEW t \in Thread, Asks(t)
      PROVE  /\ UNCHANGED <<server, phase>>
             /\ \E a \in {"idle", "sendData"} : \E s :
                  thread' = [thread EXCEPT ![t] = [act |-> a, to |-> s]]
  BY <1>1, <1>7 DEF Asks, ThreadConnect, ThreadSendData, ThreadDisconnect, ThreadQueue,
                    IsActive, Idle
<1>8. UNCHANGED vars \/ \E t \in Thread : Asks(t)
  BY <1>3, <1>4, <1>5, <1>6, Steps DEF Joined
<1>. QED
  BY <1>2, <1>7, <1>8 DEF vars, TypeOK

\* A connect that plugins leave alone starts the attempt, or another one to the
\* same server is under way.
LEMMA ConnectAnswers ==
  ASSUME Answered, NEW s \in Server, NEW again, NEW ph, NEW ob, NEW pend,
         Connect(s, again, ph, ob, pend)
  PROVE  \/ Refused(s, pend) /\ NoLaunch(ph, ob)
         \/ Launch(s, again, ph, ob)
<1>1. ConnectEvent(s) = {s} /\ s # NoServer
  BY ServerAssumption DEF Answered, ConnectEvent
<1>. QED
  BY <1>1 DEF Connect

\* What a connect makes of a client that waits.
LEMMA WaitingConnect ==
  ASSUME Answered, TypeOK, Waiting, PendingIsUnderWay, NEW c \in Conn,
         NEW s \in Server, NEW again \in BOOLEAN, UNCHANGED server,
         Connect(s, again, [phase EXCEPT ![c] = "free"], obsolete, pending \ {target[c]})
  PROVE  Waiting'
<1>. DEFINE ph == [phase EXCEPT ![c] = "free"]
<1>1. ph \in [Conn -> Phases] /\ obsolete \in [Conn -> BOOLEAN]
  BY DEF TypeOK, Phases
<1>2. \A d \in Conn : ph[d] # "dropped"
  BY DEF Waiting
<1>3. CASE Refused(s, pending \ {target[c]}) /\ NoLaunch(ph, obsolete)
  <2>1. s \in pending /\ s # target[c]
    BY <1>3, ServerAssumption DEF Refused, ServerTarget, Waiting
  <2>2. PICK d \in Conn : target[d] = s /\ InFlight(d)
    BY <2>1 DEF PendingIsUnderWay, Waiting
  <2>3. phase'[d] = phase[d]
    BY <1>3, <2>1, <2>2 DEF NoLaunch, TypeOK
  <2>. QED
    BY <1>2, <1>3, <2>2, <2>3 DEF NoLaunch, Waiting, InFlight
<1>4. CASE Launch(s, again, ph, obsolete)
  <2>1. Slots(ph) /\ \E d \in Conn : phase'[d] = "connecting"
    <3>. HIDE DEF ph
    <3>. QED
      BY <1>1, <1>4, LaunchSlots
  <2>. QED
    BY <1>2, <2>1 DEF Waiting, InFlight, Slots
<1>. QED
  BY <1>3, <1>4, ConnectAnswers

\* A failed attempt of a client that waits is answered by the next attempt, or by
\* a disconnect.
LEMMA WaitingAnswered ==
  ASSUME Answered, IInv, up = "open", Waiting, NEW c \in Conn,
         \/ TcpRefused(c) \/ TcpMoved(c) \/ ConnectorKick(c) \/ ConnectorException(c)
         \/ ConnectorOutdated(c) \/ ConnectorClosed(c)
  PROVE  up' # "open" \/ Waiting'
<1>. TypeOK /\ Targets /\ PendingIsUnderWay
  BY DEF IInv
<1>1. dim /\ IsActive /\ server = NoConn
  BY DEF IInv, LostServerIsFatal, Waiting, IsActive, TcpRefused, TcpMoved, ConnectorKick,
         ConnectorException, ConnectorOutdated, ConnectorClosed
<1>2. ASSUME NEW ph, NEW ob, Disconnect(ph, ob) PROVE up' # "open"
  BY <1>1, <1>2 DEF Disconnect
<1>. DEFINE def == NextServer(target[c])
<1>3. def \in Server \cup {NoServer}
  BY NextServerType
<1>4. CASE TcpRefused(c)
  <2>1. CASE /\ def # NoServer
             /\ Connect(def, TRUE, [phase EXCEPT ![c] = "free"], obsolete,
                        pending \ {target[c]})
    <3>. HIDE DEF def
    <3>. QED
      BY <1>3, <1>4, <2>1, WaitingConnect DEF TcpRefused
  <2>2. CASE Disconnect([phase EXCEPT ![c] = "free"], obsolete)
    BY <1>2, <2>2
  <2>. QED
    BY <1>1, <1>4, <2>1, <2>2 DEF TcpRefused
<1>5. CASE TcpMoved(c)
  <2>1. target[c] \in Server
    BY <1>5 DEF TcpMoved, Targets
  <2>. QED
    BY <1>5, <2>1, WaitingConnect DEF TcpMoved
<1>6. CASE ConnectorKick(c)
  <2>1. KickEvent(target[c], def, FALSE) = {NoServer}
    BY DEF Answered, KickEvent
  <2>2. {"kick", "kickOutdated"} \cap BackendActs \subseteq {"kick"}
    BY DEF Answered
  <2>3. Disconnect([phase EXCEPT ![c] = "dropped"], obsolete)
    <3>. HIDE DEF def
    <3>1. PICK kick \in {"kick"} :
            \E to \in KickEvent(target[c], def, kick = "kickOutdated" /\ def # NoServer) :
              to = NoServer => Disconnect([phase EXCEPT ![c] = "dropped"], obsolete)
      BY <1>1, <1>6, <2>2 DEF ConnectorKick, def
    <3>. QED
      BY <2>1, <3>1
  <2>. QED
    BY <1>2, <2>3
<1>7. CASE ConnectorException(c)
  BY <1>1, <1>2, <1>7 DEF ConnectorException
<1>8. CASE ConnectorOutdated(c)
  BY <1>2, <1>8 DEF ConnectorOutdated
<1>9. ~ConnectorClosed(c)
  BY DEF ConnectorClosed, Answered, Waiting
<1>. QED
  BY <1>4, <1>5, <1>6, <1>7, <1>8, <1>9

\* The loss of the server of an open client ends in a disconnect.
LEMMA LossAnswered ==
  ASSUME Answered, up = "open", NEW c \in Conn, ~obsolete[c],
         BridgeException(c) \/ BridgeClosed(c) \/ BridgeKick(c)
  PROVE  up' # "open"
<1>1. ASSUME NEW ph, NEW ob, Lost(c, ph, ob) PROVE up' # "open"
  <2>1. KickEvent(target[c], NextServer(target[c]), FALSE) = {NoServer}
    BY DEF Answered, KickEvent
  <2>2. Disconnect(ph, ob)
    BY <1>1, <2>1 DEF Lost
  <2>. QED
    BY <2>2 DEF Disconnect, IsActive
<1>. QED
  BY <1>1 DEF BridgeException, BridgeClosed, BridgeKick

LEMMA NextHeld ==
  ASSUME Answered, IInv, Untouched, Held, [Next]_vars, \A c \in Conn : ~TcpUnresolved(c)
  PROVE  Held'
<1>. TypeOK /\ Joined /\ ThreadsOK /\ JoinInv
  BY DEF IInv, Joined
<1>. /\ phase \in [Conn -> Phases] /\ obsolete \in [Conn -> BOOLEAN]
     /\ pending \in SUBSET Server
  BY DEF TypeOK
<1>1. ASSUME up' # "open" PROVE Held'
  BY <1>1 DEF Held
<1>2. ASSUME NEW s \in Server, Join(s) PROVE Held'
  <2>1. server = NoConn /\ \A d \in Conn : phase[d] = "free"
    BY <1>2 DEF Join, Untouched
  <2>2. pending = {}
    BY <2>1 DEF IInv, PendingIsUnderWay, InFlight
  <2>3. ~Refused(s, pending)
    BY <2>1, <2>2, ServerAssumption DEF Refused, ServerTarget
  <2>4. Launch(s, TRUE, phase, obsolete)
    BY <1>2, <2>3, ConnectAnswers DEF Join
  <2>5. Slots(phase) /\ \E d \in Conn : phase'[d] = "connecting"
    BY <2>4, LaunchSlots
  <2>6. Waiting'
    BY <1>2, <2>1, <2>5 DEF Join, Waiting, InFlight, Slots
  <2>. QED
    BY <2>6 DEF Held
<1>3. ASSUME NEW c \in Conn, Advance(c) PROVE Held'
  <2>1. PICK p \in {"login", "game"} :
          /\ phase' = [phase EXCEPT ![c] = p] /\ phase[c] \in {"connecting", "login"}
          /\ UNCHANGED <<up, server, obsolete, joining>>
    BY <1>3 DEF Advance, TcpConnected, LoginSuccess
  <2>2. Live => Live'
    BY <2>1 DEF Live, TypeOK
  <2>3. Waiting => Waiting'
    BY <2>1 DEF Waiting, InFlight
  <2>. QED
    BY <2>1, <2>2, <2>3 DEF Held
<1>4. ASSUME NEW c \in Conn,
             \/ TcpRefused(c) \/ TcpMoved(c) \/ ConnectorKick(c) \/ ConnectorException(c)
             \/ ConnectorOutdated(c) \/ ConnectorClosed(c),
             up' = "open"
      PROVE  Held'
  <2>1. AttemptEnds(c)
    BY <1>4, AttemptSteps DEF Joined
  <2>2. PICK p \in {"free", "dropped"}, pend \in {pending, pending \ {target[c]}} :
          \/ Started([phase EXCEPT ![c] = p], obsolete, pend) /\ UNCHANGED up
          \/ GivenUp([phase EXCEPT ![c] = p], obsolete, pend)
    BY <2>1 DEF AttemptEnds
  <2>. DEFINE ph == [phase EXCEPT ![c] = p]
  <2>3. ph \in [Conn -> Phases] /\ pend \in SUBSET Server
    BY DEF Phases
  <2>4. Started(ph, obsolete, pend) /\ UNCHANGED up
    <3>. HIDE DEF ph
    <3>1. \/ Started(ph, obsolete, pend) /\ UNCHANGED up
          \/ GivenUp(ph, obsolete, pend)
      BY <2>2 DEF ph
    <3>. QED
      BY <1>4, <2>3, <3>1, GivenUpSlots
  <2>5. CASE Live
    <3>1. ph[server] = "bridge" /\ server' = server /\ server # NoConn
      BY <2>1, <2>5 DEF AttemptEnds, Live, TypeOK
    <3>2. Live'
      <4>. HIDE DEF ph
      <4>. QED
        BY <2>3, <2>4, <2>5, <3>1, StartedSlots DEF Live
    <3>. QED
      BY <3>2 DEF Held
  <2>6. CASE Waiting
    BY <1>4, <2>4, <2>6, WaitingAnswered DEF Held
  <2>. QED
    BY <1>4, <2>1, <2>4, <2>5, <2>6 DEF Held, AttemptEnds, LoopFree
<1>5. ASSUME NEW c \in Conn, BridgeException(c) \/ BridgeClosed(c) \/ BridgeKick(c),
             up' = "open"
      PROVE  Held'
  <2>1. BridgeEnds(c)
    BY <1>5, BridgeSteps
  <2>2. up = "open" /\ LoopFree
    <3>1. up # "open" => up' # "open"
      BY <2>1 DEF BridgeEnds, Unmoved, GivenUp, Disconnect, IsActive
    <3>. QED
      BY <1>5, <2>1, <3>1 DEF BridgeEnds
  <2>3. obsolete[c]
    BY <1>5, <2>2, LossAnswered
  <2>4. PICK p \in {"closing", "free"} :
          /\ phase' = [phase EXCEPT ![c] = p]
          /\ UNCHANGED <<up, server, obsolete>>
    BY <2>1, <2>3 DEF BridgeEnds, Unmoved, NoLaunch
  <2>5. HasBridge(c)
    BY <2>1 DEF BridgeEnds
  <2>6. Live => Live'
    BY <2>3, <2>4 DEF Live, TypeOK
  <2>7. Waiting => Waiting'
    BY <2>4, <2>5 DEF Waiting, InFlight, HasBridge
  <2>. QED
    BY <2>2, <2>6, <2>7 DEF Held, LoopFree
<1>6. ASSUME NEW c \in Conn, LoginBegin(c) PROVE Held'
  BY <1>6, ConnAssumption DEF LoginBegin, IsActive, Held
<1>7. ASSUME NEW c \in Conn, LoginEnd(c) PROVE Held'
  <2>1. Live'
    BY <1>7, ConnAssumption DEF LoginEnd, Live
  <2>. QED
    BY <2>1 DEF Held
<1>8. ASSUME ClientGone \/ ClientException PROVE Held'
  BY <1>1, <1>8 DEF ClientGone, ClientException, Disconnect, IsActive
<1>9. ASSUME UNCHANGED <<server, phase, obsolete, joining>>,
             UNCHANGED up \/ up' = "closed"
      PROVE  Held'
  BY <1>9 DEF Held, Live, Waiting, InFlight
<1>10. ASSUME NEW t \in Thread, Asks(t) PROVE Held'
  BY <1>9, <1>10 DEF Asks, ThreadConnect, ThreadSendData, ThreadDisconnect, ThreadQueue
<1>11. ASSUME NEW t \in Thread, ThreadLaunch(t) PROVE Held'
  <2>1. thread[t].to \in Server
    BY <1>11 DEF ThreadLaunch, ThreadsOK
  <2>2. /\ Slots(phase) /\ UNCHANGED <<up, server, joining>>
        /\ server # NoConn => obsolete'[server] = obsolete[server]
                              /\ phase'[server] = phase[server]
    BY <1>11, <2>1, LaunchSlots DEF ThreadLaunch
  <2>3. Live => Live'
    BY <2>2 DEF Live
  <2>4. Waiting => Waiting'
    BY <2>2 DEF Waiting, InFlight, Slots
  <2>. QED
    BY <2>2, <2>3, <2>4 DEF Held
<1>12. ASSUME NEW t \in Thread, ThreadDropServer(t) PROVE Held'
  <2>1. up' # "open"
    BY <1>12 DEF ThreadDropServer, ThreadsOK
  <2>. QED
    BY <1>1, <2>1
<1>13. ASSUME UNCHANGED vars PROVE Held'
  BY <1>9, <1>13 DEF vars
<1>. QED
  BY <1>1, <1>2, <1>3, <1>4, <1>5, <1>6, <1>7, <1>8, <1>10, <1>11, <1>12, <1>13
     DEF Next, Attempt, Connector, Bridge, ThreadStep, Advance, Asks

\* Of a client that is not stranded, Standing says as much as Held.
LEMMA StandingHeld == ASSUME Standing, ~Stranded PROVE Held
  BY DEF Standing, Held, Parked, Waiting, Stranded, Live

LEMMA HeldStands == ASSUME IInv, Held PROVE Standing /\ ~Stranded
  BY DEF Standing, Held, Parked, Waiting, Stranded, Live, IInv, TypeOK, JoinInv, InFlight

\* An attempt that ends unanswered leaves the rest as it is, ...
LEMMA UnresolvedStands ==
  ASSUME IInv, Standing, NEW c \in Conn, TcpUnresolved(c) PROVE Standing'
<1>1. Live => Live'
  BY DEF TcpUnresolved, Live, IInv, TypeOK
<1>2. Parked => Parked'
  BY DEF TcpUnresolved, Parked, IInv, TypeOK
<1>. QED
  BY <1>1, <1>2 DEF TcpUnresolved, Standing, LoopFree

\* ... and so does whatever happens to a client that is stranded.
LEMMA StrandedStands ==
  ASSUME IInv, Standing, Stranded, [Next]_vars PROVE Parked'
<1>. TypeOK /\ Joined /\ ThreadsOK /\ JoinInv
  BY DEF IInv, Joined
<1>1. Parked /\ joining = NoConn
  BY DEF Stranded, Standing, Live, JoinInv, InFlight, TypeOK
<1>2. \A c \in Conn : phase[c] \notin {"connecting", "login", "game", "dropped"}
  BY <1>1 DEF Stranded, Parked, InFlight
<1>3. \A c \in Conn : ~LoginEnd(c)
  BY <1>1, ConnAssumption DEF LoginEnd
<1>4. PICK ph \in [Conn -> Phases] :
        /\ server' = server /\ Slots(ph)
        /\ Tame(ph) \/ \E c \in Conn : BridgeLost(c, ph)
  BY <1>3, StepSlots
<1>5. \A d \in Conn : ph[d] # "dropped"
  BY <1>1, <1>2, <1>4 DEF Tame, BridgeLost, Parked, TypeOK
<1>. QED
  BY <1>1, <1>4, <1>5 DEF Parked, Slots

\* What strands an open client is an attempt whose address cannot be compared, and
\* nothing else, whatever the backends refuse, kick, break off or let time out in
\* whatever order (TcpRefused's fallback, handle(Kick), exception and disconnected
\* each answer).
THEOREM NobodyStranded ==
  ASSUME Answered PROVE Spec => NeverStranded
<1>1. Init => Untouched /\ Standing
  BY DEF Init, Idle, Untouched, Standing
<1>2. ASSUME IInv, Untouched, Standing, [Next]_vars
      PROVE  /\ Untouched' /\ Standing'
             /\ Stranded' => Stranded \/ \E c \in Conn : TcpUnresolved(c)
  <2>1. Untouched' /\ IInv'
    BY <1>2, NextUntouched, NextInv
  <2>2. CASE \E c \in Conn : TcpUnresolved(c)
    BY <1>2, <2>1, <2>2, UnresolvedStands
  <2>3. CASE Stranded
    BY <1>2, <2>1, <2>3, StrandedStands DEF Standing
  <2>4. CASE ~Stranded /\ \A c \in Conn : ~TcpUnresolved(c)
    <3>1. Held'
      BY <1>2, <2>4, StandingHeld, NextHeld
    <3>2. Standing' /\ ~Stranded'
      BY <2>1, <3>1, HeldStands, PTL
    <3>. QED
      BY <2>1, <3>2
  <2>. QED
    BY <2>2, <2>3, <2>4
<1>. QED
  BY <1>1, <1>2, Inductive, PTL DEF Spec, NeverStranded

\* No backend serves a client that is gone: whatever order the client's channel, a
\* plugin's disconnect and a Login end in, what it had is closing (disconnected).
GoneUnserved == up = "gone" => \A c \in Conn : phase[c] # "bridge"

\* What NoLeak needs of safety: the connections that outlive the client are the
\* ones that their own closing, or the end of an attempt, will free.
THEOREM GoneIsUnserved == Spec => []GoneUnserved
<1>1. Init => GoneUnserved
  BY DEF Init, GoneUnserved
<1>2. IInv /\ GoneUnserved /\ [Next]_vars
        /\ [up = "gone" => \A c \in Conn : phase[c] # "bridge" => phase'[c] # "bridge"]_vars
      => GoneUnserved'
  <2>. SUFFICES ASSUME IInv, GoneUnserved, [Next]_vars, up' = "gone",
                       [up = "gone" => \A c \in Conn :
                           phase[c] # "bridge" => phase'[c] # "bridge"]_vars,
                       NEW c \in Conn
                PROVE  phase'[c] # "bridge"
    BY DEF GoneUnserved
  <2>1. up = "gone" \/ ClientGone
    BY UpGoesOn DEF IInv, Joined
  <2>2. CASE up = "gone"
    BY <2>2 DEF GoneUnserved, vars
  <2>3. CASE ClientGone
    <3>1. phase' = ServerClosed(phase) /\ phase \in [Conn -> Phases] /\ TypeOK
      BY <2>3 DEF ClientGone, IInv, TypeOK
    <3>. QED
      BY <3>1, ClosedSlots, ConnAssumption DEF IInv, OneLiveServer
  <2>. QED
    BY <2>1, <2>2, <2>3
<1>. QED
  BY <1>1, <1>2, Inductive, GoneIsGone, PTL DEF Spec, GoneUserNeverJoins
=============================================================================
