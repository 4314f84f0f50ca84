----------------------------- MODULE LoginProofs -----------------------------
(***************************************************************************)
(* Login for any number of clients, names and session-server answers: one  *)
(* callback at a time drives a login, a client that is being kicked never  *)
(* gets into the game, an online user has been authenticated, and removing *)
(* a user from the registry leaves the others in it.                       *)
(*                                                                         *)
(* The inductive invariant says in which state a callback of each kind can *)
(* be outstanding, what is known of the client by then, that whoever holds *)
(* its name in the registry holds its UUID too, and that a client whose    *)
(* Runnable has begun has not been reported lost.                          *)
(***************************************************************************)
EXTENDS Login, FiniteSetTheorems, TLAPS

\* Two callbacks of one login are never outstanding together.
OneKind ==
  \A c \in Client : \A j, k \in LoginKinds :
    /\ tasks[c][k] <= 1
    /\ tasks[c][j] > 0 /\ tasks[c][k] > 0 => j = k

\* The state the client is in while a callback is outstanding.
Place ==
  \A c \in Client :
    /\ tasks[c]["preLogin"] > 0 => st[c] = "USERNAME" /\ processing[c]
    /\ tasks[c]["preTail"] > 0 => st[c] \in {"ENCRYPT", "FINISHING"} /\ processing[c]
    /\ \A k \in {"auth", "login", "run", "join"} : tasks[c][k] > 0 => st[c] = "FINISHING"

\* What is known of the client by then.
Past(c) == st[c] = "GAME" \/ tasks[c]["login"] > 0 \/ tasks[c]["run"] > 0
           \/ tasks[c]["join"] > 0
Named ==
  \A c \in Client :
    /\ tasks[c]["preLogin"] > 0 \/ st[c] \in {"ENCRYPT", "FINISHING", "GAME"} => name[c] \in Name
    /\ Past(c) => uid[c] = <<online[c], name[c]>> /\ (online[c] => profile[c])

\* The name map lists users in the game, each with its UUID.
Listed ==
  /\ \A k \in Folded : byName[k] # None =>
       /\ st[byName[k]] = "GAME" /\ chan[byName[k]] # "gone"
       /\ Fold[name[byName[k]]] = k
  /\ \A c \in Client : st[c] = "GAME" /\ byName[Fold[name[c]]] = c => byUUID[uid[c]] = c

\* The event loop is busy with the Runnable: channelInactive is to come.
LoopBusy == \A c \in Client : tasks[c]["join"] > 0 => chan[c] # "gone"

IInv == TypeOK /\ OneKind /\ Place /\ Named /\ Listed /\ LoopBusy

-----------------------------------------------------------------------------
\* What taking up and handing in a callback does to the counts.
LEMMA TookEffect ==
  ASSUME TypeOK, NEW c \in Client, NEW k \in Kinds, NEW next \in Kinds \cup {Nothing},
         next # k, Took(c, k, next)
  PROVE  /\ tasks[c][k] > 0 /\ tasks' \in [Client -> [Kinds -> Nat]]
         /\ \A d \in Client \ {c} : tasks'[d] = tasks[d]
         /\ \A j \in Kinds : tasks'[c][j] = IF j = next THEN tasks[c][j] + 1
                                            ELSE IF j = k THEN tasks[c][j] - 1 ELSE tasks[c][j]
<1>. DEFINE row == [j \in Kinds |-> tasks[c][j] + (IF j = next THEN 1 ELSE 0)
                                                - (IF j = k THEN 1 ELSE 0)]
<1>1. tasks[c] \in [Kinds -> Nat] /\ tasks[c][k] > 0 /\ tasks' = [tasks EXCEPT ![c] = row]
  BY DEF TypeOK, Took, Waiting
<1>2. \A j \in Kinds : row[j] = IF j = next THEN tasks[c][j] + 1
                                ELSE IF j = k THEN tasks[c][j] - 1 ELSE tasks[c][j]
  BY <1>1
<1>3. row \in [Kinds -> Nat]
  BY <1>1, <1>2
<1>. HIDE DEF row
<1>. QED
  BY <1>1, <1>2, <1>3 DEF TypeOK

LEMMA SubmitEffect ==
  ASSUME TypeOK, NEW c \in Client, NEW k \in Kinds, Submit(c, k)
  PROVE  /\ tasks' \in [Client -> [Kinds -> Nat]]
         /\ \A d \in Client \ {c} : tasks'[d] = tasks[d]
         /\ \A j \in Kinds : tasks'[c][j] = IF j = k THEN tasks[c][j] + 1 ELSE tasks[c][j]
BY DEF TypeOK, Submit

\* Each step is of one client: the others' channels and logins are untouched.
Step(c) ==
  Accept(c) \/ Packet(c) \/ Callback(c) \/ Fault(c) \/ DelayedClose(c) \/ Inactive(c)

Untouched(d) ==
  /\ st'[d] = st[d] /\ chan'[d] = chan[d] /\ processing'[d] = processing[d]
  /\ name'[d] = name[d] /\ uid'[d] = uid[d] /\ online'[d] = online[d]
  /\ profile'[d] = profile[d] /\ tasks'[d] = tasks[d]

\* How a step moves the callbacks of its client.
TasksMoved(c) ==
  \/ UNCHANGED tasks
  \/ LegacyPing(c) /\ Submit(c, "legacy")
  \/ StatusRequest(c) /\ Submit(c, "status")
  \/ LoginRequest(c) /\ Submit(c, "preLogin")
  \/ EncryptionResponse(c) /\ Submit(c, "auth")
  \/ \E k \in Kinds : Took(c, k, Nothing)
  \/ PreLoginDone(c) /\ Took(c, "preLogin", "preTail") /\ st'[c] = "ENCRYPT"
  \/ PreLoginDone(c) /\ Took(c, "preLogin", "login") /\ st'[c] = "FINISHING"
  \/ AuthDone(c) /\ Took(c, "auth", "login")
  \/ LoginDone(c) /\ Took(c, "login", "run")
  \/ Run(c) /\ Took(c, "run", "join")

LEMMA StepMoves ==
  ASSUME TypeOK, NEW c \in Client, Step(c)
  PROVE  TasksMoved(c)
<1>. USE DEF TasksMoved
<1>1. CASE Accept(c) \/ Fault(c) \/ DelayedClose(c) \/ Inactive(c)
  BY <1>1 DEF Accept, Fault, DelayedClose, Inactive
<1>2. CASE Packet(c)
  BY <1>2 DEF Packet, Handshake, LegacyHandshake, LegacyPing, StatusRequest, Ping,
       LoginRequest, EncryptionInvalid, EncryptionRefused, EncryptionResponse
<1>3. ASSUME NEW n, NEW m, NEW k \in Kinds, Finish(c, n, m, k)
      PROVE  Took(c, k, Nothing) \/ Took(c, k, "login")
  BY <1>3 DEF Finish
<1>4. CASE PreLoginDone(c)
  <2>1. PICK m \in Modes :
          \/ /\ m /\ Took(c, "preLogin", "preTail")
             /\ st' = [st EXCEPT ![c] = "ENCRYPT"]
          \/ /\ ~m /\ Finish(c, name[c], m, "preLogin")
             /\ st' = [st EXCEPT ![c] = "FINISHING"]
    BY <1>4 DEF PreLoginDone
  <2>2. "preLogin" \in Kinds
    BY DEF Kinds
  <2>. QED
    BY <1>3, <1>4, <2>1, <2>2 DEF TypeOK
<1>5. CASE AuthDone(c)
  <2>1. "auth" \in Kinds
    BY DEF Kinds
  <2>. QED
    BY <1>3, <1>5, <2>1 DEF AuthDone
<1>6. CASE Callback(c) /\ ~PreLoginDone(c) /\ ~AuthDone(c)
  BY <1>6 DEF Kinds, Callback, LegacyDone, StatusDone, PreLoginCancelled, PreLoginLate,
       PreLoginTail, AuthFailed, LoginCancelled, LoginDone, Run, Join
<1>. QED
  BY <1>1, <1>2, <1>4, <1>5, <1>6 DEF Step

LEMMA TasksEffect ==
  ASSUME TypeOK, NEW c \in Client, TasksMoved(c)
  PROVE  /\ tasks' \in [Client -> [Kinds -> Nat]]
         /\ \A d \in Client \ {c} : tasks'[d] = tasks[d]
<1>1. CASE UNCHANGED tasks
  BY <1>1 DEF TypeOK
<1>2. ASSUME NEW k \in Kinds, Submit(c, k)
      PROVE  /\ tasks' \in [Client -> [Kinds -> Nat]]
             /\ \A d \in Client \ {c} : tasks'[d] = tasks[d]
  BY <1>2, SubmitEffect
<1>3. ASSUME NEW k \in Kinds, NEW next \in Kinds \cup {Nothing}, next # k, Took(c, k, next)
      PROVE  /\ tasks' \in [Client -> [Kinds -> Nat]]
             /\ \A d \in Client \ {c} : tasks'[d] = tasks[d]
  BY <1>3, TookEffect
<1>. QED
  BY <1>1, <1>2, <1>3 DEF TasksMoved, Kinds, Nothing

\* How a step moves the rest of its client: the channel, the state, the flag.
LEMMA ChanEffect ==
  ASSUME NEW c \in Client, Step(c)
  PROVE  \/ chan' = chan
         \/ \E s : Disconnect(c, s)
         \/ Close(c)
         \/ \E x \in {"open", "gone"} : chan' = [chan EXCEPT ![c] = x]
  BY DEF Finish, Step, Accept, Packet, Callback, Fault, DelayedClose, Inactive,
       Handshake, LegacyHandshake, LegacyPing, StatusRequest, Ping, LoginRequest,
       EncryptionInvalid, EncryptionRefused, EncryptionResponse, LegacyDone, StatusDone,
       PreLoginCancelled, PreLoginLate, PreLoginDone, PreLoginTail, AuthFailed, AuthDone,
       LoginCancelled, LoginDone, Run, Join

LEMMA StateEffect ==
  ASSUME NEW c \in Client, Step(c)
  PROVE  \E s \in States : st' \in {st, [st EXCEPT ![c] = s]}
  BY DEF States, Step, Accept, Packet, Callback, Fault, DelayedClose, Inactive,
       Handshake, LegacyHandshake, LegacyPing, StatusRequest, Ping, LoginRequest,
       EncryptionInvalid, EncryptionRefused, EncryptionResponse, LegacyDone, StatusDone,
       PreLoginCancelled, PreLoginLate, PreLoginDone, PreLoginTail, AuthFailed, AuthDone,
       LoginCancelled, LoginDone, Run, Join

LEMMA ProcessingEffect ==
  ASSUME NEW c \in Client, Step(c)
  PROVE  \E b \in BOOLEAN : processing' \in {processing, [processing EXCEPT ![c] = b]}
  BY DEF Step, Accept, Packet, Callback, Fault, DelayedClose, Inactive,
       Handshake, LegacyHandshake, LegacyPing, StatusRequest, Ping, LoginRequest,
       EncryptionInvalid, EncryptionRefused, EncryptionResponse, LegacyDone, StatusDone,
       PreLoginCancelled, PreLoginLate, PreLoginDone, PreLoginTail, AuthFailed, AuthDone,
       LoginCancelled, LoginDone, Run, Join

\* Four steps write who the client is.
LEMMA IdentityEffect ==
  ASSUME NEW c \in Client, Step(c), ~UNCHANGED identity
  PROVE  Accept(c) \/ LoginRequest(c) \/ PreLoginDone(c) \/ AuthDone(c)
  BY DEF identity, Step, Accept, Packet, Callback, Fault, DelayedClose, Inactive,
       Handshake, LegacyHandshake, LegacyPing, StatusRequest, Ping, LoginRequest,
       EncryptionInvalid, EncryptionRefused, EncryptionResponse, LegacyDone, StatusDone,
       PreLoginCancelled, PreLoginLate, PreLoginDone, PreLoginTail, AuthFailed, AuthDone,
       LoginCancelled, LoginDone, Run, Join

LEMMA OthersUntouched ==
  ASSUME TypeOK, NEW c \in Client, Step(c), NEW d \in Client \ {c}
  PROVE  Untouched(d)
<1>1. tasks'[d] = tasks[d]
  BY StepMoves, TasksEffect
<1>2. st'[d] = st[d] /\ processing'[d] = processing[d]
  BY StateEffect, ProcessingEffect DEF TypeOK
<1>3. chan'[d] = chan[d]
  BY ChanEffect DEF TypeOK, Disconnect, Close
<1>4. name'[d] = name[d] /\ uid'[d] = uid[d] /\ online'[d] = online[d] /\ profile'[d] = profile[d]
  <2>1. CASE UNCHANGED identity
    BY <2>1 DEF identity
  <2>2. CASE Accept(c)
    BY <2>2 DEF Accept, TypeOK
  <2>3. CASE LoginRequest(c)
    BY <2>3 DEF LoginRequest, TypeOK
  <2>4. CASE PreLoginDone(c)
    BY <2>4 DEF PreLoginDone, Finish, TypeOK
  <2>5. CASE AuthDone(c)
    BY <2>5 DEF AuthDone, Finish, TypeOK
  <2>. QED
    BY <2>1, <2>2, <2>3, <2>4, <2>5, IdentityEffect
<1>. QED
  BY <1>1, <1>2, <1>3, <1>4 DEF Untouched

-----------------------------------------------------------------------------
\* A login callback that runs is the only one: none is left but its successor.
LEMMA OnlyOne ==
  ASSUME TypeOK, OneKind, NEW c \in Client, NEW k \in LoginKinds,
         NEW next \in LoginKinds \cup {Nothing}, next # k, Took(c, k, next)
  PROVE  /\ tasks[c][k] > 0
         /\ \A j \in LoginKinds : tasks'[c][j] = IF j = next THEN 1 ELSE 0
         /\ \A j \in LoginKinds : tasks[c][j] > 0 => j = k
<1>1. k \in Kinds /\ next \in Kinds \cup {Nothing} /\ LoginKinds \subseteq Kinds
  BY DEF LoginKinds, Kinds
<1>2. /\ tasks[c][k] > 0
      /\ \A j \in LoginKinds : tasks'[c][j] = IF j = next THEN tasks[c][j] + 1
                                              ELSE IF j = k THEN tasks[c][j] - 1 ELSE tasks[c][j]
  BY <1>1, TookEffect
<1>3. \A j \in LoginKinds : tasks[c][j] \in Nat
  BY <1>1 DEF TypeOK
<1>4. tasks[c][k] = 1 /\ \A j \in LoginKinds \ {k} : tasks[c][j] = 0
  BY <1>2, <1>3 DEF OneKind
<1>. QED
  BY <1>2, <1>4

\* A ping that is answered leaves the login callbacks alone.
LEMMA PingAnswered ==
  ASSUME TypeOK, NEW c \in Client, NEW k \in {"legacy", "status"}, Took(c, k, Nothing)
  PROVE  \A j \in LoginKinds : tasks'[c][j] = tasks[c][j]
<1>1. k \in Kinds /\ LoginKinds \subseteq Kinds \ {k} /\ Nothing \notin Kinds
  BY DEF LoginKinds, Kinds, Nothing
<1>n. Nothing # k /\ Nothing \in Kinds \cup {Nothing}
  BY <1>1
<1>2. \A j \in Kinds : tasks'[c][j] = IF j = Nothing THEN tasks[c][j] + 1
                                     ELSE IF j = k THEN tasks[c][j] - 1 ELSE tasks[c][j]
  BY <1>1, <1>n, TookEffect
<1>3. \A j \in LoginKinds : j \in Kinds /\ j # Nothing /\ j # k
  BY <1>1
<1>. QED
  BY <1>2, <1>3

\* The same for the client of the step, kind by kind: the login callbacks it has
\* outstanding afterwards.
LEMMA OneKindInductive ==
  ASSUME TypeOK, OneKind, Place, NEW c \in Client, Step(c)
  PROVE  OneKind'
<1>. USE DEF LoginKinds, Kinds, Nothing
<1>1. ASSUME NEW d \in Client \ {c}
      PROVE  tasks'[d] = tasks[d]
  BY OthersUntouched DEF Untouched
<1>2. \A j, k \in LoginKinds :
        tasks'[c][k] <= 1 /\ (tasks'[c][j] > 0 /\ tasks'[c][k] > 0 => j = k)
  <2>1. CASE UNCHANGED tasks
    BY <2>1 DEF OneKind
  <2>2. CASE \E k \in {"legacy", "status"} : Submit(c, k)
    BY <2>2, SubmitEffect DEF OneKind
  <2>3. CASE \E k \in LoginKinds : Took(c, k, Nothing)
    BY <2>3, OnlyOne
  <2>7. CASE \E k \in {"legacy", "status"} : Took(c, k, Nothing)
    BY <2>7, PingAnswered DEF OneKind
  <2>4. CASE LoginRequest(c) /\ Submit(c, "preLogin")
    <3>1. \A k \in LoginKinds : tasks[c][k] = 0
      BY <2>4 DEF TypeOK, LoginRequest, Expect, Place
    <3>. QED
      BY <2>4, <3>1, SubmitEffect
  <2>5. CASE EncryptionResponse(c) /\ Submit(c, "auth")
    <3>1. \A k \in LoginKinds : tasks[c][k] = 0
      BY <2>5 DEF TypeOK, EncryptionResponse, Expect, Place
    <3>. QED
      BY <2>5, <3>1, SubmitEffect
  <2>6. ASSUME NEW k \in LoginKinds, NEW next \in LoginKinds, next # k, Took(c, k, next)
        PROVE  \A i, j \in LoginKinds :
                 tasks'[c][j] <= 1 /\ (tasks'[c][i] > 0 /\ tasks'[c][j] > 0 => i = j)
    BY <2>6, OnlyOne
  <2>. QED
    BY <2>1, <2>2, <2>3, <2>4, <2>5, <2>6, <2>7, StepMoves DEF TasksMoved
<1>. QED
  BY <1>1, <1>2 DEF OneKind

LEMMA PlaceInductive ==
  ASSUME TypeOK, OneKind, Place, NEW c \in Client, Step(c)
  PROVE  Place'
<1>. DEFINE PlaceOf ==
       /\ tasks[c]["preLogin"] > 0 => st[c] = "USERNAME" /\ processing[c]
       /\ tasks[c]["preTail"] > 0 => st[c] \in {"ENCRYPT", "FINISHING"} /\ processing[c]
       /\ \A k \in {"auth", "login", "run", "join"} : tasks[c][k] > 0 => st[c] = "FINISHING"
<1>. USE DEF LoginKinds, Kinds, Nothing
<1>0. PlaceOf
  BY DEF Place
<1>t. /\ st \in [Client -> States] /\ processing \in [Client -> BOOLEAN]
      /\ tasks \in [Client -> [Kinds -> Nat]]
  BY DEF TypeOK
<1>1. ASSUME Accept(c)
      PROVE  PlaceOf'
  BY <1>1, <1>t DEF Accept
<1>2. ASSUME Fault(c) \/ DelayedClose(c) \/ Inactive(c) \/ LegacyHandshake(c) \/ EncryptionInvalid(c)
      PROVE  PlaceOf'
  BY <1>0, <1>2 DEF Fault, DelayedClose, Inactive, LegacyHandshake, EncryptionInvalid
<1>3. ASSUME Handshake(c) \/ Ping(c)
      PROVE  PlaceOf'
  <2>1. tasks' = tasks /\ \A k \in LoginKinds : tasks[c][k] = 0
    BY <1>0, <1>3, <1>t DEF Handshake, Ping, Expect
  <2>. QED
    BY <2>1
<1>4. ASSUME LegacyPing(c) \/ StatusRequest(c)
      PROVE  PlaceOf'
  <2>1. \A k \in LoginKinds : tasks'[c][k] = 0
    BY <1>0, <1>4, <1>t, SubmitEffect DEF LegacyPing, StatusRequest, Expect
  <2>. QED
    BY <2>1
<1>5. ASSUME LoginRequest(c)
      PROVE  PlaceOf'
  <2>1. \A k \in LoginKinds : tasks[c][k] = 0
    BY <1>0, <1>5, <1>t DEF LoginRequest, Expect
  <2>2. \A k \in LoginKinds \ {"preLogin"} : tasks'[c][k] = 0
    BY <1>5, <2>1, SubmitEffect DEF LoginRequest
  <2>3. st'[c] = "USERNAME" /\ processing'[c]
    BY <1>5, <1>t DEF LoginRequest, Expect
  <2>. QED
    BY <2>2, <2>3
<1>6. ASSUME EncryptionRefused(c)
      PROVE  PlaceOf'
  BY <1>0, <1>6, <1>t DEF EncryptionRefused
<1>7. ASSUME EncryptionResponse(c)
      PROVE  PlaceOf'
  <2>1. \A k \in LoginKinds : tasks[c][k] = 0
    BY <1>0, <1>7, <1>t DEF EncryptionResponse, Expect
  <2>2. \A k \in LoginKinds \ {"auth"} : tasks'[c][k] = 0
    BY <1>7, <2>1, SubmitEffect DEF EncryptionResponse
  <2>3. st'[c] = "FINISHING"
    BY <1>7, <1>t DEF EncryptionResponse
  <2>. QED
    BY <2>2, <2>3
<1>8. ASSUME LegacyDone(c) \/ StatusDone(c)
      PROVE  PlaceOf'
  <2>1. \A k \in LoginKinds : tasks'[c][k] = tasks[c][k]
    BY <1>8, PingAnswered DEF LegacyDone, StatusDone
  <2>. QED
    BY <1>0, <1>8, <2>1 DEF LegacyDone, StatusDone
<1>9. ASSUME NEW k \in LoginKinds, Took(c, k, Nothing)
      PROVE  PlaceOf'
  BY <1>9, OnlyOne
<1>10. ASSUME PreLoginDone(c) /\ Took(c, "preLogin", "preTail") /\ st'[c] = "ENCRYPT"
       PROVE  PlaceOf'
  <2>1. st' # [st EXCEPT ![c] = "FINISHING"] /\ tasks[c]["preLogin"] > 0
    BY <1>10, <1>t, OnlyOne
  <2>2. processing'[c]
    BY <1>0, <1>10, <2>1 DEF PreLoginDone
  <2>. QED
    BY <1>10, <2>2, OnlyOne
<1>11. ASSUME PreLoginDone(c) /\ Took(c, "preLogin", "login") /\ st'[c] = "FINISHING"
       PROVE  PlaceOf'
  BY <1>11, OnlyOne
<1>12. ASSUME AuthDone(c) /\ Took(c, "auth", "login")
       PROVE  PlaceOf'
  BY <1>0, <1>12, OnlyOne DEF AuthDone
<1>13. ASSUME LoginDone(c) /\ Took(c, "login", "run")
       PROVE  PlaceOf'
  BY <1>0, <1>13, OnlyOne DEF LoginDone
<1>r. ASSUME Run(c) /\ Took(c, "run", "join")
      PROVE  PlaceOf'
  BY <1>0, <1>r, OnlyOne DEF Run
<1>14. PlaceOf'
  <2>1. CASE Packet(c)
    BY <2>1, <1>2, <1>3, <1>4, <1>5, <1>6, <1>7 DEF Packet
  <2>2. CASE Callback(c) /\ ~LegacyDone(c) /\ ~StatusDone(c)
    <3>1. \/ \E k \in LoginKinds : Took(c, k, Nothing)
          \/ PreLoginDone(c) \/ AuthDone(c)
          \/ LoginDone(c) /\ Took(c, "login", "run")
          \/ Run(c) /\ Took(c, "run", "join")
      BY <2>2 DEF Callback, PreLoginCancelled, PreLoginLate,
           PreLoginTail, AuthFailed, LoginCancelled, LoginDone, Run, Join
    <3>2. AuthDone(c) => Took(c, "auth", Nothing) \/ Took(c, "auth", "login")
      BY DEF AuthDone, Finish
    <3>3. PreLoginDone(c) =>
            \/ Took(c, "preLogin", Nothing)
            \/ Took(c, "preLogin", "preTail") /\ st'[c] = "ENCRYPT"
            \/ Took(c, "preLogin", "login") /\ st'[c] = "FINISHING"
      BY <1>t DEF PreLoginDone, Finish
    <3>. QED
      BY <3>1, <3>2, <3>3, <1>9, <1>10, <1>11, <1>12, <1>13, <1>r
  <2>. QED
    BY <1>1, <1>2, <1>8, <2>1, <2>2 DEF Step, Callback
<1>15. ASSUME NEW d \in Client \ {c}
       PROVE  Untouched(d)
  BY OthersUntouched
<1>. QED
  BY <1>14, <1>15 DEF Place, Untouched

LEMMA NamedInductive ==
  ASSUME TypeOK, OneKind, Place, Named, NEW c \in Client, Step(c)
  PROVE  Named'
<1>. DEFINE NamedOf ==
       /\ tasks[c]["preLogin"] > 0 \/ st[c] \in {"ENCRYPT", "FINISHING", "GAME"} => name[c] \in Name
       /\ Past(c) => uid[c] = <<online[c], name[c]>> /\ (online[c] => profile[c])
<1>. USE NameAssumption DEF LoginKinds, Kinds, Nothing, Past
<1>0. NamedOf
  BY DEF Named
<1>p. /\ tasks[c]["preLogin"] > 0 => st[c] = "USERNAME" /\ processing[c]
      /\ \A k \in {"auth", "login", "run", "join"} : tasks[c][k] > 0 => st[c] = "FINISHING"
  BY DEF Place
<1>t. /\ st \in [Client -> States] /\ processing \in [Client -> BOOLEAN]
      /\ tasks \in [Client -> [Kinds -> Nat]]
      /\ DOMAIN name = Client /\ DOMAIN uid = Client /\ DOMAIN profile = Client
      /\ online \in [Client -> BOOLEAN] /\ profile \in [Client -> BOOLEAN]
  BY DEF TypeOK
<1>1. ASSUME Accept(c)
      PROVE  NamedOf'
  BY <1>1, <1>t DEF Accept
<1>2. ASSUME Fault(c) \/ DelayedClose(c) \/ Inactive(c) \/ LegacyHandshake(c) \/ EncryptionInvalid(c)
      PROVE  NamedOf'
  BY <1>0, <1>2 DEF Fault, DelayedClose, Inactive, LegacyHandshake, EncryptionInvalid, identity
<1>3. ASSUME Handshake(c) \/ Ping(c)
      PROVE  NamedOf'
  <2>1. tasks' = tasks /\ \A k \in LoginKinds : tasks[c][k] = 0
    BY <1>3, <1>t, <1>p DEF Handshake, Ping, Expect, Place
  <2>2. st'[c] \in {"HANDSHAKE", "STATUS", "PING", "USERNAME"}
    BY <1>3, <1>t DEF Handshake, Ping, Expect
  <2>. QED
    BY <2>1, <2>2
<1>4. ASSUME LegacyPing(c) \/ StatusRequest(c)
      PROVE  NamedOf'
  <2>1. \A k \in LoginKinds : tasks'[c][k] = 0
    BY <1>4, <1>p, <1>t, SubmitEffect DEF LegacyPing, StatusRequest, Expect, Place
  <2>2. st'[c] \in {"HANDSHAKE", "PING"}
    BY <1>4, <1>t DEF LegacyPing, StatusRequest, Expect
  <2>. QED
    BY <2>1, <2>2
<1>5. ASSUME LoginRequest(c)
      PROVE  NamedOf'
  <2>1. \A k \in LoginKinds : tasks[c][k] = 0
    BY <1>5, <1>p, <1>t DEF LoginRequest, Expect, Place
  <2>2. \A k \in LoginKinds \ {"preLogin"} : tasks'[c][k] = 0
    BY <1>5, <2>1, SubmitEffect DEF LoginRequest
  <2>3. st'[c] = "USERNAME" /\ name'[c] \in Name
    BY <1>5, <1>t DEF LoginRequest, Expect
  <2>. QED
    BY <2>2, <2>3
<1>6. ASSUME EncryptionRefused(c)
      PROVE  NamedOf'
  BY <1>0, <1>p, <1>6, <1>t DEF EncryptionRefused, identity
<1>7. ASSUME EncryptionResponse(c)
      PROVE  NamedOf'
  <2>1. \A k \in LoginKinds : tasks[c][k] = 0
    BY <1>7, <1>p, <1>t DEF EncryptionResponse, Expect, Place
  <2>2. \A k \in LoginKinds \ {"auth"} : tasks'[c][k] = 0
    BY <1>7, <2>1, SubmitEffect DEF EncryptionResponse
  <2>3. st'[c] = "FINISHING" /\ name'[c] \in Name
    BY <1>0, <1>7, <1>t DEF EncryptionResponse, Expect, identity
  <2>. QED
    BY <2>2, <2>3
<1>8. ASSUME LegacyDone(c) \/ StatusDone(c)
      PROVE  NamedOf'
  <2>1. \A k \in LoginKinds : tasks'[c][k] = tasks[c][k]
    BY <1>8, PingAnswered DEF LegacyDone, StatusDone
  <2>. QED
    BY <1>0, <1>8, <2>1 DEF LegacyDone, StatusDone, identity
<1>9. ASSUME PreLoginCancelled(c) \/ PreLoginLate(c) \/ PreLoginTail(c) \/ AuthFailed(c) \/ LoginCancelled(c)
      PROVE  NamedOf'
  <2>1. PICK k \in LoginKinds : Took(c, k, Nothing)
    BY <1>9 DEF PreLoginCancelled, PreLoginLate, PreLoginTail, AuthFailed, LoginCancelled
  <2>. QED
    BY <1>0, <1>9, <2>1, OnlyOne
       DEF PreLoginCancelled, PreLoginLate, PreLoginTail, AuthFailed, LoginCancelled, identity
<1>10. ASSUME PreLoginDone(c)
       PROVE  NamedOf'
  <2>1. PICK m \in Modes :
          /\ online' = [online EXCEPT ![c] = m]
          /\ \/ /\ m /\ Took(c, "preLogin", "preTail")
                /\ st' = [st EXCEPT ![c] = "ENCRYPT"]
             \/ /\ ~m /\ Finish(c, name[c], m, "preLogin")
                /\ st' = [st EXCEPT ![c] = "FINISHING"]
    BY <1>10 DEF PreLoginDone
  <2>2. name' = name /\ name[c] \in Name
    BY <1>0, <1>10 DEF PreLoginDone, Waiting
  <2>3. CASE m /\ Took(c, "preLogin", "preTail") /\ st' = [st EXCEPT ![c] = "ENCRYPT"]
    <3>1. \A k \in {"login", "run", "join"} : tasks'[c][k] = 0
      BY <2>3, OnlyOne
    <3>2. st'[c] = "ENCRYPT"
      BY <1>t, <2>3
    <3>. QED
      BY <2>2, <3>1, <3>2
  <2>4. CASE ~m /\ Finish(c, name[c], m, "preLogin") /\ st' = [st EXCEPT ![c] = "FINISHING"]
    <3>1. uid'[c] = <<m, name[c]>> /\ online'[c] = m
      BY <1>t, <2>1, <2>4 DEF Finish
    <3>. QED
      BY <2>2, <2>4, <3>1
  <2>. QED
    BY <2>1, <2>3, <2>4
<1>11. ASSUME AuthDone(c)
       PROVE  NamedOf'
  <2>1. st'[c] = "FINISHING" /\ name[c] \in Name
    BY <1>0, <1>p, <1>11 DEF AuthDone, Waiting
  <2>2. name'[c] = Canon[name[c]] /\ profile'[c] /\ online' = online
        /\ uid'[c] = <<online[c], Canon[name[c]]>>
    BY <1>t, <1>11 DEF AuthDone, Finish
  <2>. QED
    BY <2>1, <2>2
<1>12. ASSUME LoginDone(c)
       PROVE  NamedOf'
  <2>1. tasks[c]["login"] > 0
    BY <1>12 DEF LoginDone, Took, Waiting
  <2>. QED
    BY <1>0, <1>p, <1>12, <2>1 DEF LoginDone, identity
<1>13. ASSUME Run(c)
       PROVE  NamedOf'
  <2>1. tasks[c]["run"] > 0
    BY <1>13 DEF Run, Took, Waiting
  <2>. QED
    BY <1>0, <1>p, <1>13, <2>1 DEF Run, identity
<1>j. ASSUME Join(c)
      PROVE  NamedOf'
  <2>1. tasks[c]["join"] > 0
    BY <1>j DEF Join, Took, Waiting
  <2>. QED
    BY <1>0, <1>p, <1>j, <2>1 DEF Join, identity
<1>14. NamedOf'
  BY <1>1, <1>2, <1>3, <1>4, <1>5, <1>6, <1>7, <1>8, <1>9, <1>10, <1>11, <1>12, <1>13, <1>j
     DEF Step, Packet, Callback
<1>15. ASSUME NEW d \in Client \ {c}
       PROVE  Untouched(d)
  BY OthersUntouched
<1>. QED
  BY <1>14, <1>15 DEF Named, Untouched

-----------------------------------------------------------------------------
LEMMA PairIsUUID ==
  ASSUME NEW m \in BOOLEAN, NEW n \in Name
  PROVE  <<m, n>> \in UUID
BY DEF UUID

LEMMA PastIsNamed ==
  ASSUME TypeOK, Place, Named, NEW d \in Client, Past(d)
  PROVE  name[d] \in Name /\ uid[d] = <<online[d], name[d]>> /\ uid[d] \in UUID
<1>1. st[d] \in {"FINISHING", "GAME"}
  BY DEF Past, Place
<1>2. name[d] \in Name
  BY <1>1 DEF Named
<1>3. uid[d] = <<online[d], name[d]>>
  BY DEF Named
<1>4. online[d] \in BOOLEAN
  BY DEF TypeOK
<1>5. <<online[d], name[d]>> \in UUID
  BY <1>2, <1>4, PairIsUUID
<1>. QED
  BY <1>2, <1>3, <1>5

\* A user in the game stays in it, under the same name, until its slot is used
\* again: the only steps that can follow are those of its channel.
LEMMA GameStays ==
  ASSUME TypeOK, Place, NEW c \in Client, Step(c), st[c] = "GAME", chan[c] # "gone"
  PROVE  st'[c] = "GAME" /\ name'[c] = name[c] /\ uid'[c] = uid[c]
<1>. USE DEF LoginKinds, Kinds, Nothing
<1>1. \A k \in LoginKinds : tasks[c][k] = 0
  BY DEF TypeOK, Place
<1>2. ~Accept(c) /\ ~PreLoginDone(c) /\ ~AuthDone(c) /\ ~Join(c) /\ ~LoginRequest(c)
  BY <1>1 DEF Accept, PreLoginDone, AuthDone, Join, LoginRequest, Took, Waiting, Expect
<1>3. name' = name /\ uid' = uid
  BY <1>2 DEF Step, Packet, Callback, Fault, DelayedClose, Inactive, Handshake,
       LegacyHandshake, LegacyPing, StatusRequest, Ping, EncryptionInvalid, EncryptionRefused,
       EncryptionResponse, LegacyDone, StatusDone, PreLoginCancelled, PreLoginLate,
       PreLoginTail, AuthFailed, LoginCancelled, LoginDone, Run, identity
<1>4. st' = st
  BY <1>2 DEF Step, Packet, Callback, Fault, DelayedClose, Inactive, Handshake,
       LegacyHandshake, LegacyPing, StatusRequest, Ping, EncryptionInvalid, EncryptionRefused,
       EncryptionResponse, LegacyDone, StatusDone, PreLoginCancelled, PreLoginLate,
       PreLoginTail, AuthFailed, LoginCancelled, LoginDone, Run, Expect
<1>. QED
  BY <1>3, <1>4

\* Nobody gets into the game but by Join.
LEMMA GameByJoin ==
  ASSUME TypeOK, NEW c \in Client, Step(c), st[c] # "GAME", st'[c] = "GAME"
  PROVE  Join(c)
BY DEF TypeOK, Step, Accept, Packet, Callback, Fault, DelayedClose, Inactive,
       Handshake, LegacyHandshake, LegacyPing, StatusRequest, Ping, LoginRequest,
       EncryptionInvalid, EncryptionRefused, EncryptionResponse, LegacyDone, StatusDone,
       PreLoginCancelled, PreLoginLate, PreLoginDone, PreLoginTail, AuthFailed, AuthDone,
       LoginCancelled, LoginDone, Run, Join, IsClosing

\* The Runnable goes on to join only a client whose channel is open.
LEMMA JoinByRun ==
  ASSUME TypeOK, NEW c \in Client, Step(c), tasks[c]["join"] = 0, tasks'[c]["join"] > 0
  PROVE  Run(c) /\ chan[c] = "open"
<1>1. TasksMoved(c)
  BY StepMoves
<1>2. tasks[c] \in [Kinds -> Nat]
  BY DEF TypeOK
<1>3. ASSUME NEW k \in Kinds, NEW next \in Kinds \cup {Nothing}, next # k, next # "join",
             Took(c, k, next)
      PROVE  FALSE
  BY <1>2, <1>3, TookEffect DEF Kinds
<1>4. ASSUME NEW k \in Kinds, k # "join", Submit(c, k)
      PROVE  FALSE
  BY <1>4, SubmitEffect DEF Kinds
<1>5. Run(c)
  BY <1>1, <1>3, <1>4 DEF TasksMoved, Kinds, Nothing
<1>6. Took(c, "run", Nothing) => FALSE
  BY <1>3 DEF Kinds, Nothing
<1>. QED
  BY <1>5, <1>6 DEF Run, IsClosing

\* Only Join and Inactive change the registry.
LEMMA RegistryEffect ==
  ASSUME NEW c \in Client, Step(c), ~UNCHANGED registry
  PROVE  \/ Join(c) /\ AddConnection(c) /\ st' = [st EXCEPT ![c] = "GAME"]
         \/ Inactive(c) /\ st[c] = "GAME" /\ RemoveConnection(c)
BY DEF Step, Accept, Packet, Callback, Fault, DelayedClose, Inactive,
       Handshake, LegacyHandshake, LegacyPing, StatusRequest, Ping, LoginRequest,
       EncryptionInvalid, EncryptionRefused, EncryptionResponse, LegacyDone, StatusDone,
       PreLoginCancelled, PreLoginLate, PreLoginDone, PreLoginTail, AuthFailed, AuthDone,
       LoginCancelled, LoginDone, Run, Join, IsClosing

LEMMA ChanGone ==
  ASSUME TypeOK, NEW c \in Client, Step(c), chan[c] # "gone", chan'[c] = "gone"
  PROVE  Inactive(c)
<1>1. chan \in [Client -> Chans]
  BY DEF TypeOK
<1>2. ~(chan' = chan) /\ ~Close(c) /\ \A s : ~Disconnect(c, s)
  BY <1>1 DEF Chans, Close, Disconnect, Disconnected
<1>3. ~Accept(c)
  BY DEF Accept
<1>. QED
  BY <1>2, <1>3 DEF Finish, Step, Packet, Callback, Fault, DelayedClose, Inactive,
       Handshake, LegacyHandshake, LegacyPing, StatusRequest, Ping, LoginRequest,
       EncryptionInvalid, EncryptionRefused, EncryptionResponse, LegacyDone, StatusDone,
       PreLoginCancelled, PreLoginLate, PreLoginDone, PreLoginTail, AuthFailed, AuthDone,
       LoginCancelled, LoginDone, Run, Join

LEMMA LoopBusyInductive ==
  ASSUME TypeOK, LoopBusy, NEW c \in Client, Step(c)
  PROVE  LoopBusy'
<1>1. ASSUME NEW d \in Client, tasks'[d]["join"] > 0
      PROVE  chan'[d] # "gone"
  <2>1. CASE d # c
    BY <1>1, <2>1, OthersUntouched DEF Untouched, LoopBusy
  <2>2. CASE d = c /\ tasks[c]["join"] > 0
    <3>1. chan[c] # "gone" /\ ~Inactive(c)
      BY <2>2 DEF LoopBusy, Inactive, Joining, Waiting
    <3>. QED
      BY <2>2, <3>1, ChanGone
  <2>3. CASE d = c /\ ~(tasks[c]["join"] > 0)
    <3>1. tasks[c]["join"] = 0
      BY <2>3 DEF TypeOK, Kinds
    <3>2. Run(c) /\ chan[c] = "open"
      BY <1>1, <2>3, <3>1, JoinByRun
    <3>. QED
      BY <2>3, <3>2 DEF Run
  <2>. QED
    BY <2>1, <2>2, <2>3
<1>. QED
  BY <1>1 DEF LoopBusy

LEMMA ListedInductive ==
  ASSUME TypeOK, OneKind, Place, Named, Listed, LoopBusy, NEW c \in Client, Step(c)
  PROVE  Listed'
<1>. USE ClientAssumption, NameAssumption
<1>t. /\ st \in [Client -> States] /\ chan \in [Client -> Chans]
      /\ byName \in [Folded -> Client \cup {None}]
      /\ byUUID \in [UUID -> Client \cup {None}]
  BY DEF TypeOK
<1>u. \A d \in Client \ {c} : Untouched(d)
  BY OthersUntouched
<1>n. \A d \in Client : st[d] = "GAME" => name[d] \in Name /\ uid[d] = <<online[d], name[d]>>
                                          /\ uid[d] \in UUID
  BY PastIsNamed DEF Past
<1>1. CASE UNCHANGED registry
  <2>1. CASE st[c] = "GAME" /\ chan[c] # "gone" /\ chan'[c] # "gone"
    BY <1>1, <1>t, <1>u, <2>1, GameStays DEF Listed, Untouched, registry
  <2>2. CASE \A k \in Folded : byName[k] # c
    <3>1. \A d \in Client \ {c} : st'[d] = st[d] /\ chan'[d] = chan[d] /\ name'[d] = name[d]
                                  /\ uid'[d] = uid[d]
      BY <1>u DEF Untouched
    <3>2. st'[c] = "GAME" => name'[c] \in Name
      BY NamedInductive DEF Named
    <3>3. \A k \in Folded : byName'[k] # c
      BY <1>1, <2>2 DEF registry
    <3>4. st'[c] = "GAME" => byName'[Fold[name'[c]]] # c
      BY <3>2, <3>3
    <3>. QED
      BY <1>1, <1>t, <1>n, <2>2, <3>1, <3>4 DEF Listed, registry
  <2>3. CASE \E k \in Folded : byName[k] = c
    <3>1. st[c] = "GAME" /\ chan[c] # "gone" /\ byName[Fold[name[c]]] = c
      BY <2>3 DEF Listed
    <3>2. CASE chan'[c] = "gone"
      <4>1. Inactive(c)
        BY <3>1, <3>2, ChanGone
      <4>2. byName' # byName
        BY <1>n, <1>t, <3>1, <4>1 DEF Inactive, RemoveConnection
      <4>. QED
        BY <1>1, <4>2 DEF registry
    <3>. QED
      BY <2>1, <3>1, <3>2
  <2>. QED
    BY <2>2, <2>3
<1>2. CASE Join(c) /\ AddConnection(c) /\ st' = [st EXCEPT ![c] = "GAME"]
  <2>1. name' = name /\ uid' = uid /\ chan' = chan /\ chan[c] # "gone"
    BY <1>2 DEF Join, Took, Waiting, LoopBusy, identity
  <2>2. name[c] \in Name /\ uid[c] = <<online[c], name[c]>> /\ uid[c] \in UUID
    BY <1>2, PastIsNamed DEF Past, Join, Took, Waiting
  <2>3. ASSUME NEW d \in Client, st'[d] = "GAME", byName'[Fold[name[d]]] = d
        PROVE  byUUID'[uid[d]] = d
    <3>1. CASE d = c
      BY <1>2, <1>t, <2>2, <3>1 DEF AddConnection
    <3>2. CASE d # c
      <4>1. st[d] = "GAME" /\ Fold[name[d]] # Fold[name[c]]
        BY <1>2, <1>t, <1>n, <2>2, <2>3, <3>2 DEF AddConnection
      <4>2. uid[d] # uid[c] /\ byName[Fold[name[d]]] = d
        BY <1>2, <1>t, <1>n, <2>2, <2>3, <3>2, <4>1 DEF AddConnection
      <4>. QED
        BY <1>2, <1>t, <1>n, <2>2, <4>1, <4>2 DEF AddConnection, Listed
    <3>. QED
      BY <3>1, <3>2
  <2>4. ASSUME NEW k \in Folded, byName'[k] # None
        PROVE  st'[byName'[k]] = "GAME" /\ chan[byName'[k]] # "gone" /\ Fold[name[byName'[k]]] = k
    BY <1>2, <1>t, <2>1, <2>2, <2>4 DEF AddConnection, Listed
  <2>. QED
    BY <2>1, <2>3, <2>4 DEF Listed
<1>3. CASE Inactive(c) /\ st[c] = "GAME" /\ RemoveConnection(c)
  <2>1. st' = st /\ name' = name /\ uid' = uid /\ \A d \in Client \ {c} : chan'[d] = chan[d]
    BY <1>3, <1>t DEF Inactive, identity
  <2>2. name[c] \in Name /\ uid[c] = <<online[c], name[c]>> /\ uid[c] \in UUID
    BY <1>3, <1>n
  <2>3. \A k \in Folded : byName'[k] \in {byName[k], None} /\ byName'[k] # c
    BY <1>3, <1>t, <2>2 DEF RemoveConnection, Listed, registry
  <2>4. ASSUME NEW d \in Client, st[d] = "GAME", byName'[Fold[name[d]]] = d
        PROVE  byUUID'[uid[d]] = d
    <3>1. d # c /\ byName[Fold[name[d]]] = d /\ byUUID[uid[d]] = d
      BY <1>n, <2>3, <2>4 DEF Listed
    <3>2. byName[Fold[name[c]]] = c => uid[d] # uid[c]
      BY <1>n, <2>2, <2>4, <3>1
    <3>. QED
      BY <1>3, <1>t, <1>n, <2>2, <2>4, <3>1, <3>2 DEF RemoveConnection, registry
  <2>. QED
    BY <1>t, <2>1, <2>3, <2>4 DEF Listed
<1>. QED
  BY <1>1, <1>2, <1>3, RegistryEffect

-----------------------------------------------------------------------------
LEMMA TypeInductive ==
  ASSUME TypeOK, OneKind, Place, Named, NEW c \in Client, Step(c)
  PROVE  TypeOK'
<1>. USE NameAssumption, ModesAssumption
<1>1. tasks' \in [Client -> [Kinds -> Nat]]
  BY StepMoves, TasksEffect
<1>2. chan' \in [Client -> Chans]
  <2>1. chan \in [Client -> Chans] /\ \A s : Disconnected(chan[c], s) \in Chans
    BY DEF TypeOK, Chans, Disconnected
  <2>. QED
    BY <2>1, ChanEffect DEF Disconnect, Close, Chans
<1>3. st' \in [Client -> States] /\ processing' \in [Client -> BOOLEAN]
  <2>1. PICK s \in States : st' \in {st, [st EXCEPT ![c] = s]}
    BY StateEffect
  <2>2. st' \in [Client -> States]
    BY <2>1 DEF TypeOK
  <2>3. PICK b \in BOOLEAN : processing' \in {processing, [processing EXCEPT ![c] = b]}
    BY ProcessingEffect
  <2>4. processing' \in [Client -> BOOLEAN]
    BY <2>3 DEF TypeOK
  <2>. QED
    BY <2>2, <2>4
<1>4. online' \in [Client -> BOOLEAN] /\ profile' \in [Client -> BOOLEAN]
  <2>1. online \in [Client -> BOOLEAN] /\ profile \in [Client -> BOOLEAN]
    BY DEF TypeOK
  <2>2. CASE UNCHANGED identity
    BY <2>1, <2>2 DEF identity
  <2>3. CASE Accept(c)
    BY <2>1, <2>3 DEF Accept
  <2>4. CASE LoginRequest(c)
    BY <2>1, <2>4 DEF LoginRequest
  <2>5. CASE PreLoginDone(c)
    BY <2>1, <2>5 DEF PreLoginDone
  <2>6. CASE AuthDone(c)
    BY <2>1, <2>6 DEF AuthDone
  <2>. QED
    BY <2>2, <2>3, <2>4, <2>5, <2>6, IdentityEffect
<1>5. name' \in [Client -> {None} \cup Name] /\ uid' \in [Client -> {None} \cup UUID]
  <2>1. CASE AuthDone(c)
    <3>1. name[c] \in Name
      BY <2>1 DEF AuthDone, Waiting, Place, Named
    <3>2. <<online[c], Canon[name[c]]>> \in UUID
      BY <3>1, PairIsUUID DEF TypeOK
    <3>. QED
      BY <2>1, <3>1, <3>2 DEF AuthDone, Finish, TypeOK
  <2>2. CASE PreLoginDone(c)
    <3>1. name[c] \in Name
      BY <2>2 DEF PreLoginDone, Waiting, Named
    <3>2. \A m \in Modes : <<m, name[c]>> \in UUID
      BY <3>1, PairIsUUID
    <3>3. uid' = uid \/ \E m \in Modes : uid' = [uid EXCEPT ![c] = <<m, name[c]>>]
      BY <2>2 DEF PreLoginDone, Finish
    <3>4. name' = name
      BY <2>2 DEF PreLoginDone
    <3>. QED
      BY <3>2, <3>3, <3>4 DEF TypeOK
  <2>3. CASE Accept(c)
    BY <2>3 DEF Accept, TypeOK
  <2>4. CASE LoginRequest(c)
    BY <2>4 DEF LoginRequest, TypeOK
  <2>5. CASE UNCHANGED identity
    BY <2>5 DEF identity, TypeOK
  <2>. QED
    BY <2>1, <2>2, <2>3, <2>4, <2>5, IdentityEffect
<1>6. byName' \in [Folded -> Client \cup {None}] /\ byUUID' \in [UUID -> Client \cup {None}]
  <2>1. CASE UNCHANGED registry
    BY <2>1 DEF TypeOK, registry
  <2>2. CASE Join(c) /\ AddConnection(c)
    BY <2>2, PastIsNamed DEF TypeOK, AddConnection, Join, Took, Waiting, Past
  <2>3. CASE st[c] = "GAME" /\ RemoveConnection(c)
    BY <2>3, PastIsNamed DEF TypeOK, RemoveConnection, Past, registry
  <2>. QED
    BY <2>1, <2>2, <2>3, RegistryEffect
<1>. QED
  BY <1>1, <1>2, <1>3, <1>4, <1>5, <1>6 DEF TypeOK

-----------------------------------------------------------------------------
LEMMA InitIInv == Init => IInv
<1>. SUFFICES ASSUME Init PROVE IInv
  OBVIOUS
<1>. USE ModesAssumption DEF Init
<1>1. TypeOK
  BY DEF TypeOK, States, Chans
<1>2. OneKind /\ Place
  BY DEF OneKind, Place, LoginKinds, Kinds
<1>3. Named
  BY DEF Named, Past, Kinds
<1>4. Listed /\ LoopBusy
  BY DEF Listed, LoopBusy, Kinds
<1>. QED
  BY <1>1, <1>2, <1>3, <1>4 DEF IInv

LEMMA NextIInv == IInv /\ [Next]_vars => IInv'
<1>. SUFFICES ASSUME IInv, [Next]_vars PROVE IInv'
  OBVIOUS
<1>1. ASSUME NEW c \in Client, Step(c) PROVE IInv'
  BY <1>1, TypeInductive, OneKindInductive, PlaceInductive, NamedInductive, ListedInductive,
     LoopBusyInductive DEF IInv
<1>2. CASE UNCHANGED vars
  BY <1>2 DEF vars, IInv, TypeOK, OneKind, Place, Named, Past, Listed, LoopBusy
<1>. QED
  BY <1>1, <1>2 DEF Next, Step

\* The inductive invariant of Login.
THEOREM Invariance == Spec => []IInv
  BY InitIInv, NextIInv, PTL DEF Spec

\* States, flags and maps stay in range, and no count of callbacks goes negative.
THEOREM TypeCorrect == Spec => []TypeOK
<1>1. IInv => TypeOK
  BY DEF IInv
<1>. QED
  BY <1>1, Invariance, PTL

\* No client, whatever it sends, gets two logins under way on one connection.
THEOREM OneAtATime == Spec => []OneStepAtATime
<1>1. ASSUME IInv PROVE OneStepAtATime
  <2>. SUFFICES ASSUME NEW c \in Client
                PROVE  Cardinality({k \in LoginKinds : tasks[c][k] > 0}) <= 1
    BY <1>1 DEF OneStepAtATime, IInv, OneKind
  <2>1. CASE {k \in LoginKinds : tasks[c][k] > 0} = {}
    BY <2>1, FS_EmptySet
  <2>2. ASSUME NEW k \in LoginKinds, tasks[c][k] > 0
        PROVE  {j \in LoginKinds : tasks[c][j] > 0} = {k}
    BY <1>1, <2>2 DEF IInv, OneKind
  <2>. QED
    BY <2>1, <2>2, FS_Singleton
<1>. QED
  BY <1>1, Invariance, PTL

\* A user in online mode has been vouched for by the session server, in every
\* interleaving and whatever mode plugins choose for each user.
THEOREM Authenticated == Spec => []OnlineIsAuthenticated
<1>1. IInv => OnlineIsAuthenticated
  BY DEF IInv, Named, Past, OnlineIsAuthenticated
<1>. QED
  BY <1>1, Invariance, PTL

\* A client that is being kicked, or is gone, never gets into the game, unless its
\* Runnable had checked the channel before the kick.
THEOREM KickIsFinal == Spec => KickedNeverJoins
<1>1. IInv /\ [Next]_vars =>
        [\A c \in Client : st[c] # "GAME" /\ chan[c] # "open" /\ ~Joining(c) =>
                            st'[c] # "GAME" /\ ~Joining(c)']_vars
  <2>. SUFFICES ASSUME IInv, NEW d \in Client, Step(d), NEW c \in Client,
                       st[c] # "GAME", chan[c] # "open", ~Joining(c)
                PROVE  st'[c] # "GAME" /\ ~Joining(c)'
    BY DEF Next, Step
  <2>1. CASE d # c
    BY <2>1, OthersUntouched DEF IInv, Untouched, Joining, Waiting
  <2>2. CASE d = c
    <3>1. st'[c] # "GAME"
      BY <2>2, GameByJoin DEF IInv, Join, Took, Joining, Waiting
    <3>2. tasks[c]["join"] = 0
      BY DEF IInv, TypeOK, Kinds, Joining, Waiting
    <3>. QED
      BY <2>2, <3>1, <3>2, JoinByRun DEF IInv, Joining, Waiting
  <2>. QED
    BY <2>1, <2>2
<1>. QED
  BY <1>1, Invariance, PTL DEF Spec, KickedNeverJoins

\* The loss of one user never takes another out of the registry.
THEOREM RemovalIsLocal == Spec => RemovalKeepsOthers
<1>1. IInv /\ [Next]_vars =>
        [\A c \in Client : chan[c] # "gone" /\ chan'[c] = "gone" =>
           /\ \A k \in Folded : byName[k] \notin {c, None} => byName'[k] = byName[k]
           /\ \A u \in UUID : byUUID[u] \notin {c, None} => byUUID'[u] = byUUID[u]]_vars
  <2>. SUFFICES ASSUME IInv, NEW d \in Client, Step(d), NEW c \in Client,
                       chan[c] # "gone", chan'[c] = "gone"
                PROVE  /\ \A k \in Folded : byName[k] \notin {c, None} => byName'[k] = byName[k]
                       /\ \A u \in UUID : byUUID[u] \notin {c, None} => byUUID'[u] = byUUID[u]
    BY DEF Next, Step
  <2>1. d = c /\ Inactive(c)
    BY OthersUntouched, ChanGone DEF IInv, Untouched
  <2>2. CASE st[c] = "GAME" /\ byName[Fold[name[c]]] = c
    <3>1. byUUID[uid[c]] = c /\ name[c] \in Name /\ uid[c] \in UUID
      BY <2>2, PastIsNamed DEF IInv, Listed, Past
    <3>. QED
      BY <2>1, <2>2, <3>1 DEF Inactive, RemoveConnection, IInv, TypeOK
  <2>3. CASE ~(st[c] = "GAME" /\ byName[Fold[name[c]]] = c)
    BY <2>1, <2>3 DEF Inactive, RemoveConnection, registry
  <2>. QED
    BY <2>2, <2>3
<1>. QED
  BY <1>1, Invariance, PTL DEF Spec, RemovalKeepsOthers
-----------------------------------------------------------------------------
\* Whoever is found by name is playing under that name and is found by UUID too,
\* for any number of clients that log in, are kicked and leave at once.
THEOREM RegistryIsTrue == Spec => []RegisteredIsConnected
<1>1. IInv => RegisteredIsConnected
  BY ClientAssumption DEF IInv, Listed, TypeOK, RegisteredIsConnected
<1>. QED
  BY <1>1, Invariance, PTL

-----------------------------------------------------------------------------
\* A login that the proxy has taken up waits for a callback that is to come, as
\* long as nobody closes the channel: it never hangs with nothing outstanding.
LoginAnswered ==
  \A c \in Client :
    chan[c] = "open" /\ st[c] # "GAME" /\ (processing[c] \/ st[c] = "FINISHING")
      => \E k \in LoginKinds : tasks[c][k] > 0

\* The end of a PreLoginEvent does not find the login it clears the flag of gone
\* on, unless the client answered too early and is being sent away.
TailInTime ==
  \A c \in Client : tasks[c]["preTail"] > 0 /\ st[c] = "FINISHING" => chan[c] # "open"

LEMMA Shut ==
  ASSUME TypeOK, NEW c \in Client, Close(c) \/ \E s : Disconnect(c, s)
  PROVE  chan'[c] # "open"
  BY DEF TypeOK, Chans, Close, Disconnect, Disconnected

LEMMA AnsweredInductive ==
  ASSUME TypeOK, OneKind, Place, LoginAnswered, TailInTime, NEW c \in Client, Step(c)
  PROVE  LoginAnswered' /\ TailInTime'
<1>. DEFINE Busy == processing[c] \/ st[c] = "FINISHING"
            Of == /\ chan[c] = "open" /\ st[c] # "GAME" /\ Busy
                       => \E k \in LoginKinds : tasks[c][k] > 0
                  /\ tasks[c]["preTail"] > 0 /\ st[c] = "FINISHING" => chan[c] # "open"
<1>0. Of
  BY DEF LoginAnswered, TailInTime
<1>t. /\ st \in [Client -> States] /\ processing \in [Client -> BOOLEAN]
      /\ tasks \in [Client -> [Kinds -> Nat]]
  BY DEF TypeOK
<1>p. /\ tasks[c]["preTail"] > 0 => st[c] \in {"ENCRYPT", "FINISHING"} /\ processing[c]
      /\ \A k \in LoginKinds : tasks[c][k] > 0 => st[c] \in {"USERNAME", "ENCRYPT", "FINISHING"}
  BY DEF Place, LoginKinds, Kinds
<1>k. /\ {"preLogin", "preTail", "auth", "login", "run", "join"} \subseteq LoginKinds
      /\ LoginKinds \subseteq Kinds /\ Nothing \notin Kinds
  BY DEF LoginKinds, Kinds, Nothing
<1>s. chan'[c] # "open" => Of'
  OBVIOUS
<1>1. ASSUME Accept(c) PROVE Of'
  <2>1. st'[c] = "HANDSHAKE" /\ ~processing'[c]
    BY <1>1, <1>t DEF Accept
  <2>. QED
    BY <2>1
<1>2. ASSUME \/ Fault(c) \/ DelayedClose(c) \/ LegacyHandshake(c) \/ EncryptionInvalid(c) \/ Ping(c)
             \/ EncryptionRefused(c) \/ LegacyDone(c) \/ PreLoginCancelled(c) \/ AuthFailed(c)
             \/ LoginCancelled(c)
      PROVE  Of'
  BY <1>2, <1>s, Shut DEF Fault, DelayedClose, LegacyHandshake, EncryptionInvalid, Ping,
       EncryptionRefused, LegacyDone, PreLoginCancelled, AuthFailed, LoginCancelled
<1>3. ASSUME Inactive(c) \/ PreLoginLate(c) PROVE Of'
  BY <1>3, <1>s DEF TypeOK, Inactive, PreLoginLate, IsClosed
<1>4. ASSUME Handshake(c) PROVE Of'
  <2>1. tasks'[c]["preTail"] = 0
    BY <1>4, <1>p, <1>t, <1>k DEF Handshake, Expect
  <2>2. chan'[c] # "open" \/ (~processing'[c] /\ st'[c] # "FINISHING")
    BY <1>4, <1>t, Shut DEF Handshake
  <2>. QED
    BY <2>1, <2>2
<1>5. ASSUME LegacyPing(c) PROVE Of'
  <2>1. \A j \in LoginKinds : tasks'[c][j] = tasks[c][j]
    BY <1>5, SubmitEffect DEF LegacyPing, LoginKinds, Kinds
  <2>. QED
    BY <1>0, <1>5, <1>k, <2>1 DEF LegacyPing
<1>6. ASSUME StatusRequest(c) PROVE Of'
  <2>1. st'[c] = "PING" /\ ~processing'[c]
    BY <1>6, <1>t DEF StatusRequest, Expect
  <2>. QED
    BY <2>1
<1>7. ASSUME LoginRequest(c) PROVE Of'
  <2>1. chan'[c] # "open" \/ tasks'[c]["preLogin"] > 0
    BY <1>7, <1>t, <1>k, Shut, SubmitEffect DEF LoginRequest
  <2>2. st'[c] = "USERNAME"
    BY <1>7 DEF LoginRequest, Expect
  <2>. QED
    BY <1>k, <2>1, <2>2
<1>8. ASSUME EncryptionResponse(c) PROVE Of'
  <2>1. chan'[c] # "open" \/ (tasks'[c]["auth"] > 0 /\ tasks'[c]["preTail"] = tasks[c]["preTail"])
    BY <1>8, <1>t, <1>k, Shut, SubmitEffect DEF EncryptionResponse
  <2>2. tasks[c]["preTail"] = 0
    BY <1>8, <1>p, <1>t, <1>k DEF EncryptionResponse, Expect
  <2>. QED
    BY <1>k, <2>1, <2>2
<1>9. ASSUME StatusDone(c) PROVE Of'
  <2>1. chan'[c] # "open" \/ UNCHANGED chan
    BY <1>9, Shut DEF StatusDone
  <2>2. \A j \in LoginKinds : tasks'[c][j] = tasks[c][j]
    BY <1>9, PingAnswered DEF StatusDone
  <2>. QED
    BY <1>0, <1>9, <1>k, <2>1, <2>2 DEF StatusDone
<1>f. ASSUME NEW n, NEW m, NEW k \in LoginKinds \ {"login"}, Finish(c, n, m, k)
      PROVE  tasks'[c]["preTail"] = 0 /\ (chan'[c] # "open" \/ tasks'[c]["login"] > 0)
  <2>1. CASE Took(c, k, Nothing)
    BY <1>f, <1>k, <2>1, OnlyOne, Shut DEF Finish
  <2>2. CASE Took(c, k, "login")
    BY <1>f, <1>k, <2>2, OnlyOne
  <2>. QED
    BY <1>f, <2>1, <2>2 DEF Finish
<1>10. ASSUME PreLoginDone(c) PROVE Of'
  <2>1. CASE Took(c, "preLogin", "preTail") /\ st'[c] = "ENCRYPT"
    BY <1>k, <2>1, OnlyOne
  <2>2. CASE \E m \in Modes : Finish(c, name[c], m, "preLogin")
    BY <1>k, <1>f, <2>2
  <2>. QED
    BY <1>10, <1>t, <2>1, <2>2 DEF PreLoginDone
<1>11. ASSUME PreLoginTail(c) PROVE Of'
  <2>1. tasks[c]["preTail"] > 0 /\ ~processing'[c] /\ st' = st /\ chan' = chan
    BY <1>11, <1>t DEF PreLoginTail, Took, Waiting
  <2>2. tasks'[c]["preTail"] = 0
    BY <1>11, <1>k, OnlyOne DEF PreLoginTail
  <2>. QED
    BY <1>0, <2>1, <2>2
<1>12. ASSUME AuthDone(c) PROVE Of'
  BY <1>12, <1>k, <1>f DEF AuthDone
<1>13. ASSUME LoginDone(c) PROVE Of'
  <2>1. CASE IsClosed(c)
    BY <1>13, <1>s, <2>1 DEF LoginDone, IsClosed
  <2>2. CASE Took(c, "login", "run")
    BY <1>k, <2>2, OnlyOne
  <2>. QED
    BY <1>13, <2>1, <2>2 DEF LoginDone
<1>14. ASSUME Run(c) PROVE Of'
  <2>1. CASE IsClosing(c)
    BY <1>14, <1>s, <2>1 DEF Run, IsClosing
  <2>2. CASE Took(c, "run", "join")
    BY <1>k, <2>2, OnlyOne
  <2>. QED
    BY <1>14, <2>1, <2>2 DEF Run
<1>j. ASSUME Join(c) PROVE Of'
  BY <1>j, <1>t DEF Join
<1>15. Of'
  BY <1>1, <1>2, <1>3, <1>4, <1>5, <1>6, <1>7, <1>8, <1>9, <1>10, <1>11, <1>12, <1>13, <1>14, <1>j
     DEF Step, Packet, Callback
<1>16. ASSUME NEW d \in Client \ {c}
       PROVE  Untouched(d)
  BY OthersUntouched
<1>. QED
  BY <1>15, <1>16 DEF LoginAnswered, TailInTime, Untouched

\* No login that was taken up hangs, for any number of clients and whatever order
\* its events complete in: what LoginResolves needs of safety.
THEOREM NoLoginHangs == Spec => []LoginAnswered
<1>1. Init => LoginAnswered /\ TailInTime
  BY DEF Init, LoginAnswered, TailInTime
<1>2. IInv /\ LoginAnswered /\ TailInTime /\ [Next]_vars => LoginAnswered' /\ TailInTime'
  <2>1. ASSUME IInv, LoginAnswered, TailInTime, UNCHANGED vars
        PROVE  LoginAnswered' /\ TailInTime'
    BY <2>1 DEF vars, LoginAnswered, TailInTime
  <2>. QED
    BY <2>1, AnsweredInductive DEF Next, Step, IInv
<1>. QED
  BY <1>1, <1>2, Invariance, PTL DEF Spec
=============================================================================
