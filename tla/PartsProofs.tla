----------------------------- MODULE PartsProofs -----------------------------
(***************************************************************************)
(* Proofs about the building blocks of Parts, each for any values of its   *)
(* constants: sockets, thread objects, once controls, the data over a      *)
(* socket, addresses, the state machine, peers, queues, maps, buffers.      *)
(***************************************************************************)
EXTENDS Parts, ListLemmas, FiniteSetTheorems, WellFoundedInduction, TLAPS

-----------------------------------------------------------------------------
(* Sockets.  While wingo_sock_connect_timeout waits, its descriptor's mode *)
(* is not the structure's; CallSound says what it is instead, and that the *)
(* call remembers what to restore.                                         *)

KernType == [status : Sock!Statuses, bound : BOOLEAN, peer : Remotes \cup {None}, nonblock : BOOLEAN]
SockType == [live : {TRUE}, kind : Sock!Kinds, state : Sock!States, local : Remotes \cup {None},
             remote : Remotes \cup {None}, blocking : BOOLEAN]
CallType == [on : Descriptors, addr : Remotes, was_blocking : BOOLEAN]

SockTypes ==
    /\ sock \in [Descriptors -> SockType \cup {Sock!Free}]
    /\ kern \in [Descriptors -> KernType]
    /\ call \in CallType \cup {Sock!Idle}

\* What holds of one structure and its descriptor: it is owned, its mode is the one
\* recorded or, in the call that waits, the call's, and what it claims is true.
Owned(h) == kern[h].status # "none" <=> Sock!HasFd(h)
Waits(h) == call # Sock!Idle /\ call.on = h
Mode(h) ==
    Sock!HasFd(h) => IF Waits(h) THEN kern[h].nonblock /\ call.was_blocking = sock[h].blocking
                            ELSE kern[h].nonblock = ~sock[h].blocking
Truth(h) ==
    Sock!HasFd(h) =>
        /\ sock[h].state = "CONNECT" => kern[h].status \in {"made", "connected"}
        /\ sock[h].state = "CONNECT" <=> sock[h].remote # None
        /\ sock[h].state = "LISTEN" => kern[h].status = "listening"
        /\ sock[h].state = "BOUND" \/ sock[h].local # None => kern[h].bound
Sound(h) == Owned(h) /\ Mode(h) /\ Truth(h)

CallSound == call # Sock!Idle => Sock!HasFd(call.on)

SockInv == SockTypes /\ CallSound /\ \A h \in Descriptors : Sound(h)

LEMMA IdleIsNoCall == Sock!Idle \notin CallType
BY DEF Sock!Idle, CallType

LEMMA FreeIsNoSocket == Sock!Free \notin SockType /\ Sock!Free.live = FALSE
BY DEF Sock!Free, SockType

\* What connect(2) leaves of a socket.
LEMMA Connected ==
    ASSUME NEW k \in KernType, k.status # "none", NEW kind \in Sock!Kinds, NEW a \in Remotes,
           NEW o \in Sock!KConnect(k, kind, a)
    PROVE  /\ o.k \in KernType /\ o.k.status # "none"
           /\ o.k.nonblock = k.nonblock
           /\ k.bound => o.k.bound
           /\ o.res \in {"ok", "error", "pending"}
           /\ o.res = "ok" => o.k.status = "connected" /\ o.k.bound
           /\ kind = "TCP" /\ k.status \in {"connected", "made"} => o.k.status = "connected"
           /\ kind = "TCP" /\ k.status = "listening" => o.k.status = "listening"
<1> DEFINE Made == [k EXCEPT !.status = "connected", !.bound = TRUE]
           Undone == [k EXCEPT !.status = "unconnected", !.peer = None]
           Pending == [k EXCEPT !.status = "connecting", !.bound = TRUE, !.peer = a]
<1>a. Made \in KernType /\ Made.status = "connected" /\ Made.bound /\ Made.nonblock = k.nonblock
  BY DEF KernType, Sock!Statuses
<1>b. LET m == [Made EXCEPT !.peer = a] IN
      m \in KernType /\ m.status = "connected" /\ m.bound /\ m.nonblock = k.nonblock
  BY DEF KernType, Sock!Statuses
<1>c. /\ Undone \in KernType /\ Undone.status = "unconnected" /\ Undone.bound = k.bound
      /\ Undone.nonblock = k.nonblock
  BY DEF KernType, Sock!Statuses
<1>d. /\ Pending \in KernType /\ Pending.status = "connecting" /\ Pending.bound
      /\ Pending.nonblock = k.nonblock
  BY DEF KernType, Sock!Statuses
<1>1. CASE kind = "UDP"
  <2>1. o = [k |-> [Made EXCEPT !.peer = a], res |-> "ok"]
    BY <1>1 DEF Sock!KConnect
  <2> HIDE DEF Made, Undone, Pending
  <2> QED BY <2>1, <1>a, <1>b, <1>c, <1>d, <1>1 DEF Sock!Statuses
<1>2. CASE kind = "TCP" /\ k.status = "unconnected"
  <2>1. \/ o = [k |-> [Made EXCEPT !.peer = a], res |-> "ok"]
        \/ o = [k |-> Undone, res |-> "error"]
        \/ o = [k |-> Pending, res |-> "pending"]
    BY <1>2 DEF Sock!KConnect
  <2> HIDE DEF Made, Undone, Pending
  <2>2. CASE o = [k |-> [Made EXCEPT !.peer = a], res |-> "ok"]
    BY <2>2, <1>b, <1>2
  <2>3. CASE o = [k |-> Undone, res |-> "error"]
    BY <2>3, <1>c, <1>2
  <2>4. CASE o = [k |-> Pending, res |-> "pending"]
    BY <2>4, <1>d, <1>2
  <2> QED BY <2>1, <2>2, <2>3, <2>4
<1>3. CASE kind = "TCP" /\ k.status = "connecting" /\ k.nonblock
  <2>1. o = [k |-> k, res |-> "error"]
    BY <1>3 DEF Sock!KConnect
  <2> HIDE DEF Made, Undone, Pending
  <2> QED BY <2>1, <1>a, <1>b, <1>c, <1>d, <1>3 DEF Sock!Statuses
<1>4. CASE kind = "TCP" /\ k.status = "connecting" /\ ~k.nonblock
  <2>1. \/ o = [k |-> Made, res |-> "ok"]
        \/ o = [k |-> Undone, res |-> "error"]
    BY <1>4 DEF Sock!KConnect
  <2> HIDE DEF Made, Undone, Pending
  <2> QED BY <2>1, <1>a, <1>b, <1>c, <1>d, <1>4 DEF Sock!Statuses
<1>5. CASE kind = "TCP" /\ k.status = "made"
  <2>1. o = [k |-> Made, res |-> "ok"]
    BY <1>5 DEF Sock!KConnect
  <2> HIDE DEF Made, Undone, Pending
  <2> QED BY <2>1, <1>a, <1>b, <1>c, <1>d, <1>5 DEF Sock!Statuses
<1>6. CASE kind = "TCP" /\ k.status = "failed"
  <2>1. o = [k |-> Undone, res |-> "error"]
    BY <1>6 DEF Sock!KConnect
  <2> HIDE DEF Made, Undone, Pending
  <2> QED BY <2>1, <1>a, <1>b, <1>c, <1>d, <1>6 DEF Sock!Statuses
<1>7. CASE kind = "TCP" /\ k.status \in {"connected", "listening"}
  <2>1. o = [k |-> k, res |-> "error"]
    BY <1>7 DEF Sock!KConnect
  <2> HIDE DEF Made, Undone, Pending
  <2> QED BY <2>1, <1>a, <1>b, <1>c, <1>d, <1>7 DEF Sock!Statuses
<1> QED BY <1>1, <1>2, <1>3, <1>4, <1>5, <1>6, <1>7 DEF Sock!Kinds, KernType, Sock!Statuses

\* A step changes the structures and the descriptors of one handle.
Only(h) == \A g \in Descriptors \ {h} : sock'[g] = sock[g] /\ kern'[g] = kern[g]
CallOf(h) == call = Sock!Idle \/ call.on = h

LEMMA OthersSound ==
    ASSUME SockInv, NEW h \in Descriptors, Only(h), Sound(h)', CallOf(h), CallOf(h)'
    PROVE  \A g \in Descriptors : Sound(g)'
<1> SUFFICES ASSUME NEW g \in Descriptors, g # h PROVE Sound(g)'
  OBVIOUS
<1>1. sock'[g] = sock[g] /\ kern'[g] = kern[g]
  BY DEF Only
<1>2. ~Waits(g) /\ ~Waits(g)'
  BY DEF CallOf, Waits
<1>3. Sound(g)
  BY DEF SockInv
<1> QED BY <1>1, <1>2, <1>3 DEF Sound, Owned, Mode, Truth, Sock!HasFd

\* While no call waits.
LEMMA ReadyStep ==
    ASSUME SockInv, Sock!Ready, NEW h \in Descriptors, NEW s \in SockType \cup {Sock!Free}, NEW k \in KernType,
           sock' = [sock EXCEPT ![h] = s], kern' = [kern EXCEPT ![h] = k],
           call' = call,
           Sound(h)'
    PROVE  SockInv'
<1>1. SockTypes'
  BY DEF SockInv, SockTypes
<1>2. Only(h) /\ CallOf(h) /\ CallOf(h)' /\ CallSound'
  BY DEF SockInv, SockTypes, Only, CallOf, CallSound, Sock!Ready
<1> QED BY <1>1, <1>2, OthersSound DEF SockInv

\* A live structure has the type of one.
LEMMA LiveType ==
    ASSUME SockInv, NEW h \in Descriptors, sock[h].live
    PROVE  sock[h] \in SockType
BY FreeIsNoSocket DEF SockInv, SockTypes

LEMMA GoneType == Sock!Gone \in KernType /\ Sock!Fresh \in KernType
BY DEF Sock!Gone, Sock!Fresh, KernType, Sock!Statuses

\* A structure without descriptor, and none in the kernel.
LEMMA NothingIsSound ==
    ASSUME NEW h \in Descriptors, ~Sock!HasFd(h)', kern'[h] = Sock!Gone
    PROVE  Sound(h)'
<1>1. kern'[h].status = "none"
  BY DEF Sock!Gone
<1>2. Owned(h)'
  BY <1>1 DEF Owned
<1>3. Mode(h)' /\ Truth(h)'
  BY DEF Mode, Truth
<1> QED BY <1>2, <1>3 DEF Sound

LEMMA NewSound ==
    ASSUME SockInv, NEW h \in Descriptors, NEW kind \in Sock!Kinds, Sock!New(h, kind)
    PROVE  SockInv'
<1> DEFINE s == Sock!NewSock(kind, "OPEN", None, TRUE)
<1>1. s \in SockType
  BY DEF Sock!NewSock, SockType, Sock!States
<1>2. /\ Sock!Ready /\ call' = call
      /\ sock' = [sock EXCEPT ![h] = s] /\ kern' = [kern EXCEPT ![h] = Sock!Fresh]
  BY DEF Sock!New
<1>3. sock'[h] = s /\ kern'[h] = Sock!Fresh
  BY <1>2 DEF SockInv, SockTypes
<1>4. Sound(h)'
  <2>1. /\ s.live /\ s.state = "OPEN" /\ s.blocking = TRUE /\ s.local = None /\ s.remote = None
        /\ Sock!Fresh.status = "unconnected" /\ Sock!Fresh.nonblock = FALSE
    BY DEF Sock!NewSock, Sock!Fresh, Sock!Gone
  <2>2. ~Waits(h)'
    BY <1>2 DEF Sock!Ready, Waits
  <2> HIDE DEF s
  <2>3. Sock!HasFd(h)' /\ Owned(h)'
    BY <1>3, <2>1 DEF Sock!HasFd, Owned
  <2>4. Mode(h)'
    BY <1>3, <2>1, <2>2 DEF Mode
  <2>5. Truth(h)'
    BY <1>3, <2>1 DEF Truth
  <2> QED BY <2>3, <2>4, <2>5 DEF Sound
<1> HIDE DEF s
<1> QED BY <1>1, <1>2, <1>4, ReadyStep, GoneType

LEMMA CloseSound ==
    ASSUME SockInv, NEW h \in Descriptors, Sock!Close(h)
    PROVE  SockInv'
<1> DEFINE s == [sock[h] EXCEPT !.state = "CLOSED", !.local = None, !.remote = None]
<1>1. s \in SockType
  BY LiveType DEF Sock!Close, SockType, Sock!States
<1>2. /\ Sock!Ready /\ call' = call /\ kern' = [kern EXCEPT ![h] = Sock!Gone]
      /\ sock' = [sock EXCEPT ![h] = s]
  BY DEF Sock!Close, SockInv, SockTypes
<1>3. sock'[h].state = "CLOSED" /\ kern'[h] = Sock!Gone
  BY <1>1, <1>2, LiveType DEF SockInv, SockTypes, Sock!Close, SockType
<1>4. Sound(h)'
  BY <1>3, NothingIsSound DEF Sock!HasFd
<1> HIDE DEF s
<1> QED BY <1>1, <1>2, <1>4, ReadyStep, GoneType

LEMMA FreeSound ==
    ASSUME SockInv, NEW h \in Descriptors, Sock!FreeSock(h)
    PROVE  SockInv'
<1>1. /\ Sock!Ready /\ call' = call /\ kern' = [kern EXCEPT ![h] = Sock!Gone]
      /\ sock' = [sock EXCEPT ![h] = Sock!Free]
  BY DEF Sock!FreeSock
<1>2. sock'[h] = Sock!Free /\ kern'[h] = Sock!Gone
  BY <1>1 DEF SockInv, SockTypes
<1>3. Sound(h)'
  BY <1>2, FreeIsNoSocket, NothingIsSound DEF Sock!HasFd
<1> QED BY <1>1, <1>3, ReadyStep, GoneType

LEMMA BindSound ==
    ASSUME SockInv, NEW h \in Descriptors, NEW a \in Remotes, Sock!SocketsAssumption, Sock!Bind(h, a)
    PROVE  SockInv'
<1> DEFINE s == [sock[h] EXCEPT !.local = a, !.state = "BOUND"]
           k == [kern[h] EXCEPT !.bound = TRUE]
<1>1. sock[h] \in SockType /\ kern[h] \in KernType /\ Sound(h)
  BY LiveType DEF Sock!Bind, Sock!HasFd, SockInv, SockTypes
<1>2. s \in SockType /\ s.live /\ s.state = "BOUND" /\ s.remote = sock[h].remote /\ s.blocking = sock[h].blocking
  BY <1>1 DEF SockType, Sock!States
<1>3. k \in KernType /\ k.bound /\ k.status = kern[h].status /\ k.nonblock = kern[h].nonblock
  BY <1>1 DEF KernType, Sock!Statuses
<1>4. /\ Sock!Ready /\ call' = call /\ Sock!HasFd(h)
      /\ sock[h].state = "OPEN"
      /\ sock' = [sock EXCEPT ![h] = s] /\ kern' = [kern EXCEPT ![h] = k]
  BY DEF Sock!Bind, SockInv, SockTypes
<1>5. sock'[h] = s /\ kern'[h] = k
  BY <1>4 DEF SockInv, SockTypes
<1>6. ~Waits(h) /\ ~Waits(h)'
  BY <1>4 DEF Sock!Ready, Waits
<1> HIDE DEF s, k
<1>7. Owned(h)'
  BY <1>1, <1>2, <1>3, <1>4, <1>5 DEF Sound, Owned, Sock!HasFd
<1>8. Mode(h)'
  BY <1>1, <1>2, <1>3, <1>4, <1>5, <1>6 DEF Sound, Mode
<1>9. Truth(h)'
  BY <1>1, <1>2, <1>3, <1>4, <1>5, Sock!SocketsAssumption DEF Sound, Truth, Sock!SocketsAssumption, SockType
<1>10. Sound(h)'
  BY <1>7, <1>8, <1>9 DEF Sound
<1> QED BY <1>2, <1>3, <1>4, <1>10, ReadyStep

LEMMA ListenSound ==
    ASSUME SockInv, NEW h \in Descriptors, Sock!SocketsAssumption, Sock!Listen(h)
    PROVE  SockInv'
<1> DEFINE s == [sock[h] EXCEPT !.state = "LISTEN"]
           k == [kern[h] EXCEPT !.status = "listening"]
<1>1. sock[h] \in SockType /\ kern[h] \in KernType /\ Sound(h)
  BY LiveType DEF Sock!Listen, Sock!HasFd, SockInv, SockTypes
<1>2. s \in SockType /\ s.live /\ s.state = "LISTEN"
      /\ s.remote = sock[h].remote /\ s.local = sock[h].local /\ s.blocking = sock[h].blocking
  BY <1>1 DEF SockType, Sock!States
<1>3. k \in KernType /\ k.status = "listening" /\ k.bound = kern[h].bound /\ k.nonblock = kern[h].nonblock
  BY <1>1 DEF KernType, Sock!Statuses
<1>4. /\ Sock!Ready /\ call' = call /\ Sock!HasFd(h)
      /\ sock[h].state = "BOUND"
      /\ sock' = [sock EXCEPT ![h] = s] /\ kern' = [kern EXCEPT ![h] = k]
  BY DEF Sock!Listen, SockInv, SockTypes
<1>5. sock'[h] = s /\ kern'[h] = k
  BY <1>4 DEF SockInv, SockTypes
<1>6. ~Waits(h) /\ ~Waits(h)'
  BY <1>4 DEF Sock!Ready, Waits
<1> HIDE DEF s, k
<1>7. Owned(h)'
  BY <1>1, <1>2, <1>3, <1>4, <1>5 DEF Sound, Owned, Sock!HasFd
<1>8. Mode(h)'
  BY <1>1, <1>2, <1>3, <1>4, <1>5, <1>6 DEF Sound, Mode
<1>9. Truth(h)'
  BY <1>1, <1>2, <1>3, <1>4, <1>5, Sock!SocketsAssumption DEF Sound, Truth, Sock!SocketsAssumption, SockType
<1>10. Sound(h)'
  BY <1>7, <1>8, <1>9 DEF Sound
<1> QED BY <1>2, <1>3, <1>4, <1>10, ReadyStep

LEMMA DisconnectSound ==
    ASSUME SockInv, NEW h \in Descriptors, Sock!SocketsAssumption, Sock!Disconnect(h)
    PROVE  SockInv'
<1> DEFINE s == [sock[h] EXCEPT !.remote = None, !.state = "OPEN"]
           k == kern[h]
<1>1. sock[h] \in SockType /\ kern[h] \in KernType /\ Sound(h)
  BY LiveType DEF Sock!Disconnect, Sock!HasFd, SockInv, SockTypes
<1>2. s \in SockType /\ s.live /\ s.state = "OPEN" /\ s.remote = None
      /\ s.local = sock[h].local /\ s.blocking = sock[h].blocking
  BY <1>1 DEF SockType, Sock!States
<1>3. k \in KernType /\ k = kern[h]
  BY <1>1 DEF KernType, Sock!Statuses
<1>4. /\ Sock!Ready /\ call' = call /\ Sock!HasFd(h)
      /\ sock[h].state = "CONNECT"
      /\ sock' = [sock EXCEPT ![h] = s] /\ kern' = [kern EXCEPT ![h] = k]
  BY DEF Sock!Disconnect, SockInv, SockTypes
<1>5. sock'[h] = s /\ kern'[h] = k
  BY <1>4 DEF SockInv, SockTypes
<1>6. ~Waits(h) /\ ~Waits(h)'
  BY <1>4 DEF Sock!Ready, Waits
<1> HIDE DEF s, k
<1>7. Owned(h)'
  BY <1>1, <1>2, <1>3, <1>4, <1>5 DEF Sound, Owned, Sock!HasFd
<1>8. Mode(h)'
  BY <1>1, <1>2, <1>3, <1>4, <1>5, <1>6 DEF Sound, Mode
<1>9. Truth(h)'
  BY <1>1, <1>2, <1>3, <1>4, <1>5, Sock!SocketsAssumption DEF Sound, Truth, Sock!SocketsAssumption, SockType
<1>10. Sound(h)'
  BY <1>7, <1>8, <1>9 DEF Sound
<1> QED BY <1>2, <1>3, <1>4, <1>10, ReadyStep

LEMMA SetBlockingSound ==
    ASSUME SockInv, NEW h \in Descriptors, NEW b \in BOOLEAN, Sock!SocketsAssumption, Sock!SetBlocking(h, b)
    PROVE  SockInv'
<1> DEFINE s == [sock[h] EXCEPT !.blocking = b]
           k == [kern[h] EXCEPT !.nonblock = ~b]
<1>1. sock[h] \in SockType /\ kern[h] \in KernType /\ Sound(h)
  BY LiveType DEF Sock!SetBlocking, Sock!HasFd, SockInv, SockTypes
<1>2. s \in SockType /\ s.live /\ s.blocking = b
      /\ s.state = sock[h].state /\ s.local = sock[h].local /\ s.remote = sock[h].remote
  BY <1>1 DEF SockType, Sock!States
<1>3. k \in KernType /\ k.nonblock = ~b
      /\ k.status = kern[h].status /\ k.bound = kern[h].bound
  BY <1>1 DEF KernType, Sock!Statuses
<1>4. /\ Sock!Ready /\ call' = call /\ Sock!HasFd(h)
      /\ sock' = [sock EXCEPT ![h] = s] /\ kern' = [kern EXCEPT ![h] = k]
  BY DEF Sock!SetBlocking, SockInv, SockTypes
<1>5. sock'[h] = s /\ kern'[h] = k
  BY <1>4 DEF SockInv, SockTypes
<1>6. ~Waits(h) /\ ~Waits(h)'
  BY <1>4 DEF Sock!Ready, Waits
<1> HIDE DEF s, k
<1>7. Owned(h)'
  BY <1>1, <1>2, <1>3, <1>4, <1>5 DEF Sound, Owned, Sock!HasFd
<1>8. Mode(h)'
  BY <1>1, <1>2, <1>3, <1>4, <1>5, <1>6 DEF Sound, Mode
<1>9. Truth(h)'
  BY <1>1, <1>2, <1>3, <1>4, <1>5, Sock!SocketsAssumption DEF Sound, Truth, Sock!SocketsAssumption, SockType
<1>10. Sound(h)'
  BY <1>7, <1>8, <1>9 DEF Sound
<1> QED BY <1>2, <1>3, <1>4, <1>10, ReadyStep

LEMMA AcceptSound ==
    ASSUME Sock!SocketsAssumption, SockInv, NEW h \in Descriptors, NEW c \in Descriptors, ~sock[c].live,
           NEW a \in Remotes, Sock!Accept(h, c, a)
    PROVE  SockInv'
<1> DEFINE s == Sock!NewSock("TCP", "CONNECT", a, sock[h].blocking)
           k == [status |-> "connected", bound |-> TRUE, peer |-> a,
                 nonblock |-> ~sock[h].blocking]
<1>1. sock[h] \in SockType
  BY LiveType DEF Sock!Accept, Sock!HasFd
<1>2. /\ s \in SockType /\ s.live /\ s.state = "CONNECT" /\ s.remote = a /\ s.local = None
      /\ s.blocking = sock[h].blocking
  BY <1>1 DEF Sock!NewSock, SockType, Sock!States, Sock!Kinds
<1>3. k \in KernType /\ k.status = "connected" /\ k.bound /\ k.nonblock = ~sock[h].blocking
  BY <1>1 DEF KernType, Sock!Statuses, SockType
<1>4. /\ Sock!Ready /\ call' = call
      /\ sock' = [sock EXCEPT ![c] = s] /\ kern' = [kern EXCEPT ![c] = k]
  BY DEF Sock!Accept
<1>5. sock'[c] = s /\ kern'[c] = k
  BY <1>4 DEF SockInv, SockTypes
<1>6. ~Waits(c)'
  BY <1>4 DEF Sock!Ready, Waits
<1> HIDE DEF s, k
<1>7. Owned(c)' /\ Sock!HasFd(c)'
  BY <1>2, <1>3, <1>5 DEF Owned, Sock!HasFd
<1>8. Mode(c)'
  BY <1>2, <1>3, <1>5, <1>6 DEF Mode
<1>9. Truth(c)'
  BY <1>2, <1>3, <1>5, Sock!SocketsAssumption DEF Truth, Sock!SocketsAssumption
<1>10. Sound(c)'
  BY <1>7, <1>8, <1>9 DEF Sound
<1> QED BY <1>2, <1>3, <1>4, <1>10, ReadyStep

LEMMA EstablishedSound ==
    ASSUME SockInv, NEW h \in Descriptors, Sock!Established(h)
    PROVE  SockInv'
<1> PICK st \in {"made", "failed"} : kern' = [kern EXCEPT ![h].status = st]
  BY DEF Sock!Established
<1>1. kern[h] \in KernType /\ kern[h].status = "connecting" /\ Sound(h)
  BY DEF Sock!Established, SockInv, SockTypes
<1>2. /\ kern'[h] \in KernType /\ kern'[h].status = st
      /\ kern'[h].bound = kern[h].bound /\ kern'[h].nonblock = kern[h].nonblock
  BY <1>1 DEF SockInv, SockTypes, KernType, Sock!Statuses
<1>3. sock' = sock /\ call' = call
  BY DEF Sock!Established
<1>4. \A g \in Descriptors \ {h} : kern'[g] = kern[g]
  BY DEF SockInv, SockTypes
<1>5. SockTypes'
  <2>1. kern' \in [Descriptors -> KernType]
    BY <1>2, <1>4 DEF SockInv, SockTypes
  <2> QED BY <2>1, <1>3 DEF SockInv, SockTypes
<1>6. Sound(h)'
  BY <1>1, <1>2, <1>3 DEF Sound, Owned, Mode, Truth, Sock!HasFd, Waits
<1>7. \A g \in Descriptors \ {h} : Sound(g)'
  BY <1>3, <1>4 DEF SockInv, Sound, Owned, Mode, Truth, Sock!HasFd, Waits
<1>8. CallSound'
  BY <1>3 DEF SockInv, CallSound, Sock!HasFd
<1> QED BY <1>5, <1>6, <1>7, <1>8 DEF SockInv

\* The structure after connect(2) answered res: the address only if it succeeded.
After(h, a, ok) == IF ok THEN [sock[h] EXCEPT !.remote = a, !.state = "CONNECT"] ELSE sock[h]

LEMMA AfterType ==
    ASSUME NEW h \in Descriptors, sock[h] \in SockType, sock[h].state # "CLOSED",
           NEW a \in Remotes, NEW ok \in BOOLEAN
    PROVE  /\ After(h, a, ok) \in SockType
           /\ After(h, a, ok).live /\ After(h, a, ok).state # "CLOSED"
           /\ After(h, a, ok).blocking = sock[h].blocking
           /\ After(h, a, ok).local = sock[h].local
           /\ ok => After(h, a, ok).state = "CONNECT" /\ After(h, a, ok).remote = a
           /\ ~ok => After(h, a, ok) = sock[h]
BY DEF After, SockType, Sock!States

\* connect(2) on the descriptor, with the mode it leaves, keeps a structure sound.
LEMMA ConnectKeeps ==
    ASSUME Sock!SocketsAssumption, SockInv, NEW h \in Descriptors, Sock!HasFd(h), NEW a \in Remotes,
           NEW ok \in BOOLEAN, NEW k \in KernType,
           sock'[h] = After(h, a, ok), kern'[h] = k,
           k.status # "none",
           kern[h].bound => k.bound,
           ok => k.status \in {"made", "connected"},
           sock[h].state = "CONNECT" => k.status \in {"made", "connected"},
           sock[h].state = "LISTEN" => k.status = "listening",
           Mode(h)'
    PROVE  Sound(h)'
<1>1. sock[h] \in SockType /\ sock[h].state # "CLOSED" /\ Sound(h)
  BY LiveType DEF Sock!HasFd, SockInv
<1> DEFINE s == After(h, a, ok)
<1>2. /\ s.live /\ s.state # "CLOSED" /\ s.local = sock[h].local
      /\ ok => s.state = "CONNECT" /\ s.remote = a
      /\ ~ok => s = sock[h]
  BY <1>1, AfterType
<1> HIDE DEF s
<1>3. sock'[h] = s
  BY DEF s
<1>4. Owned(h)'
  BY <1>2, <1>3 DEF Owned, Sock!HasFd
<1>5. Truth(h)'
  BY <1>1, <1>2, <1>3, Sock!SocketsAssumption DEF Sound, Truth, Sock!SocketsAssumption
<1> QED BY <1>4, <1>5 DEF Sound

LEMMA ConnectSound ==
    ASSUME Sock!SocketsAssumption, SockInv, NEW h \in Descriptors, NEW a \in Remotes, Sock!Connect(h, a)
    PROVE  SockInv'
<1> PICK o \in Sock!KConnect(kern[h], sock[h].kind, a) :
       /\ kern' = [kern EXCEPT ![h] = o.k]
       /\ sock' = IF o.res = "ok" THEN Sock!MarkConnected(h, a) ELSE sock
  BY DEF Sock!Connect
<1> DEFINE ok == o.res = "ok"
<1>1. /\ Sock!Ready /\ call' = call /\ Sock!HasFd(h) /\ sock[h].state \in {"OPEN", "BOUND"}
  BY DEF Sock!Connect
<1>2. /\ sock[h] \in SockType /\ kern[h] \in KernType /\ Sound(h)
  BY <1>1, LiveType DEF Sock!HasFd, SockInv, SockTypes
<1>3. /\ o.k \in KernType /\ o.k.status # "none" /\ o.k.nonblock = kern[h].nonblock
      /\ kern[h].bound => o.k.bound
      /\ ok => o.k.status = "connected" /\ o.k.bound
  <2>1. kern[h].status # "none" /\ sock[h].kind \in Sock!Kinds
    BY <1>1, <1>2 DEF Sound, Owned, SockType
  <2> QED BY <2>1, <1>2, Connected
<1>4. sock' = [sock EXCEPT ![h] = After(h, a, ok)]
  BY DEF After, Sock!MarkConnected, SockInv, SockTypes
<1> HIDE DEF ok
<1>5. ok \in BOOLEAN
  BY DEF ok
<1>6. sock'[h] = After(h, a, ok) /\ kern'[h] = o.k
  BY <1>4 DEF SockInv, SockTypes
<1>7. /\ After(h, a, ok) \in SockType /\ After(h, a, ok).blocking = sock[h].blocking
  BY <1>1, <1>2, <1>5, AfterType
<1>8. Mode(h)'
  <2>1. ~Waits(h) /\ ~Waits(h)'
    BY <1>1 DEF Sock!Ready, Waits
  <2> QED BY <2>1, <1>1, <1>2, <1>3, <1>6, <1>7 DEF Mode, Sound
<1>9. Sound(h)'
  BY <1>1, <1>3, <1>5, <1>6, <1>8, ConnectKeeps
<1> QED BY <1>1, <1>3, <1>4, <1>7, <1>9, ReadyStep

\* wingo_sock_connect_timeout looks at no state: what it does of any.
LEMMA ConnectTimeoutSound ==
    ASSUME Sock!SocketsAssumption, SockInv, NEW h \in Descriptors, NEW a \in Remotes, Sock!ConnectTimeout(h, a)
    PROVE  SockInv'
<1> DEFINE k0 == [kern[h] EXCEPT !.nonblock = TRUE]
<1> PICK o \in Sock!KConnect(k0, "TCP", a) :
        IF o.res = "pending"
        THEN /\ kern' = [kern EXCEPT ![h] = o.k]
             /\ call' = [on |-> h, addr |-> a, was_blocking |-> sock[h].blocking]
             /\ UNCHANGED sock
        ELSE /\ kern' = [kern EXCEPT ![h] = Sock!Restored(o.k, sock[h].blocking)]
             /\ sock' = IF o.res = "ok" THEN Sock!MarkConnected(h, a) ELSE sock
             /\ UNCHANGED call
  BY DEF Sock!ConnectTimeout
<1> DEFINE ok == o.res = "ok"
           r == Sock!Restored(o.k, sock[h].blocking)
<1>1. Sock!Ready /\ Sock!HasFd(h)
  BY DEF Sock!ConnectTimeout
<1>2. /\ sock[h] \in SockType /\ kern[h] \in KernType /\ Sound(h)
      /\ kern[h].status # "none" /\ sock[h].state # "CLOSED"
  BY <1>1, LiveType DEF Sock!HasFd, SockInv, SockTypes, Sound, Owned
<1>3. /\ k0 \in KernType /\ k0.status = kern[h].status /\ k0.bound = kern[h].bound
      /\ k0.nonblock = TRUE
  BY <1>2 DEF KernType
<1> HIDE DEF k0
<1>4. /\ o.k \in KernType /\ o.k.status # "none" /\ o.k.nonblock = TRUE
      /\ kern[h].bound => o.k.bound
      /\ ok => o.k.status = "connected" /\ o.k.bound
      /\ kern[h].status \in {"connected", "made"} => o.k.status = "connected"
      /\ kern[h].status = "listening" => o.k.status = "listening"
  BY <1>2, <1>3, Connected DEF Sock!Kinds
<1>5. /\ sock[h].state = "CONNECT" => o.k.status = "connected"
      /\ sock[h].state = "LISTEN" => o.k.status = "listening"
  BY <1>1, <1>2, <1>4 DEF Sound, Truth
<1>6. ok \in BOOLEAN
  OBVIOUS
<1> HIDE DEF ok
<1>7. CASE o.res = "pending"
  <2>1. /\ kern' = [kern EXCEPT ![h] = o.k] /\ sock' = sock
        /\ call' = [on |-> h, addr |-> a, was_blocking |-> sock[h].blocking]
    BY <1>7
  <2>2. kern'[h] = o.k /\ Only(h) /\ CallOf(h) /\ CallOf(h)'
    BY <2>1, <1>1 DEF SockInv, SockTypes, Only, CallOf, Sock!Ready
  <2>3. call' \in CallType
    BY <2>1, <1>2 DEF CallType, SockType
  <2>4. SockTypes' /\ CallSound'
    BY <2>1, <2>3, <1>1, <1>4 DEF SockInv, SockTypes, CallSound, Sock!HasFd
  <2>5. call' # Sock!Idle /\ Waits(h)' /\ call'.was_blocking = sock[h].blocking
    BY <2>1, <2>3, IdleIsNoCall DEF Waits
  <2>6. Mode(h)'
    BY <2>1, <2>2, <2>5, <1>4 DEF Mode
  <2>7. sock'[h] = After(h, a, FALSE)
    BY <2>1 DEF After
  <2>8. Sound(h)'
    BY <2>2, <2>6, <2>7, <1>1, <1>4, <1>5, ConnectKeeps
  <2> QED BY <2>2, <2>4, <2>8, OthersSound DEF SockInv
<1>8. CASE o.res # "pending"
  <2>1. /\ r \in KernType /\ r.status = o.k.status /\ r.bound = o.k.bound
        /\ r.nonblock = ~sock[h].blocking
    BY <1>2, <1>4 DEF Sock!Restored, KernType, SockType
  <2>2. kern' = [kern EXCEPT ![h] = r] /\ call' = call
    BY <1>8
  <2> HIDE DEF r
  <2>3. sock' = [sock EXCEPT ![h] = After(h, a, ok)]
    BY <1>8 DEF ok, After, Sock!MarkConnected, SockInv, SockTypes
  <2>4. sock'[h] = After(h, a, ok) /\ kern'[h] = r
    BY <2>2, <2>3 DEF SockInv, SockTypes
  <2>5. After(h, a, ok) \in SockType /\ After(h, a, ok).blocking = sock[h].blocking
    BY <1>2, <1>6, AfterType
  <2>6. Mode(h)'
    <3>1. ~Waits(h)'
      BY <2>2, <1>1 DEF Sock!Ready, Waits
    <3> QED BY <3>1, <2>1, <2>4, <2>5 DEF Mode
  <2>7. Sound(h)'
    BY <2>1, <2>4, <2>6, <1>1, <1>4, <1>5, <1>6, ConnectKeeps
  <2> QED BY <2>1, <2>2, <2>3, <2>5, <2>7, <1>1, ReadyStep
<1> QED BY <1>7, <1>8

LEMMA PollEndsSound ==
    ASSUME Sock!SocketsAssumption, SockInv, Sock!PollEnds
    PROVE  SockInv'
<1>0. call # Sock!Idle /\ call \in CallType /\ call.on \in Descriptors /\ call.addr \in Remotes
  BY DEF Sock!PollEnds, Sock!Ready, SockInv, SockTypes, CallType
<1> PICK h \in Descriptors, a \in Remotes : h = call.on /\ a = call.addr
  BY <1>0
<1> DEFINE ok == kern[h].status = "made"
           r == Sock!Restored(kern[h], call.was_blocking)
<1>1. call # Sock!Idle /\ call \in CallType /\ h = call.on /\ a = call.addr
  BY <1>0
<1>2. Sock!HasFd(h) /\ Sound(h)
  BY <1>1 DEF SockInv, CallSound
<1>3. /\ sock[h] \in SockType /\ kern[h] \in KernType
      /\ kern[h].status # "none" /\ sock[h].state # "CLOSED"
  BY <1>1, <1>2, LiveType DEF Sock!HasFd, SockInv, SockTypes, Sound, Owned
<1>4. kern[h].nonblock /\ call.was_blocking = sock[h].blocking
  BY <1>1, <1>2 DEF Sound, Mode, Waits
<1>5. /\ r \in KernType /\ r.status = kern[h].status /\ r.bound = kern[h].bound
      /\ r.nonblock = ~sock[h].blocking
  BY <1>3, <1>4 DEF Sock!Restored, KernType, SockType
<1>6. kern' = [kern EXCEPT ![h] = r] /\ call' = Sock!Idle
  BY DEF Sock!PollEnds
<1>7. sock' = [sock EXCEPT ![h] = After(h, a, ok)]
  BY <1>1 DEF Sock!PollEnds, After, Sock!MarkConnected, SockInv, SockTypes
<1>8. ok \in BOOLEAN
  OBVIOUS
<1> HIDE DEF r
<1>9. sock'[h] = After(h, a, ok) /\ kern'[h] = r
  BY <1>1, <1>6, <1>7 DEF SockInv, SockTypes
<1>10. After(h, a, ok) \in SockType /\ After(h, a, ok).blocking = sock[h].blocking
  BY <1>1, <1>3, <1>8, AfterType
<1>11. Mode(h)'
  BY <1>5, <1>6, <1>9, <1>10 DEF Mode, Waits
<1>12. /\ sock[h].state = "CONNECT" => r.status \in {"made", "connected"}
       /\ sock[h].state = "LISTEN" => r.status = "listening"
  BY <1>2, <1>5 DEF Sound, Truth
<1>13. ok => r.status \in {"made", "connected"}
  BY <1>5
<1>14. Sound(h)'
  <2>1. r.status # "none" /\ (kern[h].bound => r.bound)
    BY <1>3, <1>5
  <2> HIDE DEF ok
  <2> QED BY <1>2, <1>5, <1>8, <1>9, <1>11, <1>12, <1>13, <2>1, ConnectKeeps
<1>15. SockTypes'
  BY <1>1, <1>5, <1>6, <1>7, <1>10 DEF SockInv, SockTypes
<1>16. Only(h) /\ CallOf(h) /\ CallOf(h)' /\ CallSound'
  BY <1>1, <1>6, <1>7 DEF SockInv, SockTypes, Only, CallOf, CallSound
<1> QED BY <1>1, <1>14, <1>15, <1>16, OthersSound DEF SockInv

-----------------------------------------------------------------------------

LEMMA SockInitSound == ASSUME Sock!SocketsAssumption, Sock!Init PROVE SockInv
<1>1. SockTypes /\ CallSound
  BY GoneType DEF Sock!Init, SockTypes, CallSound
<1>2. ASSUME NEW h \in Descriptors PROVE Sound(h)
  <2>1. ~Sock!HasFd(h) /\ kern[h].status = "none"
    BY FreeIsNoSocket DEF Sock!Init, Sock!HasFd, Sock!Gone
  <2> QED BY <2>1 DEF Sound, Owned, Mode, Truth
<1> QED BY <1>1, <1>2 DEF SockInv

LEMMA SockNextSound == ASSUME Sock!SocketsAssumption, SockInv, [Sock!Next]_(Sock!vars) PROVE SockInv'
<1>1. ASSUME NEW h \in Descriptors, Sock!Close(h) PROVE SockInv'
  BY <1>1, CloseSound
<1>2. ASSUME NEW h \in Descriptors, Sock!FreeSock(h) PROVE SockInv'
  BY <1>2, FreeSound
<1>3. ASSUME NEW h \in Descriptors, Sock!Listen(h) PROVE SockInv'
  BY <1>3, ListenSound
<1>4. ASSUME NEW h \in Descriptors, Sock!Disconnect(h) PROVE SockInv'
  BY <1>4, DisconnectSound
<1>5. ASSUME NEW h \in Descriptors, Sock!Established(h) PROVE SockInv'
  BY <1>5, EstablishedSound
<1>6. ASSUME NEW h \in {g \in Descriptors : ~sock[g].live}, NEW kind \in Sock!Kinds, Sock!New(h, kind)
      PROVE  SockInv'
  BY <1>6, NewSound
<1>7. ASSUME NEW h \in Descriptors, NEW a \in Remotes, Sock!Bind(h, a) PROVE SockInv'
  BY <1>7, BindSound
<1>8. ASSUME NEW h \in Descriptors, NEW a \in Remotes, Sock!Connect(h, a) PROVE SockInv'
  BY <1>8, ConnectSound
<1>9. ASSUME NEW h \in Descriptors, NEW a \in Remotes, Sock!ConnectTimeout(h, a) PROVE SockInv'
  BY <1>9, ConnectTimeoutSound
<1>10. ASSUME NEW h \in Descriptors, NEW a \in Remotes, NEW c \in {g \in Descriptors : ~sock[g].live},
              Sock!Accept(h, c, a)
       PROVE  SockInv'
  BY <1>10, AcceptSound
<1>11. ASSUME NEW h \in Descriptors, NEW b \in BOOLEAN, Sock!SetBlocking(h, b) PROVE SockInv'
  BY <1>11, SetBlockingSound
<1>12. ASSUME Sock!PollEnds PROVE SockInv'
  BY <1>12, PollEndsSound
<1>13. ASSUME UNCHANGED Sock!vars PROVE SockInv'
  <2>1. SockTypes' /\ CallSound'
    BY <1>13 DEF Sock!vars, SockInv, SockTypes, CallSound, Sock!HasFd
  <2>2. \A h \in Descriptors : Sound(h)'
    BY <1>13 DEF Sock!vars, SockInv, Sound, Owned, Mode, Truth, Sock!HasFd, Waits
  <2> QED BY <2>1, <2>2 DEF SockInv
<1> QED BY <1>1, <1>2, <1>3, <1>4, <1>5, <1>6, <1>7, <1>8, <1>9, <1>10, <1>11, <1>12, <1>13
        DEF Sock!Next

\* The inductive invariant of the sockets: what each structure claims, its mode and
\* its descriptor, with the call that waits.
THEOREM SocketsInv == ASSUME Sock!SocketsAssumption PROVE Sock!Spec => []SockInv
<1>1. Sock!Init => SockInv
  BY SockInitSound
<1>2. SockInv /\ [Sock!Next]_(Sock!vars) => SockInv'
  BY SockNextSound
<1> QED BY <1>1, <1>2, PTL DEF Sock!Spec

\* No descriptor leaks and none is closed twice: the kernel holds a socket exactly for
\* the structures neither closed nor freed, after any failed connect, accept or close.
THEOREM SocketsFdsOwned == ASSUME Sock!SocketsAssumption PROVE Sock!Spec => []Sock!FdsOwned
<1>1. SockInv => Sock!FdsOwned
  BY DEF SockInv, Sound, Owned, Sock!FdsOwned
<1> QED BY <1>1, SocketsInv, PTL

\* Whichever way wingo_sock_connect_timeout ended, the descriptor has the mode that the
\* structure records (socket.c:1040).
THEOREM SocketsBlockingTruthful == ASSUME Sock!SocketsAssumption PROVE Sock!Spec => []Sock!BlockingTruthful
<1>1. SockInv => Sock!BlockingTruthful
  BY DEF SockInv, Sound, Mode, Waits, Sock!BlockingTruthful
<1> QED BY <1>1, SocketsInv, PTL

\* What a structure claims, connected, listening or bound, the kernel confirms.
THEOREM SocketsStateTruthful == ASSUME Sock!SocketsAssumption PROVE Sock!Spec => []Sock!StateTruthful
<1>1. SockInv => Sock!StateTruthful
  BY DEF SockInv, Sound, Truth, Sock!StateTruthful
<1> QED BY <1>1, SocketsInv, PTL
-----------------------------------------------------------------------------
(* Thread objects.                                                         *)

\* An object that is freed has no thread left but a detached one, a thread that was
\* not detached has a valid handle, and one that is over has left its last state.
ThreadInv ==
    /\ Thread!TypeOK
    /\ wrapper # "none" => handle_valid \/ detached
    /\ owner = "freed" /\ wrapper # "none" => detached /\ ~handle_valid
    /\ misused => owner = "freed" /\ detached
    /\ wrapper \in {"none", "begin"} => ~running /\ state # "RUNNING"

LEMMA ThreadStep ==
    ASSUME Thread!ThreadAssumption, ThreadInv, [Thread!Next]_(Thread!vars)
    PROVE  ThreadInv'
<1> USE DEF ThreadInv, Thread!TypeOK, Thread!States, Thread!objectVars
<1>0. starts \in Nat /\ MaxStarts \in Nat
  BY DEF Thread!ThreadAssumption
<1>1. CASE Thread!Start
  <2>1. starts' \in 0..MaxStarts
    BY <1>0, <1>1 DEF Thread!Start
  <2>2. Thread!TypeOK'
    BY <1>1, <2>1, Zenon DEF Thread!Start
  <2> QED BY <1>1, <2>2 DEF Thread!Start
<1>a. CASE Thread!StartFails
  <2>1. Thread!TypeOK'
    BY <1>0, <1>a DEF Thread!StartFails
  <2> QED BY <1>a, <2>1 DEF Thread!StartFails
<1>2. CASE Thread!Stop
  BY <1>2 DEF Thread!Stop
<1>b. CASE Thread!Detach
  <2>1. CASE wrapper = "none"
    BY <1>b, <2>1 DEF Thread!Detach
  <2>2. CASE wrapper # "none"
    BY <1>b, <2>2 DEF Thread!Detach
  <2> QED BY <2>1, <2>2
<1>3. CASE Thread!Join
  BY <1>3 DEF Thread!Join
<1>c. CASE Thread!Joined
  BY <1>c DEF Thread!Joined
<1>4. CASE Thread!Free \/ Thread!Freed
  BY <1>4 DEF Thread!Free, Thread!Freed, Thread!Awaited
<1>5. CASE Thread!WrapperBegins
  BY <1>5 DEF Thread!WrapperBegins, Thread!Touches
<1>6. CASE Thread!FunctionReturns
  BY <1>6 DEF Thread!FunctionReturns
<1>7. CASE Thread!WrapperEnds
  BY <1>7 DEF Thread!WrapperEnds, Thread!Touches
<1>8. CASE UNCHANGED Thread!vars
  BY <1>8 DEF Thread!vars
<1> QED BY <1>1, <1>2, <1>3, <1>4, <1>5, <1>6, <1>7, <1>8, <1>a, <1>b, <1>c DEF Thread!Next

-----------------------------------------------------------------------------
(* Once controls.                                                          *)

\* The mutex is held by whoever stands between its two calls, and the flag is set
\* once the function returned; while it is begun and the flag not set, its caller
\* stands in it.
OnceInv ==
    /\ Once!TypeOK
    /\ \A c \in Controls :
          /\ calls[c] \in 0..1
          /\ flag[c] => calls[c] = 1
          /\ calls[c] = 1 /\ ~flag[c] => \E p \in Callers : place[p] = "func" /\ control[p] = c
    /\ \A p \in Callers :
          /\ place[p] \in {"check", "func", "unlock"} <=> mutex = p
          /\ place[p] # "idle" => control[p] \in Controls
          /\ place[p] = "func" => calls[control[p]] = 1 /\ ~flag[control[p]]
          /\ place[p] \in {"unlock", "returned"} => flag[control[p]]

\* No caller stands in a function that another could be about to begin.
LEMMA OnceAlone ==
    ASSUME Once!OnceAssumption, OnceInv, NEW p \in Callers, place[p] = "check",
           ~flag[control[p]]
    PROVE  calls[control[p]] = 0
<1>1. control[p] \in Controls /\ mutex = p
  BY DEF OnceInv
<1>2. ASSUME calls[control[p]] = 1 PROVE FALSE
  <2>1. PICK q \in Callers : place[q] = "func" /\ control[q] = control[p]
    BY <1>1, <1>2 DEF OnceInv
  <2> QED BY <1>1, <2>1 DEF OnceInv
<1> QED BY <1>1, <1>2 DEF OnceInv

LEMMA OnceStep ==
    ASSUME Once!OnceAssumption, OnceInv, [Once!Next]_(Once!vars)
    PROVE  OnceInv'
<1>0. \A q \in Callers : q # None
  BY DEF Once!OnceAssumption
<1>a. CASE UNCHANGED Once!vars
  BY <1>a DEF Once!vars, OnceInv, Once!TypeOK
<1>b. ASSUME NEW p \in Callers, NEW c \in Controls, Once!Call(p, c) PROVE OnceInv'
  BY <1>b DEF Once!Call, Once!At, OnceInv, Once!TypeOK, Once!Places
<1>c. ASSUME NEW p \in Callers, Once!FastPath(p) PROVE OnceInv'
  <2>1. CASE flag[control[p]]
    BY <1>c, <2>1 DEF Once!FastPath, Once!At, OnceInv, Once!TypeOK, Once!Places
  <2>2. CASE ~flag[control[p]]
    BY <1>c, <2>2 DEF Once!FastPath, Once!At, OnceInv, Once!TypeOK, Once!Places
  <2> QED BY <2>1, <2>2
<1>d. ASSUME NEW p \in Callers, Once!Lock(p) PROVE OnceInv'
  BY <1>0, <1>d DEF Once!Lock, Once!At, OnceInv, Once!TypeOK, Once!Places
<1>e. ASSUME NEW p \in Callers, Once!DoubleCheck(p) PROVE OnceInv'
  <2>1. CASE flag[control[p]]
    BY <1>e, <2>1 DEF Once!DoubleCheck, Once!At, OnceInv, Once!TypeOK, Once!Places
  <2>2. CASE ~flag[control[p]]
    <3>1. calls[control[p]] = 0 /\ control[p] \in Controls
      BY <1>e, <2>2, OnceAlone DEF Once!DoubleCheck, Once!At, OnceInv
    <3> QED BY <1>e, <2>2, <3>1 DEF Once!DoubleCheck, Once!At, OnceInv, Once!TypeOK, Once!Places
  <2> QED BY <2>1, <2>2
<1>f. ASSUME NEW p \in Callers, Once!Mark(p) PROVE OnceInv'
  BY <1>f DEF Once!Mark, Once!At, OnceInv, Once!TypeOK, Once!Places
<1>g. ASSUME NEW p \in Callers, Once!Unlock(p) PROVE OnceInv'
  BY <1>0, <1>g DEF Once!Unlock, Once!At, OnceInv, Once!TypeOK, Once!Places
<1> QED BY <1>a, <1>b, <1>c, <1>d, <1>e, <1>f, <1>g DEF Once!Next

\* thread.c: in every state that starts, failed starts, stops, joins, detaches and
\* frees reach beside the running thread, and in every state that any callers of
\* wingo_once reach, the object and the controls are sound.
THEOREM PartsThreadsSafe ==
    ASSUME Thread!ThreadAssumption, Once!OnceAssumption
    PROVE  Thread!Spec /\ Once!Spec => []ThreadsSafe
<1>1. Thread!Init => ThreadInv
  <2>1. 0 \in 0..MaxStarts
    BY DEF Thread!ThreadAssumption
  <2> QED BY <2>1 DEF Thread!Init, ThreadInv, Thread!TypeOK, Thread!States
<1>2. ThreadInv /\ [Thread!Next]_(Thread!vars) => ThreadInv'
  BY ThreadStep
<1>3. Once!Init => OnceInv
  BY DEF Once!Init, OnceInv, Once!TypeOK, Once!Places, Once!OnceAssumption
<1>4. OnceInv /\ [Once!Next]_(Once!vars) => OnceInv'
  BY OnceStep
<1>5. ThreadInv /\ OnceInv => ThreadsSafe
  BY DEF ThreadsSafe, ThreadInv, OnceInv, Thread!OnlyDetachedOutlives, Thread!JoinedIsOver,
         Once!ExactlyOnce, Thread!TypeOK
<1> QED BY <1>1, <1>2, <1>3, <1>4, <1>5, PTL DEF Thread!Spec, Once!Spec
-----------------------------------------------------------------------------
(* Data over a socket.                                                     *)

\* A sequence cut after its first n elements.
LEMMA CutFacts ==
    ASSUME NEW S, NEW s \in Seq(S), NEW n \in 0..Len(s)
    PROVE  /\ SubSeq(s, 1, n) \in Seq(S) /\ Len(SubSeq(s, 1, n)) = n
           /\ \A i \in 1..n : SubSeq(s, 1, n)[i] = s[i]
           /\ SubSeq(s, n + 1, Len(s)) \in Seq(S) /\ Len(SubSeq(s, n + 1, Len(s))) = Len(s) - n
           /\ \A i \in 1..(Len(s) - n) : SubSeq(s, n + 1, Len(s))[i] = s[i + n]
<1>1. Len(s) \in Nat /\ n \in Nat
  OBVIOUS
<1>2. /\ SubSeq(s, 1, n) \in Seq(S) /\ Len(SubSeq(s, 1, n)) = n
      /\ \A i \in 1..n : SubSeq(s, 1, n)[i] = s[i]
  BY <1>1
<1>3. SubSeq(s, n + 1, Len(s)) \in Seq(S) /\ Len(SubSeq(s, n + 1, Len(s))) = Len(s) - n
  BY <1>1
<1>4. \A i \in 1..(Len(s) - n) : SubSeq(s, n + 1, Len(s))[i] = s[i + n]
  BY <1>1
<1> QED BY <1>2, <1>3, <1>4

\* The bytes sent are those received and then those on the way, numbered from one on;
\* what is still to be sent follows them.
StreamTypes ==
    /\ wpc \in {"idle", "send", "poll"} /\ outcome \in {"none", "SUCCESS", "TIMEOUT", "ERROR"}
    /\ ptr \in Nat /\ asked \in 0..MaxBytes /\ remaining \in 0..MaxLen
    /\ wire \in Seq(Nat) /\ received \in Seq(Nat)

StreamInv ==
    /\ StreamTypes
    /\ ptr <= asked
    /\ Len(received) + Len(wire) = ptr
    /\ \A i \in 1..Len(received) : received[i] = i
    /\ \A i \in 1..Len(wire) : wire[i] = Len(received) + i
    /\ wpc = "idle" /\ outcome \in {"none", "SUCCESS"} => ptr = asked
    /\ wpc # "idle" => ptr + remaining = asked

\* send: n more bytes are on the way.
LEMMA StreamSend ==
    ASSUME Stream!SockStreamAssumption, StreamInv, NEW n \in 1..MaxLen, Stream!Send(n)
    PROVE  StreamInv'
<1> DEFINE more == [i \in 1..n |-> ptr + i]
<1>0. /\ n \in Nat /\ ptr \in Nat /\ wire \in Seq(Nat) /\ received \in Seq(Nat)
      /\ Len(wire) \in Nat /\ Len(received) \in Nat /\ remaining \in Nat /\ asked \in Nat
      /\ MaxLen \in Nat /\ MaxBytes \in Nat
  BY DEF StreamInv, StreamTypes, Stream!SockStreamAssumption
<1>1. more \in Seq(Nat) /\ Len(more) = n /\ \A i \in 1..n : more[i] = ptr + i
  BY <1>0
<1>2. /\ wpc = "send" /\ n <= remaining /\ wire' = wire \o more /\ ptr' = ptr + n
      /\ remaining' = remaining - n /\ UNCHANGED <<wpc, asked, received, outcome>>
  BY DEF Stream!Send
<1> HIDE DEF more
<1>3. /\ wire' \in Seq(Nat) /\ Len(wire') = Len(wire) + n
      /\ \A i \in 1..(Len(wire) + n) :
            wire'[i] = IF i <= Len(wire) THEN wire[i] ELSE more[i - Len(wire)]
  BY <1>0, <1>1, <1>2, ConcatFacts
<1>4. \A i \in 1..Len(wire') : wire'[i] = Len(received) + i
  <2> SUFFICES ASSUME NEW i \in 1..(Len(wire) + n) PROVE wire'[i] = Len(received) + i
    BY <1>3
  <2>1. CASE i <= Len(wire)
    <3>1. i \in 1..Len(wire) /\ wire'[i] = wire[i]
      BY <1>0, <1>3, <2>1
    <3> QED BY <3>1 DEF StreamInv
  <2>2. CASE ~(i <= Len(wire))
    <3>1. i - Len(wire) \in 1..n
      BY <1>0, <2>2
    <3>a. wire'[i] = more[i - Len(wire)]
      BY <1>3, <2>2
    <3>2. wire'[i] = ptr + (i - Len(wire))
      BY <1>1, <3>1, <3>a
    <3> QED BY <1>0, <3>2 DEF StreamInv
  <2> QED BY <2>1, <2>2
<1>5. /\ ptr' \in Nat /\ remaining' \in 0..MaxLen /\ ptr' <= asked'
      /\ Len(received') + Len(wire') = ptr' /\ ptr' + remaining' = asked'
  <2>1. /\ Len(received) + Len(wire) = ptr /\ ptr + remaining = asked /\ remaining <= MaxLen
        /\ received' = received
    BY <1>0, <1>2 DEF StreamInv, StreamTypes
  <2>2. ptr' = ptr + n /\ asked' = asked /\ remaining' = remaining - n /\ n <= remaining
    BY <1>2
  <2>3. ptr' \in Nat /\ ptr' <= asked' /\ ptr' + remaining' = asked' /\ remaining' \in 0..MaxLen
    BY <1>0, <2>1, <2>2
  <2>4. Len(received') = Len(received)
    BY <2>1
  <2>5. Len(received') + Len(wire') = ptr'
    <3>1. Len(wire') = Len(wire) + n
      BY <1>3
    <3>2. Len(received) + (Len(wire) + n) = ptr + n
      BY <1>0, <2>1
    <3> QED BY <2>2, <2>4, <3>1, <3>2
  <2> QED BY <2>3, <2>5
<1> QED BY <1>2, <1>3, <1>4, <1>5 DEF StreamInv, StreamTypes

\* recv at the other end: n bytes have arrived.
LEMMA StreamRecv ==
    ASSUME StreamInv, NEW n \in Nat \ {0}, Stream!Recv(n)
    PROVE  StreamInv'
<1> DEFINE first == SubSeq(wire, 1, n)
           rest == SubSeq(wire, n + 1, Len(wire))
<1>0. /\ ptr \in Nat /\ wire \in Seq(Nat) /\ received \in Seq(Nat)
      /\ Len(wire) \in Nat /\ Len(received) \in Nat
  BY DEF StreamInv, StreamTypes
<1>1. /\ n \in 0..Len(wire) /\ received' = received \o first /\ wire' = rest
      /\ UNCHANGED <<wpc, ptr, remaining, asked, outcome>>
  BY <1>0 DEF Stream!Recv
<1>2. first \in Seq(Nat) /\ Len(first) = n /\ \A i \in 1..n : first[i] = wire[i]
  BY <1>0, <1>1, CutFacts
<1>3. /\ rest \in Seq(Nat) /\ Len(rest) = Len(wire) - n
      /\ \A i \in 1..(Len(wire) - n) : rest[i] = wire[i + n]
  BY <1>0, <1>1, CutFacts
<1> HIDE DEF first, rest
<1>4. /\ received' \in Seq(Nat) /\ Len(received') = Len(received) + n
      /\ \A i \in 1..(Len(received) + n) :
            received'[i] = IF i <= Len(received) THEN received[i] ELSE first[i - Len(received)]
  BY <1>0, <1>1, <1>2, ConcatFacts
<1>5. \A i \in 1..Len(received') : received'[i] = i
  <2> SUFFICES ASSUME NEW i \in 1..(Len(received) + n) PROVE received'[i] = i
    BY <1>4
  <2>1. CASE i <= Len(received)
    <3>1. i \in 1..Len(received) /\ received'[i] = received[i]
      BY <1>0, <1>4, <2>1
    <3> QED BY <3>1 DEF StreamInv
  <2>2. CASE ~(i <= Len(received))
    <3>1. /\ i - Len(received) \in 1..n /\ i - Len(received) \in 1..Len(wire)
          /\ received'[i] = first[i - Len(received)]
      BY <1>0, <1>1, <1>4, <2>2
    <3>2. received'[i] = Len(received) + (i - Len(received))
      BY <1>2, <3>1 DEF StreamInv
    <3> QED BY <1>0, <3>2
  <2> QED BY <2>1, <2>2
<1>6. \A i \in 1..Len(wire') : wire'[i] = Len(received') + i
  <2> SUFFICES ASSUME NEW i \in 1..(Len(wire) - n)
               PROVE  rest[i] = Len(received) + n + i
    BY <1>1, <1>3, <1>4
  <2>1. i + n \in 1..Len(wire) /\ rest[i] = wire[i + n]
    BY <1>0, <1>1, <1>3
  <2>2. rest[i] = Len(received) + (i + n)
    BY <2>1 DEF StreamInv
  <2> QED BY <1>0, <2>2
<1>7. wire' \in Seq(Nat) /\ Len(wire') = Len(wire) - n
  BY <1>1, <1>3
<1>8. Len(received') + Len(wire') = ptr'
  <2>1. Len(received) + Len(wire) = ptr /\ ptr' = ptr
    BY <1>1 DEF StreamInv
  <2>2. Len(received') = Len(received) + n /\ Len(wire') = Len(wire) - n /\ n \in Int
    BY <1>4, <1>7
  <2>3. (Len(received) + n) + (Len(wire) - n) = ptr
    <3>1. \A x, y, z \in Int : x + y = z => (x + n) + (y - n) = z
      BY <2>2
    <3> QED BY <1>0, <2>1, <3>1
  <2> QED BY <2>1, <2>2, <2>3
<1> QED BY <1>1, <1>4, <1>5, <1>6, <1>7, <1>8 DEF StreamInv, StreamTypes

LEMMA StreamStep ==
    ASSUME Stream!SockStreamAssumption, StreamInv, [Stream!Next]_(Stream!vars)
    PROVE  StreamInv'
<1>0. /\ MaxBytes \in Nat /\ MaxLen \in Nat /\ Room \in Nat
      /\ ptr \in Nat /\ asked \in Nat /\ remaining \in Nat
  BY DEF Stream!SockStreamAssumption, StreamInv, StreamTypes
<1>1. ASSUME NEW n \in 1..MaxLen, Stream!SendAll(n) PROVE StreamInv'
  <2>1. asked' \in 0..MaxBytes /\ remaining' \in 0..MaxLen
    BY <1>0, <1>1 DEF Stream!SendAll
  <2>2. ptr' <= asked' /\ ptr' + remaining' = asked' /\ wpc' = "send"
    BY <1>0, <1>1 DEF Stream!SendAll, StreamInv
  <2> QED BY <1>1, <2>1, <2>2 DEF Stream!SendAll, StreamInv, StreamTypes
<1>2. ASSUME NEW n \in 1..MaxLen, Stream!Send(n) PROVE StreamInv'
  BY <1>2, StreamSend
<1>3. ASSUME NEW n \in 1..Room, Stream!Recv(n) PROVE StreamInv'
  BY <1>0, <1>3, StreamRecv
<1>4. CASE Stream!WouldBlock
  BY <1>4 DEF Stream!WouldBlock, StreamInv, StreamTypes
<1>5. CASE Stream!Writable
  BY <1>5 DEF Stream!Writable, StreamInv, StreamTypes
<1>6. CASE Stream!Done
  <2>1. ptr = asked /\ 0 \in 0..MaxLen
    BY <1>0, <1>6 DEF Stream!Done, StreamInv
  <2> QED BY <1>6, <2>1 DEF Stream!Done, Stream!Return, StreamInv, StreamTypes
<1>7. CASE Stream!Fails
  <2>1. 0 \in 0..MaxLen /\ outcome' \in {"TIMEOUT", "ERROR"}
    BY <1>0, <1>7 DEF Stream!Fails, Stream!Return
  <2> QED BY <1>7, <2>1 DEF Stream!Fails, Stream!Return, StreamInv, StreamTypes
<1>8. CASE UNCHANGED Stream!vars
  BY <1>8 DEF Stream!vars, StreamInv, StreamTypes
<1> QED BY <1>1, <1>2, <1>3, <1>4, <1>5, <1>6, <1>7, <1>8 DEF Stream!Next

\* What the invariant says of the bytes.
LEMMA StreamSound ==
    ASSUME Stream!SockStreamAssumption, StreamInv
    PROVE  Stream!TypeOK /\ Stream!InOrder
<1>0. /\ ptr \in Nat /\ wire \in Seq(Nat) /\ received \in Seq(Nat) /\ MaxBytes \in Nat
      /\ asked \in 0..MaxBytes /\ Len(wire) \in Nat /\ Len(received) \in Nat
      /\ Len(received) + Len(wire) = ptr /\ ptr <= asked
  BY DEF StreamInv, StreamTypes, Stream!SockStreamAssumption
<1>1. \A i \in 1..Len(wire) : wire[i] \in 1..MaxBytes
  <2> SUFFICES ASSUME NEW i \in 1..Len(wire) PROVE wire[i] \in 1..MaxBytes
    OBVIOUS
  <2>1. wire[i] = Len(received) + i
    BY DEF StreamInv
  <2> QED BY <1>0, <2>1
<1>2. \A i \in 1..Len(received) : received[i] \in 1..MaxBytes
  <2> SUFFICES ASSUME NEW i \in 1..Len(received) PROVE received[i] \in 1..MaxBytes
    OBVIOUS
  <2>1. received[i] = i
    BY DEF StreamInv
  <2> QED BY <1>0, <2>1
<1>3. wire \in Seq(1..MaxBytes) /\ received \in Seq(1..MaxBytes)
  BY <1>0, <1>1, <1>2, SeqOver
<1>4. ptr \in 0..MaxBytes
  BY <1>0
<1>5. received \o wire = [i \in 1..ptr |-> i]
  <2>1. received \o wire \in Seq(Nat) /\ Len(received \o wire) = ptr
    BY <1>0, ConcatFacts
  <2>2. \A i \in 1..ptr : (received \o wire)[i] = i
    <3> SUFFICES ASSUME NEW i \in 1..ptr PROVE (received \o wire)[i] = i
      OBVIOUS
    <3>1. CASE i <= Len(received)
      <4>1. i \in 1..Len(received) /\ (received \o wire)[i] = received[i]
        BY <1>0, <3>1, ConcatFacts
      <4> QED BY <4>1 DEF StreamInv
    <3>2. CASE ~(i <= Len(received))
      <4>1. /\ i - Len(received) \in 1..Len(wire)
            /\ (received \o wire)[i] = wire[i - Len(received)]
        BY <1>0, <3>2, ConcatFacts
      <4>2. wire[i - Len(received)] = Len(received) + (i - Len(received))
        BY <4>1 DEF StreamInv
      <4> QED BY <1>0, <4>1, <4>2
    <3> QED BY <3>1, <3>2
  <2> DEFINE all == received \o wire
  <2> HIDE DEF all
  <2>3. all \in Seq(Nat) /\ Len(all) = ptr /\ \A i \in 1..ptr : all[i] = i
    BY <2>1, <2>2 DEF all
  <2>4. all = [i \in 1..ptr |-> all[i]]
    BY <2>3
  <2> QED BY <2>3, <2>4 DEF all
<1> QED BY <1>3, <1>4, <1>5 DEF StreamInv, StreamTypes, Stream!TypeOK, Stream!InOrder
-----------------------------------------------------------------------------
(* Addresses.                                                              *)

LEMMA AddressFacts ==
    ASSUME NEW a \in Addr!Address
    PROVE  /\ a.family \in {"IPv4", "IPv6"} /\ a.ip \in Seq(Addr!Byte) /\ a.port \in Addr!Port
           /\ \A b \in Addr!Address :
                 a = b <=> a.family = b.family /\ a.ip = b.ip /\ a.port = b.port
           /\ \A f, s : LET m == [a EXCEPT !.family = f, !.ip = s]
                        IN  m.family = f /\ m.ip = s
BY DEF Addr!Address

LEMMA AddressTypes ==
    ASSUME Addr!AddressesAssumption, NEW a \in AllAddrs
    PROVE  /\ a \in Addr!Address
           /\ a.family = "IPv4" => Len(a.ip) = 4
           /\ a.family = "IPv6" => Len(a.ip) = 16
BY DEF Addr!AddressesAssumption

\* i is the first place where two sequences differ.
First(i, s, t) ==
    /\ i \in 1..Len(s) /\ s[i] # t[i]
    /\ \A j \in 1..Len(s) : j < i => s[j] = t[j]

Bytes(s, t) ==
    s \in Seq(Addr!Byte) /\ t \in Seq(Addr!Byte) /\ Len(s) = Len(t)

LEMMA InBytes ==
    ASSUME NEW s \in Seq(Addr!Byte) PROVE \A i \in 1..Len(s) : s[i] \in 0..255
BY InSeq DEF Addr!Byte

LEMMA FirstOrNone ==
    ASSUME NEW s, NEW t, Bytes(s, t)
    PROVE  s = t \/ \E i \in 1..Len(s) : First(i, s, t)
<1> DEFINE T == {i \in 1..Len(s) : s[i] # t[i]}
<1>0. Len(s) \in Nat
  BY DEF Bytes
<1>1. CASE T = {}
  <2>1. \A i \in 1..Len(s) : s[i] = t[i]
    BY <1>1
  <2> QED BY <2>1 DEF Bytes
<1>2. CASE T # {}
  <2>1. T \in SUBSET Nat
    BY <1>0
  <2> HIDE DEF T
  <2>2. PICK i \in T : \A j \in T : i <= j
    BY <1>2, <2>1, LeastOf
  <2>3. i \in 1..Len(s) /\ s[i] # t[i]
    BY <2>2 DEF T
  <2>4. \A j \in 1..Len(s) : j < i => s[j] = t[j]
    BY <1>0, <2>2, <2>3 DEF T
  <2> QED BY <2>3, <2>4 DEF First
<1> QED BY <1>1, <1>2

LEMMA PortIsNumber == \A p \in Addr!Port : p \in Int
BY DEF Addr!Port

\* memcmp answers by that place.
LEMMA MemcmpAt ==
    ASSUME NEW s, NEW t, Bytes(s, t), NEW i, First(i, s, t)
    PROVE  Addr!Memcmp(s, t) = s[i] - t[i]
<1> DEFINE differ == {j \in 1..Len(s) : s[j] # t[j]}
           least == CHOOSE j \in differ : \A k \in differ : j <= k
<1>0. Len(s) \in Nat
  BY DEF Bytes
<1>1. i \in differ /\ \A k \in differ : i <= k
  BY <1>0 DEF First
<1>2. differ \subseteq Int
  BY <1>0
<1> HIDE DEF differ
<1>3. least \in differ /\ \A k \in differ : least <= k
  BY <1>1
<1>4. least = i
  <2>1. i \in Int /\ least \in Int /\ i <= least /\ least <= i
    BY <1>1, <1>2, <1>3
  <2> HIDE DEF least
  <2> QED BY <2>1
<1>5. Addr!Memcmp(s, t) = s[least] - t[least]
  BY <1>1 DEF Addr!Memcmp, differ
<1> QED BY <1>4, <1>5

LEMMA MemcmpSame == ASSUME NEW s PROVE Addr!Memcmp(s, s) = 0
BY DEF Addr!Memcmp

\* It is a strict order of sequences as long as each other, total but for equal ones.
LEMMA MemcmpOrder ==
    ASSUME NEW s, NEW t, Bytes(s, t)
    PROVE  /\ Addr!Memcmp(s, t) \in Int
           /\ Addr!Memcmp(s, t) = 0 <=> s = t
           /\ Addr!Memcmp(s, t) < 0 <=> Addr!Memcmp(t, s) > 0
           /\ Addr!Memcmp(s, t) > 0 <=> Addr!Memcmp(t, s) < 0
<1>1. CASE s = t
  BY <1>1, MemcmpSame
<1>2. CASE s # t
  <2>1. PICK i \in 1..Len(s) : First(i, s, t)
    BY <1>2, FirstOrNone
  <2>2. Bytes(t, s) /\ First(i, t, s)
    BY <2>1 DEF Bytes, First
  <2>3. Addr!Memcmp(s, t) = s[i] - t[i] /\ Addr!Memcmp(t, s) = t[i] - s[i]
    BY <2>1, <2>2, MemcmpAt
  <2>4. s[i] \in 0..255 /\ t[i] \in 0..255 /\ s[i] # t[i]
    BY <2>1, InBytes DEF Bytes, First
  <2>5. \A p, q \in 0..255 : p # q =>
            p - q \in Int /\ p - q # 0 /\ (p - q < 0 <=> q - p > 0) /\ (p - q > 0 <=> q - p < 0)
    OBVIOUS
  <2>6. LET p == s[i] q == t[i] IN
            p - q \in Int /\ p - q # 0 /\ (p - q < 0 <=> q - p > 0) /\ (p - q > 0 <=> q - p < 0)
    BY <2>4, <2>5
  <2> QED BY <1>2, <2>3, <2>6
<1> QED BY <1>1, <1>2

LEMMA MemcmpTransitive ==
    ASSUME NEW s, NEW t, NEW u, Bytes(s, t), Bytes(t, u),
           Addr!Memcmp(s, t) < 0, Addr!Memcmp(t, u) < 0
    PROVE  Addr!Memcmp(s, u) < 0
<1>1. s # t /\ t # u
  BY MemcmpSame
<1>2. PICK i \in 1..Len(s) : First(i, s, t)
  BY <1>1, FirstOrNone
<1>3. PICK j \in 1..Len(t) : First(j, t, u)
  BY <1>1, FirstOrNone
<1>4. /\ Addr!Memcmp(s, t) = s[i] - t[i] /\ Addr!Memcmp(t, u) = t[j] - u[j]
      /\ Len(s) = Len(t) /\ Len(t) = Len(u) /\ Len(s) \in Nat /\ Bytes(s, u)
  BY <1>2, <1>3, MemcmpAt DEF Bytes
<1>5. \A k \in 1..Len(s) : s[k] \in 0..255 /\ t[k] \in 0..255 /\ u[k] \in 0..255
  BY <1>4, InBytes DEF Bytes
<1>a. \A p, q \in 0..255 : p - q < 0 => p < q
  OBVIOUS
<1>b. \A p, q \in 0..255 : p < q => p # q /\ p - q < 0
  OBVIOUS
<1>c. \A p, q, r \in 0..255 : p < q /\ q < r => p < r
  OBVIOUS
<1>d. i \in 1..Len(s) /\ j \in 1..Len(s) /\ i \in Int /\ j \in Int
  BY <1>2, <1>3, <1>4
<1>6. s[i] < t[i] /\ t[j] < u[j]
  BY <1>4, <1>5, <1>a, <1>d
<1>7. CASE i <= j
  <2>0. i < j \/ i = j
    BY <1>7, <1>d
  <2>a. i < j => t[i] = u[i]
    BY <1>3, <1>4, <1>d DEF First
  <2>1. s[i] < u[i]
    BY <1>5, <1>6, <1>c, <1>d, <2>0, <2>a
  <2>2. ASSUME NEW k \in 1..Len(s), k < i PROVE s[k] = u[k]
    <3>1. s[k] = t[k]
      BY <1>2, <2>2 DEF First
    <3>2. k \in 1..Len(t) /\ k < j
      BY <1>4, <1>7, <1>d, <2>2
    <3> QED BY <1>3, <3>1, <3>2 DEF First
  <2>3. First(i, s, u) /\ s[i] - u[i] < 0
    BY <1>5, <1>b, <1>d, <2>1, <2>2 DEF First
  <2> QED BY <1>4, <2>3, MemcmpAt
<1>8. CASE j < i
  <2>a. s[j] = t[j]
    BY <1>2, <1>8, <1>d DEF First
  <2>1. s[j] < u[j]
    BY <1>6, <2>a
  <2>2. ASSUME NEW k \in 1..Len(s), k < j PROVE s[k] = u[k]
    <3>1. t[k] = u[k]
      BY <1>3, <1>4, <2>2 DEF First
    <3>2. k < i
      BY <1>8, <1>d, <2>2
    <3> QED BY <1>2, <3>1, <3>2 DEF First
  <2>3. First(j, s, u) /\ s[j] - u[j] < 0
    BY <1>5, <1>b, <1>d, <2>1, <2>2 DEF First
  <2> QED BY <1>4, <2>3, MemcmpAt
<1> QED BY <1>2, <1>3, <1>4, <1>7, <1>8

LEMMA AddressesOrdered == ASSUME Addr!AddressesAssumption PROVE Addr!Ordered
<1>1. ASSUME NEW x \in AllAddrs, NEW y \in AllAddrs
      PROVE  /\ x.port \in Int /\ y.port \in Int /\ x.family \in {"IPv4", "IPv6"}
             /\ x.family = y.family => Bytes(x.ip, y.ip)
             /\ x = y <=> x.family = y.family /\ x.ip = y.ip /\ x.port = y.port
  <2>1. x \in Addr!Address /\ y \in Addr!Address
    BY AddressTypes
  <2>4. x = y <=> x.family = y.family /\ x.ip = y.ip /\ x.port = y.port
    BY <2>1, AddressFacts
  <2>5. /\ x.family \in {"IPv4", "IPv6"} /\ x.ip \in Seq(Addr!Byte) /\ x.port \in Int
        /\ y.ip \in Seq(Addr!Byte) /\ y.port \in Int
    <3>1. \A p \in Addr!Port : p \in Int
      BY PortIsNumber
    <3> QED BY <2>1, <3>1, AddressFacts
  <2>6. x.family = y.family => Len(x.ip) = Len(y.ip)
    BY <2>1, AddressFacts, AddressTypes
  <2> QED BY <2>4, <2>5, <2>6 DEF Bytes
<1>2. ASSUME NEW x \in AllAddrs, NEW y \in AllAddrs
      PROVE  /\ Addr!Cmp(x, y) = 0 <=> x = y
             /\ Addr!Cmp(x, y) < 0 <=> Addr!Cmp(y, x) > 0
  <2>1. CASE x.family # y.family
    BY <1>1, <2>1 DEF Addr!Cmp
  <2>2. CASE x.family = y.family
    <3>1. Bytes(x.ip, y.ip) /\ Bytes(y.ip, x.ip)
      BY <1>1, <2>2
    <3>2. CASE x.ip = y.ip
      <4>1. Addr!Cmp(x, y) = x.port - y.port /\ Addr!Cmp(y, x) = y.port - x.port
        BY <2>2, <3>2, MemcmpSame DEF Addr!Cmp
      <4> QED BY <1>1, <2>2, <3>2, <4>1
    <3>3. CASE x.ip # y.ip
      <4>1. /\ Addr!Cmp(x, y) = Addr!Memcmp(x.ip, y.ip)
            /\ Addr!Cmp(y, x) = Addr!Memcmp(y.ip, x.ip)
        BY <2>2, <3>1, <3>3, MemcmpOrder DEF Addr!Cmp
      <4> QED BY <1>1, <3>1, <3>3, <4>1, MemcmpOrder
    <3> QED BY <3>2, <3>3
  <2> QED BY <2>1, <2>2
<1>3. ASSUME NEW x \in AllAddrs, NEW y \in AllAddrs, NEW z \in AllAddrs,
             Addr!Cmp(x, y) <= 0, Addr!Cmp(y, z) <= 0
      PROVE  Addr!Cmp(x, z) <= 0
  <2>1. CASE x.family # y.family \/ y.family # z.family
    BY <1>1, <1>3, <2>1 DEF Addr!Cmp
  <2>2. CASE x.family = y.family /\ y.family = z.family
    <3>1. Bytes(x.ip, y.ip) /\ Bytes(y.ip, z.ip) /\ Bytes(x.ip, z.ip)
      BY <1>1, <2>2
    <3>2. /\ Addr!Memcmp(x.ip, y.ip) \in Int /\ Addr!Memcmp(y.ip, z.ip) \in Int
          /\ Addr!Memcmp(x.ip, z.ip) \in Int
      BY <3>1, MemcmpOrder
    <3>3. CASE x.ip = y.ip /\ y.ip = z.ip
      <4>1. /\ Addr!Cmp(x, y) = x.port - y.port /\ Addr!Cmp(y, z) = y.port - z.port
            /\ Addr!Cmp(x, z) = x.port - z.port
        BY <2>2, <3>3, MemcmpSame DEF Addr!Cmp
      <4> QED BY <1>1, <1>3, <4>1
    <3>4. CASE x.ip # y.ip /\ y.ip = z.ip
      <4>1. Addr!Memcmp(x.ip, y.ip) # 0 /\ Addr!Memcmp(x.ip, y.ip) <= 0
        BY <1>3, <2>2, <3>1, <3>4, MemcmpOrder DEF Addr!Cmp
      <4> QED BY <2>2, <3>4, <4>1 DEF Addr!Cmp
    <3>5. CASE x.ip = y.ip /\ y.ip # z.ip
      <4>1. Addr!Memcmp(y.ip, z.ip) # 0 /\ Addr!Memcmp(y.ip, z.ip) <= 0
        BY <1>3, <2>2, <3>1, <3>5, MemcmpOrder DEF Addr!Cmp
      <4> QED BY <2>2, <3>5, <4>1 DEF Addr!Cmp
    <3>6. CASE x.ip # y.ip /\ y.ip # z.ip
      <4>1. Addr!Memcmp(x.ip, y.ip) # 0 /\ Addr!Memcmp(x.ip, y.ip) <= 0
        BY <1>3, <2>2, <3>1, <3>6, MemcmpOrder DEF Addr!Cmp
      <4>2. Addr!Memcmp(y.ip, z.ip) # 0 /\ Addr!Memcmp(y.ip, z.ip) <= 0
        BY <1>3, <2>2, <3>1, <3>6, MemcmpOrder DEF Addr!Cmp
      <4>3. Addr!Memcmp(x.ip, z.ip) < 0
        BY <3>1, <3>2, <4>1, <4>2, MemcmpTransitive
      <4> QED BY <2>2, <3>2, <4>3 DEF Addr!Cmp
    <3> QED BY <3>3, <3>4, <3>5, <3>6
  <2> QED BY <2>1, <2>2
<1> QED BY <1>2, <1>3 DEF Addr!Ordered

LEMMA AddressesClasses == ASSUME Addr!AddressesAssumption PROVE Addr!ClassesAgree
<1> SUFFICES ASSUME NEW x \in AllAddrs
             PROVE  /\ Addr!IsLoopback(x) \/ Addr!IsMulticast(x) \/ Addr!IsUnspecified(x)
                          => Addr!IsMartian(x)
                    /\ x.family = "IPv4" =>
                          LET m == [x EXCEPT !.family = "IPv6",
                                       !.ip = [i \in 1..10 |-> 0] \o <<255, 255>> \o x.ip]
                          IN  Addr!IsMapped(m) /\ (Addr!IsMartian(m) <=> Addr!IsMartian(x))
  BY DEF Addr!ClassesAgree
<1>0. /\ x \in Addr!Address /\ x.family \in {"IPv4", "IPv6"} /\ x.ip \in Seq(Addr!Byte)
  BY AddressTypes, AddressFacts
<1>4. x.family = "IPv4" => Len(x.ip) = 4
  BY AddressTypes
<1>6. x.family = "IPv6" => Len(x.ip) = 16
  BY AddressTypes
<1>1. Addr!IsLoopback(x) \/ Addr!IsMulticast(x) \/ Addr!IsUnspecified(x) => Addr!IsMartian(x)
  <2>1. CASE x.family = "IPv4"
    <3>1. Addr!IsUnspecified(x) => x.ip[1] = 0
      BY <1>4, <2>1 DEF Addr!IsUnspecified, Addr!Zeros
    <3> QED BY <2>1, <3>1 DEF Addr!IsLoopback, Addr!IsMulticast, Addr!IsMartian, Addr!IPv4IsMartian
  <2>2. CASE x.family = "IPv6"
    <3>1. Addr!IsLoopback(x) \/ Addr!IsUnspecified(x) => x.ip[11] = 0
      BY <1>6, <2>2 DEF Addr!IsLoopback, Addr!IsUnspecified, Addr!Zeros
    <3>2. Addr!IsMapped(x) => x.ip[1] = 0 /\ x.ip[11] = 255
      BY DEF Addr!IsMapped, Addr!Zeros
    <3>3. Addr!IsMulticast(x) => x.ip[1] = 255
      BY <2>2 DEF Addr!IsMulticast
    <3> QED BY <2>2, <3>1, <3>2, <3>3 DEF Addr!IsMartian, Addr!IPv6IsMartian
  <2> QED BY <1>0, <2>1, <2>2
<1>2. ASSUME x.family = "IPv4"
      PROVE  LET m == [x EXCEPT !.family = "IPv6",
                                !.ip = [i \in 1..10 |-> 0] \o <<255, 255>> \o x.ip]
             IN  Addr!IsMapped(m) /\ (Addr!IsMartian(m) <=> Addr!IsMartian(x))
  <2> DEFINE zeros == [i \in 1..10 |-> 0]
             pair == <<255, 255>>
             prefix == zeros \o pair
             ip == prefix \o x.ip
             m == [x EXCEPT !.family = "IPv6", !.ip = ip]
  <2>1. zeros \in Seq(Addr!Byte) /\ Len(zeros) = 10
    BY DEF Addr!Byte
  <2>2. \A i \in 1..10 : zeros[i] = 0
    OBVIOUS
  <2>3. pair \in Seq(Addr!Byte) /\ Len(pair) = 2
    BY DEF Addr!Byte
  <2>4. pair[1] = 255 /\ pair[2] = 255
    OBVIOUS
  <2> HIDE DEF zeros, pair
  <2>5. prefix \in Seq(Addr!Byte) /\ Len(prefix) = 12
    <3>1. Len(zeros) + Len(pair) = 12
      BY <2>1, <2>3
    <3>2. prefix \in Seq(Addr!Byte) /\ Len(prefix) = Len(zeros) + Len(pair)
      BY <2>1, <2>3, ConcatFacts
    <3> QED BY <3>1, <3>2
  <2>6. prefix[11] = 255 /\ prefix[12] = 255 /\ \A i \in 1..10 : prefix[i] = 0
    <3>1. \A i \in 1..(Len(zeros) + Len(pair)) :
              prefix[i] = IF i <= Len(zeros) THEN zeros[i] ELSE pair[i - Len(zeros)]
      BY <2>1, <2>3, ConcatFacts
    <3>a. Len(zeros) = 10 /\ Len(pair) = 2 /\ Len(zeros) + Len(pair) = 12
      BY <2>1, <2>3
    <3> HIDE DEF prefix
    <3>2. \A i \in 1..12 : prefix[i] = IF i <= 10 THEN zeros[i] ELSE pair[i - 10]
      BY <3>1, <3>a
    <3>3. prefix[11] = pair[1] /\ prefix[12] = pair[2]
      BY <3>2
    <3>4. \A i \in 1..10 : prefix[i] = zeros[i]
      BY <3>2
    <3> QED BY <2>2, <2>4, <3>3, <3>4
  <2> HIDE DEF prefix
  <2>7. ip \in Seq(Addr!Byte) /\ Len(ip) = 16
    <3>a. Len(x.ip) = 4
      BY <1>2, <1>4
    <3>1. Len(prefix) + Len(x.ip) = 16
      BY <2>5, <3>a
    <3>2. ip \in Seq(Addr!Byte) /\ Len(ip) = Len(prefix) + Len(x.ip)
      BY <1>0, <2>5, ConcatFacts
    <3> QED BY <3>1, <3>2
  <2>8. /\ \A i \in 1..12 : ip[i] = prefix[i]
        /\ \A i \in 1..4 : ip[i + 12] = x.ip[i]
    <3>1. \A i \in 1..(Len(prefix) + Len(x.ip)) :
              ip[i] = IF i <= Len(prefix) THEN prefix[i] ELSE x.ip[i - Len(prefix)]
      BY <1>0, <2>5, ConcatFacts
    <3>a. Len(x.ip) = 4
      BY <1>2, <1>4
    <3>b. Len(prefix) = 12 /\ Len(prefix) + Len(x.ip) = 16
      BY <2>5, <3>a
    <3> HIDE DEF ip
    <3>2. \A i \in 1..16 : ip[i] = IF i <= 12 THEN prefix[i] ELSE x.ip[i - 12]
      BY <3>1, <3>b
    <3>3. \A i \in 1..4 : i + 12 \in 1..16 /\ ~(i + 12 <= 12) /\ (i + 12) - 12 = i
      OBVIOUS
    <3> QED BY <3>2, <3>3
  <2> HIDE DEF ip
  <2>9. m.family = "IPv6" /\ m.ip = ip
    BY <1>0, AddressFacts
  <2>10. /\ ip[11] = 255 /\ ip[12] = 255 /\ \A i \in 1..10 : ip[i] = 0
    BY <2>6, <2>8
  <2> DEFINE tail4 == SubSeq(ip, 13, 16)
  <2>11. tail4 = x.ip
    <3>1. tail4 = SubSeq(ip, 12 + 1, Len(ip)) /\ 12 \in 0..Len(ip) /\ Len(ip) - 12 = 4
      BY <2>7
    <3>a. LET t == SubSeq(ip, 12 + 1, Len(ip))
          IN  /\ t \in Seq(Addr!Byte) /\ Len(t) = Len(ip) - 12
              /\ \A i \in 1..(Len(ip) - 12) : t[i] = ip[i + 12]
      BY <2>7, <3>1, CutFacts
    <3>2. /\ tail4 \in Seq(Addr!Byte) /\ Len(tail4) = Len(ip) - 12
          /\ \A i \in 1..(Len(ip) - 12) : tail4[i] = ip[i + 12]
      BY <3>1, <3>a
    <3> HIDE DEF tail4
    <3>3. Len(tail4) = 4 /\ \A i \in 1..4 : tail4[i] = x.ip[i]
      BY <2>8, <3>1, <3>2
    <3> QED BY <1>0, <1>2, <1>4, <3>2, <3>3, SameSeq
  <2> HIDE DEF m
  <2>12. Addr!IsMapped(m)
    BY <2>9, <2>10 DEF Addr!IsMapped, Addr!Zeros
  <2>13. Addr!IsMartian(m) <=> Addr!IPv4IsMartian(x.ip)
    BY <2>9, <2>11, <2>12 DEF Addr!IsMartian
  <2>14. Addr!IsMartian(x) <=> Addr!IPv4IsMartian(x.ip)
    BY <1>2 DEF Addr!IsMartian
  <2> QED BY <2>12, <2>13, <2>14 DEF m, ip, prefix, pair, zeros
<1> QED BY <1>1, <1>2

\* socket.c: every structure, through any mix of calls and kernel events, tells the
\* truth about its descriptor; the bytes of sendall arrive once and in order however
\* the kernel splits them; any addresses are ordered totally and classified alike.
THEOREM PartsSocketsSound ==
    ASSUME Sock!SocketsAssumption, Stream!SockStreamAssumption, Addr!AddressesAssumption
    PROVE  Sock!Spec /\ Stream!Spec => []SocketsSound
<1>1. SockInv => Sock!TypeOK
  BY DEF SockInv, SockTypes, SockType, KernType, CallType, Sock!TypeOK
<1>2. SockInv => Sock!FdsOwned /\ Sock!BlockingTruthful /\ Sock!StateTruthful
  BY DEF SockInv, Sound, Owned, Mode, Waits, Truth, Sock!FdsOwned, Sock!BlockingTruthful,
         Sock!StateTruthful
<1>3. Stream!Init => StreamInv
  <2>1. 0 \in 0..MaxBytes /\ 0 \in 0..MaxLen
    BY DEF Stream!SockStreamAssumption
  <2> QED BY <2>1 DEF Stream!Init, StreamInv, StreamTypes
<1>4. StreamInv /\ [Stream!Next]_(Stream!vars) => StreamInv'
  BY StreamStep
<1>5. SockInv /\ StreamInv => SocketsSound
  BY <1>1, <1>2, StreamSound, AddressesOrdered, AddressesClasses DEF SocketsSound
<1> QED BY <1>3, <1>4, <1>5, SocketsInv, PTL DEF Stream!Spec
-----------------------------------------------------------------------------
(* The state machine.                                                      *)

\* The rules and the callbacks, their numbers limited.
ConfigTypes ==
    /\ strict \in BOOLEAN
    /\ transitions \in Seq(State!Rules) /\ Len(transitions) <= max_transitions
    /\ callbacks \in Seq(State!Entries) /\ Len(callbacks) <= max_callbacks

\* What was not yet spent in the current state is missing from its time, and no state
\* has had more time than there was before the last change.
TimeInv ==
    /\ current \in StateValues
    /\ time_in_state \in [StateValues -> Nat] /\ spent \in [StateValues -> Nat]
    /\ clock \in 0..MaxAge /\ last_state_change \in 0..clock
    /\ \A v \in StateValues :
          /\ time_in_state[v] <= last_state_change
          /\ spent[v] = IF v = current THEN time_in_state[v] + (clock - last_state_change)
                        ELSE time_in_state[v]

Oldest == IF num_history < max_history THEN 0 ELSE history_head
Place(i) == IF Oldest + i - 1 < max_history THEN Oldest + i - 1 ELSE (Oldest + i - 1) - max_history

\* Until the ring is full, the records are its first ones.
HistoryInv ==
    /\ history_head \in 0..(max_history - 1) /\ num_history \in 0..max_history
    /\ num_history < max_history => history_head = num_history
    /\ DOMAIN history = 0..(max_history - 1)
    /\ recent \in Seq(State!Records) /\ Len(recent) = num_history
    /\ \A i \in 1..num_history : recent[i] = history[Place(i)]

\* The last record and the current state.
Agrees(r, v) ==
    /\ r.result = "SUCCESS" => v = r.to
    /\ r.result = "INVALID_STATE" => v = r.from
    /\ v \in {r.from, r.to}

LastAgrees == recent # <<>> => Agrees(recent[Len(recent)], current)

MachineInv == ConfigTypes /\ TimeInv /\ HistoryInv /\ LastAgrees

\* A record is written over the oldest one, or after the last one.
LEMMA RecordKeeps ==
    ASSUME State!StateAssumption, HistoryInv, NEW from \in StateValues, NEW to \in StateValues,
           NEW result \in {"SUCCESS", "CALLBACK", "INVALID_STATE"},
           State!Record(from, to, result)
    PROVE  /\ HistoryInv'
           /\ recent' # <<>>
           /\ recent'[Len(recent')] = [from |-> from, to |-> to, result |-> result]
<1> DEFINE r == [from |-> from, to |-> to, result |-> result]
           longer == Append(recent, r)
<1>0. /\ max_history \in Nat \ {0} /\ history_head \in 0..(max_history - 1)
      /\ num_history \in 0..max_history /\ recent \in Seq(State!Records)
      /\ Len(recent) = num_history
  BY DEF State!StateAssumption, HistoryInv
<1>1. r \in State!Records
  BY DEF State!Records
<1>2. /\ history' = [history EXCEPT ![history_head] = r]
      /\ history_head' = (history_head + 1) % max_history
      /\ num_history' = IF num_history < max_history THEN num_history + 1 ELSE num_history
      /\ recent' = IF Len(longer) <= max_history THEN longer
                   ELSE SubSeq(longer, Len(longer) - max_history + 1, Len(longer))
  BY DEF State!Record, State!LastN
<1> HIDE DEF r
<1>3. /\ longer \in Seq(State!Records) /\ Len(longer) = num_history + 1
      /\ longer[num_history + 1] = r
      /\ \A i \in 1..num_history : longer[i] = recent[i]
  BY <1>0, <1>1
<1> HIDE DEF longer
<1>4. history_head' = IF history_head + 1 < max_history THEN history_head + 1 ELSE 0
  <2>1. history_head + 1 \in 0..(2 * max_history - 1)
    BY <1>0
  <2>2. history_head' = IF history_head + 1 < max_history THEN history_head + 1
                        ELSE (history_head + 1) - max_history
    <3>1. max_history \in Nat \ {0}
      BY <1>0
    <3> DEFINE x == history_head + 1
    <3> HIDE DEF x
    <3>3. x \in 0..(2 * max_history - 1)
      BY <2>1 DEF x
    <3>4. x % max_history = IF x < max_history THEN x ELSE x - max_history
      BY <3>1, <3>3, Wrapped
    <3>2. (history_head + 1) % max_history = IF history_head + 1 < max_history THEN history_head + 1
                                            ELSE (history_head + 1) - max_history
      BY <3>4, Zenon DEF x
    <3> QED BY <1>2, <3>2
  <2> QED BY <1>0, <2>2
<1>5. /\ DOMAIN history' = 0..(max_history - 1) /\ history'[history_head] = r
      /\ \A j \in 0..(max_history - 1) : j # history_head => history'[j] = history[j]
  BY <1>0, <1>2 DEF HistoryInv
<1>6. CASE num_history < max_history
  <2>1. /\ num_history' = num_history + 1 /\ recent' = longer /\ history_head = num_history
        /\ Oldest = 0
    BY <1>0, <1>2, <1>3, <1>6 DEF HistoryInv, Oldest
  <2>2. /\ num_history' \in 0..max_history /\ history_head' \in 0..(max_history - 1)
        /\ num_history' < max_history => history_head' = num_history'
        /\ ~(num_history' < max_history) => history_head' = 0
    BY <1>0, <1>4, <1>6, <2>1
  <2>3. Oldest' = 0
    BY <2>2 DEF Oldest
  <2>4. ASSUME NEW i \in 1..num_history' PROVE recent'[i] = history'[Place(i)']
    <3>1. Place(i)' = i - 1 /\ i - 1 \in 0..(max_history - 1)
      BY <1>0, <2>1, <2>2, <2>3 DEF Place
    <3>2. CASE i = num_history + 1
      BY <1>0, <1>3, <1>5, <2>1, <3>1, <3>2
    <3>3. CASE i # num_history + 1
      <4>1. i \in 1..num_history /\ i - 1 # history_head
        BY <1>0, <2>1, <3>3
      <4>2. Place(i) = i - 1
        BY <1>0, <1>6, <2>1, <4>1 DEF Place
      <4>3. recent[i] = history[i - 1]
        BY <4>1, <4>2 DEF HistoryInv
      <4> QED BY <1>3, <1>5, <2>1, <3>1, <4>1, <4>3
    <3> QED BY <3>2, <3>3
  <2>5. /\ recent' \in Seq(State!Records) /\ Len(recent') = num_history'
        /\ recent'[Len(recent')] = r /\ Len(recent') # 0
    BY <1>0, <1>3, <2>1
  <2>6. recent' # <<>>
    BY <2>5
  <2> QED BY <1>5, <2>2, <2>4, <2>5, <2>6 DEF HistoryInv, r
<1>7. CASE ~(num_history < max_history)
  <2>1. /\ num_history = max_history /\ num_history' = max_history /\ Oldest = history_head
        /\ recent' = SubSeq(longer, 2, max_history + 1)
    BY <1>0, <1>2, <1>3, <1>7 DEF Oldest
  <2>2. /\ recent' \in Seq(State!Records) /\ Len(recent') = max_history
        /\ \A i \in 1..max_history : recent'[i] = longer[i + 1]
    <3>1. SubSeq(longer, 2, max_history + 1) = SubSeq(longer, 1 + 1, Len(longer))
      BY <1>0, <1>3, <2>1
    <3>2. 1 \in 0..Len(longer) /\ Len(longer) - 1 = max_history
      BY <1>0, <1>3, <2>1
    <3> QED BY <1>3, <2>1, <3>1, <3>2, CutFacts
  <2>3. history_head' \in 0..(max_history - 1) /\ Oldest' = history_head'
    BY <1>0, <1>4, <2>1 DEF Oldest
  <2>4. ASSUME NEW i \in 1..max_history PROVE recent'[i] = history'[Place(i)']
    <3>1. CASE i = max_history
      <4>1. recent'[i] = r
        BY <1>3, <2>1, <2>2, <3>1
      <4>2. Place(i)' = history_head
        <5>1. CASE history_head + 1 < max_history
          BY <1>0, <1>4, <2>3, <3>1, <5>1 DEF Place
        <5>2. CASE ~(history_head + 1 < max_history)
          BY <1>0, <1>4, <2>3, <3>1, <5>2 DEF Place
        <5> QED BY <5>1, <5>2
      <4> QED BY <1>5, <4>1, <4>2
    <3>2. CASE i # max_history
      <4>1. i + 1 \in 1..max_history /\ i + 1 \in 1..num_history
        BY <1>0, <2>1, <3>2
      <4>2. recent'[i] = history[Place(i + 1)]
        <5>1. recent'[i] = recent[i + 1]
          BY <1>3, <2>2, <4>1
        <5> QED BY <4>1, <5>1 DEF HistoryInv
      <4>3. /\ Place(i)' = Place(i + 1) /\ Place(i + 1) # history_head
            /\ Place(i + 1) \in 0..(max_history - 1)
        <5>1. CASE history_head + 1 < max_history
          BY <1>0, <1>4, <2>1, <2>3, <3>2, <5>1 DEF Place
        <5>2. CASE ~(history_head + 1 < max_history)
          BY <1>0, <1>4, <2>1, <2>3, <3>2, <5>2 DEF Place
        <5> QED BY <5>1, <5>2
      <4> QED BY <1>5, <4>2, <4>3
    <3> QED BY <3>1, <3>2
  <2>5. recent'[Len(recent')] = r /\ Len(recent') # 0
    BY <1>0, <1>3, <2>1, <2>2
  <2>6. recent' # <<>>
    BY <2>5
  <2>7. /\ num_history' \in 0..max_history /\ ~(num_history' < max_history)
        /\ Len(recent') = num_history' /\ 1..num_history' = 1..max_history
    BY <1>0, <2>1, <2>2
  <2>8. HistoryInv'
    BY <1>5, <2>2, <2>3, <2>4, <2>7 DEF HistoryInv
  <2> QED BY <2>5, <2>6, <2>8 DEF r
<1> QED BY <1>6, <1>7

\* The time since the last change is added to the state that is left.
LEMMA MoveKeeps ==
    ASSUME TimeInv, NEW to \in StateValues, to # current, State!MoveTo(to),
           UNCHANGED <<clock, spent>>
    PROVE  TimeInv' /\ current' = to
<1> DEFINE total == time_in_state[current] + (clock - last_state_change)
<1>1. /\ time_in_state' = [time_in_state EXCEPT ![current] = total]
      /\ current' = to /\ last_state_change' = clock
  BY DEF State!MoveTo
<1>2. /\ current \in StateValues /\ clock \in Nat /\ last_state_change \in Nat
      /\ last_state_change <= clock /\ time_in_state[current] \in Nat
      /\ time_in_state[current] <= last_state_change /\ spent[current] = total
  BY DEF TimeInv
<1>3. total \in Nat /\ total <= clock
  BY <1>2
<1> HIDE DEF total
<1>4. ASSUME NEW v \in StateValues
      PROVE  /\ time_in_state'[v] <= clock
             /\ spent[v] = IF v = to THEN time_in_state'[v] + (clock - clock) ELSE time_in_state'[v]
  <2>1. time_in_state[v] \in Nat /\ time_in_state[v] <= last_state_change
    BY DEF TimeInv
  <2>2. CASE v = current
    BY <1>1, <1>2, <1>3, <2>2 DEF TimeInv
  <2>3. CASE v # current
    <3>1. time_in_state'[v] = time_in_state[v] /\ spent[v] = time_in_state[v]
      BY <1>1, <2>3 DEF TimeInv
    <3> QED BY <1>2, <2>1, <3>1
  <2> QED BY <2>2, <2>3
<1>5. time_in_state' \in [StateValues -> Nat]
  BY <1>1, <1>3 DEF TimeInv
<1> QED BY <1>1, <1>2, <1>4, <1>5 DEF TimeInv

LEMMA TransitionKeeps ==
    ASSUME State!StateAssumption, MachineInv, NEW to \in StateValues, State!Transition(to)
    PROVE  MachineInv'
<1> DEFINE Refused(result) ==
               /\ State!Record(current, to, result) /\ UNCHANGED <<current, State!timeVars>>
           Moved(result) == State!MoveTo(to) /\ State!Record(current, to, result)
<1>0. /\ to # current /\ current \in StateValues /\ HistoryInv /\ TimeInv /\ ConfigTypes
      /\ UNCHANGED <<State!configVars, State!clockVars>>
  BY DEF State!Transition, MachineInv, TimeInv
<1>1. \/ Refused("INVALID_STATE") \/ Refused("CALLBACK")
      \/ Moved("CALLBACK") \/ Moved("SUCCESS")
  BY DEF State!Transition
<1>2. ConfigTypes'
  BY <1>0 DEF ConfigTypes, State!configVars
<1>3. ASSUME NEW result \in {"INVALID_STATE", "CALLBACK"}, Refused(result)
      PROVE  MachineInv'
  <2>1. TimeInv'
    BY <1>0, <1>3 DEF TimeInv, State!timeVars, State!clockVars
  <2>2. /\ HistoryInv' /\ recent' # <<>>
        /\ recent'[Len(recent')] = [from |-> current, to |-> to, result |-> result]
    BY <1>0, <1>3, RecordKeeps
  <2>3. LastAgrees'
    BY <1>3, <2>2 DEF LastAgrees, Agrees
  <2> QED BY <1>2, <2>1, <2>2, <2>3 DEF MachineInv
<1>4. ASSUME NEW result \in {"SUCCESS", "CALLBACK"}, Moved(result)
      PROVE  MachineInv'
  <2>1. TimeInv' /\ current' = to
    BY <1>0, <1>4, MoveKeeps DEF State!clockVars
  <2>2. /\ HistoryInv' /\ recent' # <<>>
        /\ recent'[Len(recent')] = [from |-> current, to |-> to, result |-> result]
    BY <1>0, <1>4, RecordKeeps
  <2>3. LastAgrees'
    BY <2>1, <2>2 DEF LastAgrees, Agrees
  <2> QED BY <1>2, <2>1, <2>2, <2>3 DEF MachineInv
<1> HIDE DEF Refused, Moved
<1> QED BY <1>1, <1>3, <1>4

LEMMA ForceKeeps ==
    ASSUME State!StateAssumption, MachineInv, NEW to \in StateValues, State!Force(to)
    PROVE  MachineInv'
<1>0. /\ to # current /\ current \in StateValues /\ HistoryInv /\ TimeInv /\ ConfigTypes
      /\ State!MoveTo(to) /\ State!Record(current, to, "SUCCESS")
      /\ UNCHANGED <<State!configVars, State!clockVars>>
  BY DEF State!Force, MachineInv, TimeInv
<1>1. TimeInv' /\ current' = to
  BY <1>0, MoveKeeps DEF State!clockVars
<1>2. /\ HistoryInv' /\ recent' # <<>>
      /\ recent'[Len(recent')] = [from |-> current, to |-> to, result |-> "SUCCESS"]
  BY <1>0, RecordKeeps
<1>3. LastAgrees'
  BY <1>1, <1>2 DEF LastAgrees, Agrees
<1>4. ConfigTypes'
  BY <1>0 DEF ConfigTypes, State!configVars
<1> QED BY <1>1, <1>2, <1>3, <1>4 DEF MachineInv

\* The first of several equal elements is removed.
LEMMA WithoutTypes ==
    ASSUME NEW S, NEW s \in Seq(S), NEW e, \E i \in DOMAIN s : s[i] = e
    PROVE  State!Without(s, e) \in Seq(S) /\ Len(State!Without(s, e)) = Len(s) - 1
<1> DEFINE IsFirst(i) == s[i] = e /\ \A j \in 1..(i - 1) : s[j] # e
           k == CHOOSE i \in DOMAIN s : IsFirst(i)
<1>1. State!Without(s, e) = RemoveAt(s, k)
  BY DEF State!Without, RemoveAt
<1>2. PICK T : T = {i \in 1..Len(s) : s[i] = e}
  OBVIOUS
<1>a. T \in SUBSET Nat /\ T # {} /\ DOMAIN s = 1..Len(s) /\ Len(s) \in Nat
  BY <1>2
<1>b. PICK n \in T : \A i \in T : n <= i
  BY <1>a, LeastOf
<1>3. n \in DOMAIN s /\ IsFirst(n)
  <2>1. n \in 1..Len(s) /\ s[n] = e
    BY <1>2, <1>b
  <2>2. ASSUME NEW j \in 1..(n - 1) PROVE s[j] # e
    <3>1. j \in 1..Len(s) /\ ~(n <= j)
      BY <1>a, <2>1
    <3> QED BY <1>2, <1>b, <3>1
  <2> QED BY <1>a, <2>1, <2>2
<1>4. k \in DOMAIN s
  <2> HIDE DEF IsFirst
  <2> QED BY <1>3
<1>5. k \in 1..Len(s)
  BY <1>4
<1> HIDE DEF k
<1> QED BY <1>1, <1>5, RemoveAtFacts

\* Rules and callbacks come and go; the history is cleared; the clock ticks.
LEMMA OtherKeeps ==
    ASSUME State!StateAssumption, MachineInv,
           \/ \E r \in State!Rules : State!AddTransition(r) \/ State!RemoveTransition(r)
           \/ \E c \in State!Entries : State!AddCallback(c) \/ State!RemoveCallback(c)
           \/ \E b \in BOOLEAN : State!SetStrict(b)
           \/ State!ClearTransitions \/ State!ClearCallbacks \/ State!ClearHistory
           \/ State!Tick \/ UNCHANGED State!vars
    PROVE  MachineInv'
<1>0. /\ ConfigTypes /\ TimeInv /\ HistoryInv /\ LastAgrees
      /\ max_transitions \in Nat /\ max_callbacks \in Nat /\ max_history \in Nat \ {0}
      /\ MaxAge \in Nat
  BY DEF MachineInv, State!StateAssumption
<1>1. ASSUME ConfigTypes',
             UNCHANGED <<current, State!historyVars, State!timeVars, State!clockVars>>
      PROVE  MachineInv'
  <2>1. TimeInv'
    BY <1>0, <1>1 DEF TimeInv, State!timeVars, State!clockVars
  <2>2. HistoryInv' /\ LastAgrees'
    BY <1>0, <1>1 DEF HistoryInv, Place, Oldest, LastAgrees, State!historyVars
  <2> QED BY <1>1, <2>1, <2>2 DEF MachineInv
<1>2. ASSUME NEW r \in State!Rules, State!AddTransition(r) PROVE MachineInv'
  <2>1. ConfigTypes'
    BY <1>0, <1>2 DEF State!AddTransition, ConfigTypes
  <2> QED BY <1>1, <1>2, <2>1 DEF State!AddTransition
<1>3. ASSUME NEW r \in State!Rules, State!RemoveTransition(r) PROVE MachineInv'
  <2>1. \E i \in DOMAIN transitions : transitions[i] = r
    <3>1. PICK i \in DOMAIN transitions : transitions[i] = [from |-> r.from, to |-> r.to]
      BY <1>3 DEF State!RemoveTransition, State!HasRule
    <3>2. r = [from |-> r.from, to |-> r.to]
      BY DEF State!Rules
    <3>3. DOMAIN transitions = 1..Len(transitions)
      BY <1>0 DEF ConfigTypes
    <3> QED BY <3>1, <3>2, <3>3
  <2>2. /\ transitions' \in Seq(State!Rules) /\ Len(transitions') = Len(transitions) - 1
        /\ Len(transitions) \in Nat
    BY <1>0, <1>3, <2>1, WithoutTypes DEF State!RemoveTransition, ConfigTypes
  <2>3. ConfigTypes'
    BY <1>0, <1>3, <2>2 DEF State!RemoveTransition, ConfigTypes
  <2> QED BY <1>1, <1>3, <2>3 DEF State!RemoveTransition
<1>4. ASSUME NEW c \in State!Entries, State!AddCallback(c) PROVE MachineInv'
  <2>1. ConfigTypes'
    BY <1>0, <1>4 DEF State!AddCallback, ConfigTypes
  <2> QED BY <1>1, <1>4, <2>1 DEF State!AddCallback
<1>5. ASSUME NEW c \in State!Entries, State!RemoveCallback(c) PROVE MachineInv'
  <2>2. /\ callbacks' \in Seq(State!Entries) /\ Len(callbacks') = Len(callbacks) - 1
        /\ Len(callbacks) \in Nat
    BY <1>0, <1>5, WithoutTypes DEF State!RemoveCallback, ConfigTypes
  <2>3. ConfigTypes'
    BY <1>0, <1>5, <2>2 DEF State!RemoveCallback, ConfigTypes
  <2> QED BY <1>1, <1>5, <2>3 DEF State!RemoveCallback
<1>6. ASSUME NEW b \in BOOLEAN, State!SetStrict(b) PROVE MachineInv'
  <2>1. ConfigTypes'
    BY <1>0, <1>6 DEF State!SetStrict, ConfigTypes
  <2> QED BY <1>1, <1>6, <2>1 DEF State!SetStrict
<1>7. CASE State!ClearTransitions
  <2>1. ConfigTypes'
    BY <1>0, <1>7 DEF State!ClearTransitions, ConfigTypes
  <2> QED BY <1>1, <1>7, <2>1 DEF State!ClearTransitions
<1>8. CASE State!ClearCallbacks
  <2>1. ConfigTypes'
    BY <1>0, <1>8 DEF State!ClearCallbacks, ConfigTypes
  <2> QED BY <1>1, <1>8, <2>1 DEF State!ClearCallbacks
<1>9. CASE State!ClearHistory
  <2>1. /\ num_history' = 0 /\ history_head' = 0 /\ recent' = <<>>
        /\ UNCHANGED <<current, State!configVars, history, State!timeVars, State!clockVars>>
    BY <1>9 DEF State!ClearHistory
  <2>2. TimeInv' /\ ConfigTypes'
    BY <1>0, <2>1 DEF TimeInv, ConfigTypes, State!timeVars, State!clockVars, State!configVars
  <2>3. HistoryInv' /\ LastAgrees'
    BY <1>0, <2>1 DEF HistoryInv, LastAgrees
  <2> QED BY <2>2, <2>3 DEF MachineInv
<1>10. CASE State!Tick
  <2>1. /\ clock < MaxAge /\ clock' = clock + 1 /\ spent' = [spent EXCEPT ![current] = @ + 1]
        /\ UNCHANGED <<current, State!configVars, State!historyVars, State!timeVars>>
    BY <1>10 DEF State!Tick
  <2>2. ConfigTypes' /\ HistoryInv' /\ LastAgrees'
    BY <1>0, <2>1 DEF ConfigTypes, HistoryInv, Place, Oldest, LastAgrees, State!configVars,
                      State!historyVars
  <2>3. TimeInv'
    <3>1. /\ clock \in Nat /\ last_state_change \in Nat /\ last_state_change <= clock
          /\ time_in_state' = time_in_state /\ last_state_change' = last_state_change
          /\ current' = current /\ current \in StateValues
      BY <1>0, <2>1 DEF TimeInv, State!timeVars
    <3>2. clock' \in 0..MaxAge /\ last_state_change' \in 0..clock'
      BY <1>0, <2>1, <3>1
    <3>3. spent' \in [StateValues -> Nat]
      BY <1>0, <2>1 DEF TimeInv
    <3>4. ASSUME NEW v \in StateValues
          PROVE  spent'[v] = IF v = current THEN time_in_state[v] + (clock + 1 - last_state_change)
                             ELSE time_in_state[v]
      <4>1. time_in_state[v] \in Nat /\ spent[v] \in Nat
        BY <1>0 DEF TimeInv
      <4>2. CASE v = current
        <5>1. spent'[v] = spent[v] + 1 /\ spent[v] = time_in_state[v] + (clock - last_state_change)
          BY <1>0, <2>1, <4>2 DEF TimeInv
        <5> QED BY <3>1, <4>1, <4>2, <5>1
      <4>3. CASE v # current
        BY <1>0, <2>1, <4>3 DEF TimeInv
      <4> QED BY <4>2, <4>3
    <3> QED BY <1>0, <2>1, <3>1, <3>2, <3>3, <3>4 DEF TimeInv
  <2> QED BY <2>2, <2>3 DEF MachineInv
<1>11. CASE UNCHANGED State!vars
  <2>1. ConfigTypes'
    BY <1>0, <1>11 DEF State!vars, ConfigTypes
  <2> QED BY <1>1, <1>11, <2>1 DEF State!vars, State!historyVars, State!timeVars, State!clockVars
<1> QED BY <1>2, <1>3, <1>4, <1>5, <1>6, <1>7, <1>8, <1>9, <1>10, <1>11

LEMMA MachineInit == ASSUME State!StateAssumption, State!Init PROVE MachineInv
<1>0. /\ max_transitions \in Nat /\ max_callbacks \in Nat /\ max_history \in Nat \ {0}
      /\ MaxAge \in Nat /\ StateValues # {}
  BY DEF State!StateAssumption
<1>1. current \in StateValues
  BY <1>0 DEF State!Init
<1>2. TimeInv
  <2>1. 0 \in 0..MaxAge /\ 0 \in 0..0 /\ 0 <= 0 /\ 0 = 0 + (0 - 0)
    BY <1>0
  <2> QED BY <1>1, <2>1 DEF State!Init, TimeInv
<1>3. ConfigTypes
  <2>1. \A S : <<>> \in Seq(S) /\ Len(<<>>) = 0
    OBVIOUS
  <2>2. strict = FALSE /\ transitions = <<>> /\ callbacks = <<>>
    BY DEF State!Init
  <2>3. transitions \in Seq(State!Rules) /\ callbacks \in Seq(State!Entries)
    BY <2>1, <2>2
  <2>4. Len(transitions) <= max_transitions /\ Len(callbacks) <= max_callbacks
    BY <1>0, <2>1, <2>2
  <2> QED BY <2>2, <2>3, <2>4 DEF ConfigTypes
<1>4. HistoryInv
  BY <1>0 DEF State!Init, HistoryInv
<1>5. LastAgrees
  BY DEF State!Init, LastAgrees
<1> QED BY <1>2, <1>3, <1>4, <1>5 DEF MachineInv

LEMMA MachineSoundFromInv ==
    ASSUME State!StateAssumption, MachineInv
    PROVE  MachineSound
<1>0. /\ ConfigTypes /\ TimeInv /\ HistoryInv /\ LastAgrees
      /\ max_transitions \in Nat /\ max_callbacks \in Nat /\ max_history \in Nat \ {0}
  BY DEF MachineInv, State!StateAssumption
<1>1. ASSUME NEW i \in 1..num_history
      PROVE  /\ Oldest + i - 1 \in 0..(2 * max_history - 1) /\ Place(i) \in 0..(max_history - 1)
             /\ (Oldest + i - 1) % max_history = Place(i)
  <2>1. Oldest \in 0..(max_history - 1) /\ i \in 1..max_history
    BY <1>0 DEF HistoryInv, Oldest
  <2>2. Oldest + i - 1 \in 0..(2 * max_history - 1)
    BY <1>0, <2>1
  <2>3. (Oldest + i - 1) % max_history = Place(i)
    <3>1. max_history \in Nat \ {0}
      BY <1>0
    <3> DEFINE x == Oldest + i - 1
    <3> HIDE DEF x
    <3>3. x \in 0..(2 * max_history - 1)
      BY <2>2 DEF x
    <3>4. x % max_history = IF x < max_history THEN x ELSE x - max_history
      BY <3>1, <3>3, Wrapped
    <3>2. (Oldest + i - 1) % max_history = IF Oldest + i - 1 < max_history THEN Oldest + i - 1
                                          ELSE (Oldest + i - 1) - max_history
      BY <3>4, Zenon DEF x
    <3> QED BY <3>2 DEF Place
  <2> QED BY <1>0, <2>1, <2>2, <2>3 DEF Place
<1>2. State!TypeOK
  <2>1. ASSUME NEW j \in 0..(num_history - 1) PROVE history[j] \in State!Records
    <3>1. \E i \in 1..num_history : Place(i) = j
      <4>1. CASE num_history < max_history
        <5>1. j + 1 \in 1..num_history /\ Place(j + 1) = j
          BY <1>0, <4>1 DEF HistoryInv, Oldest, Place
        <5> QED BY <5>1
      <4>2. CASE ~(num_history < max_history)
        <5>0. num_history = max_history /\ Oldest = history_head /\ history_head \in 0..(max_history - 1)
          BY <1>0, <4>2 DEF HistoryInv, Oldest
        <5>1. CASE j >= history_head
          <6>1. j - history_head + 1 \in 1..num_history /\ Place(j - history_head + 1) = j
            BY <1>0, <5>0, <5>1 DEF Place
          <6> QED BY <6>1
        <5>2. CASE j < history_head
          <6>1. /\ j + max_history - history_head + 1 \in 1..num_history
                /\ Place(j + max_history - history_head + 1) = j
            BY <1>0, <5>0, <5>2 DEF Place
          <6> QED BY <6>1
        <5> QED BY <5>0, <5>1, <5>2
      <4> QED BY <4>1, <4>2
    <3>2. PICK i \in 1..num_history : Place(i) = j
      BY <3>1
    <3>3. recent[i] = history[j] /\ i \in 1..Len(recent)
      BY <1>0, <3>2 DEF HistoryInv
    <3> QED BY <1>0, <3>3, InSeq DEF HistoryInv
  <2>2. transitions \in Seq(State!Rules) /\ Len(transitions) <= max_transitions
    BY <1>0 DEF ConfigTypes
  <2>3. callbacks \in Seq(State!Entries) /\ Len(callbacks) <= max_callbacks
    BY <1>0 DEF ConfigTypes
  <2>4. time_in_state \in [StateValues -> 0..MaxAge]
    <3>1. \A v \in StateValues : time_in_state[v] \in 0..MaxAge
      <4> SUFFICES ASSUME NEW v \in StateValues PROVE time_in_state[v] \in 0..MaxAge
        OBVIOUS
      <4>1. /\ time_in_state[v] \in Nat /\ time_in_state[v] <= last_state_change
            /\ last_state_change \in Nat /\ last_state_change <= clock
            /\ clock \in Nat /\ clock <= MaxAge /\ MaxAge \in Nat
        BY <1>0 DEF TimeInv, State!StateAssumption
      <4> QED BY <4>1
    <3> QED BY <1>0, <3>1 DEF TimeInv
  <2> QED BY <1>0, <2>1, <2>2, <2>3, <2>4 DEF State!TypeOK, TimeInv, HistoryInv, ConfigTypes
<1>3. State!HistoryIsRecent
  <2>1. State!GetHistory(max_history) = recent
    <3> DEFINE read == State!GetHistory(max_history)
    <3>1. read = [i \in 1..num_history |-> history[(Oldest + i - 1) % max_history]]
      BY <1>0 DEF State!GetHistory, Oldest, HistoryInv
    <3>2. \A i \in 1..num_history : read[i] = recent[i]
      BY <1>0, <1>1, <3>1 DEF HistoryInv
    <3>3. recent = [i \in 1..num_history |-> recent[i]]
      BY <1>0 DEF HistoryInv
    <3> QED BY <3>1, <3>2, <3>3
  <2>2. recent # <<>> =>
           LET r == recent[Len(recent)] IN
           current \in CASE r.result = "SUCCESS" -> {r.to}
                         [] r.result = "INVALID_STATE" -> {r.from}
                         [] OTHER -> {r.from, r.to}
    BY <1>0 DEF LastAgrees, Agrees
  <2> QED BY <2>1, <2>2 DEF State!HistoryIsRecent
<1>4. State!TimeAccounted
  <2> SUFFICES ASSUME NEW v \in StateValues PROVE State!GetTimeIn(v) = spent[v]
    BY DEF State!TimeAccounted
  <2>1. time_in_state[v] \in Nat
    BY <1>0 DEF TimeInv
  <2> QED BY <1>0, <2>1 DEF TimeInv, State!GetTimeIn
<1> QED BY <1>2, <1>3, <1>4 DEF MachineSound

\* state.c: for any states, limits and length of the ring, and after any calls, refusals
\* and clears, the history read is the latest records and agrees with the current state,
\* and the times told of the states are those the machine was in them.
THEOREM PartsMachineSound == ASSUME State!StateAssumption PROVE State!Spec => []MachineSound
<1>1. State!Init => MachineInv
  BY MachineInit
<1>2. MachineInv /\ [State!Next]_(State!vars) => MachineInv'
  BY TransitionKeeps, ForceKeeps, OtherKeeps DEF State!Next
<1>3. MachineInv => MachineSound
  BY MachineSoundFromInv
<1> QED BY <1>1, <1>2, <1>3, PTL DEF State!Spec
-----------------------------------------------------------------------------
(* Peers.  The array, the index and the sockets each say who is live; what *)
(* a step does to one peer, or to the peers it frees, is told apart from   *)
(* what it leaves alone.                                                   *)

PeerType == [live : {TRUE}, id : PeerIds \cup {ZeroId}, addr : BOOLEAN, state : PeerSet!States,
             sock : Socks \cup {NULL}, silent : 0..Timeout, blacklisted : BOOLEAN]

PeerTypes ==
    /\ peers \in Seq(Cells) /\ p_capacity \in 1..max_peers /\ Len(peers) <= p_capacity
    /\ peer \in [Cells -> PeerType \cup {PeerSet!Free}]
    /\ id_map \in [PeerIds -> Cells \cup {NULL}]
    /\ blacklist \subseteq PeerIds /\ opened \subseteq Socks

\* The sequence s holds each member of D once.
Lists(s, D) ==
    /\ \A i \in 1..Len(s) : s[i] \in D
    /\ \A p \in D : \E i \in 1..Len(s) : s[i] = p
    /\ \A i, j \in 1..Len(s) : s[i] = s[j] => i = j

Indexed ==
    /\ \A i \in PeerIds : id_map[i] # NULL => id_map[i] \in PeerSet!Live /\ peer[id_map[i]].id = i
    /\ \A p \in PeerSet!Live : peer[p].id \in PeerIds => id_map[peer[p].id] = p

Owners ==
    /\ \A p \in PeerSet!Live : peer[p].sock # NULL => peer[p].sock \in opened
    /\ \A s \in opened : \E p \in PeerSet!Live : peer[p].sock = s
    /\ \A p, q \in PeerSet!Live : peer[p].sock = peer[q].sock /\ p # q => peer[p].sock = NULL

Honest(p) ==
    /\ PeerSet!IsConnected(p) => peer[p].sock # NULL
    /\ peer[p].blacklisted => peer[p].id \in blacklist

PeersInv ==
    PeerTypes /\ Lists(peers, PeerSet!Live) /\ Indexed /\ Owners /\ \A p \in PeerSet!Live : Honest(p)

LEMMA FreeIsNoPeer == PeerSet!Free \notin PeerType /\ PeerSet!Free.live = FALSE
BY DEF PeerSet!Free, PeerType

LEMMA LivePeers ==
    ASSUME peer \in [Cells -> PeerType \cup {PeerSet!Free}]
    PROVE  /\ PeerSet!Live \subseteq Cells
           /\ \A p \in Cells : (p \in PeerSet!Live <=> peer[p] \in PeerType)
           /\ \A p \in Cells : (p \in PeerSet!Live <=> peer[p] # PeerSet!Free)
<1>1. PeerSet!Live \subseteq Cells
  BY DEF PeerSet!Live
<1>2. ASSUME NEW p \in Cells
      PROVE  (p \in PeerSet!Live <=> peer[p] \in PeerType) /\ (p \in PeerSet!Live <=> peer[p] # PeerSet!Free)
  <2>1. CASE peer[p] \in PeerType
    <3>1. peer[p].live = TRUE
      BY <2>1 DEF PeerType
    <3> QED BY <2>1, <3>1, FreeIsNoPeer DEF PeerSet!Live
  <2>2. CASE peer[p] = PeerSet!Free
    BY <2>2, FreeIsNoPeer DEF PeerSet!Live
  <2> QED BY <2>1, <2>2
<1> QED BY <1>1, <1>2

\* What a step leaves of a peer but for the time it was silent.
Alike(p) ==
    /\ peer'[p].id = peer[p].id /\ peer'[p].sock = peer[p].sock
    /\ peer'[p].state = peer[p].state /\ peer'[p].blacklisted = peer[p].blacklisted

\* A step changes one peer at most: its socket stays, is closed, or is a new one after
\* the old was closed.
LEMMA OnePeer ==
    ASSUME PeerSet!PeersAssumption, PeersInv, NEW p \in Cells,
           peer' \in [Cells -> PeerType \cup {PeerSet!Free}], PeerSet!Live' = PeerSet!Live,
           p \in PeerSet!Live,
           \A q \in PeerSet!Live \ {p} : Alike(q),
           peer'[p].id = peer[p].id,
           \/ peer'[p].sock = peer[p].sock /\ opened' = opened
           \/ peer'[p].sock = NULL /\ opened' = opened \ {peer[p].sock}
           \/ /\ peer'[p].sock \in Socks \ opened
              /\ opened' = (opened \ {peer[p].sock}) \cup {peer'[p].sock},
           Honest(p)',
           blacklist' \subseteq PeerIds, \A i \in blacklist : i # peer[p].id => i \in blacklist',
           UNCHANGED <<peers, p_capacity, id_map>>
    PROVE  PeersInv'
<1>0. /\ PeerTypes /\ Lists(peers, PeerSet!Live) /\ Indexed /\ Owners
      /\ NULL \notin Socks /\ \A q \in PeerSet!Live : Honest(q)
  BY DEF PeersInv, PeerSet!PeersAssumption
<1>1. PeerTypes'
  <2>1. opened' \subseteq Socks
    BY <1>0 DEF PeerTypes
  <2> QED BY <1>0, <2>1 DEF PeerTypes
<1>2. Lists(peers, PeerSet!Live)'
  BY <1>0 DEF Lists
<1>3. \A q \in PeerSet!Live : peer'[q].id = peer[q].id
  BY DEF Alike
<1>4. Indexed'
  BY <1>0, <1>3 DEF Indexed
<1>5. \A q \in PeerSet!Live \ {p} : peer'[q].sock = peer[q].sock
  BY DEF Alike
<1>6. Owners'
  <2>1. CASE peer'[p].sock = peer[p].sock /\ opened' = opened
    BY <1>0, <1>5, <2>1 DEF Owners
  <2>2. CASE peer'[p].sock = NULL /\ opened' = opened \ {peer[p].sock}
    BY <1>0, <1>5, <2>2 DEF Owners, PeerTypes
  <2>3. CASE /\ peer'[p].sock \in Socks \ opened
             /\ opened' = (opened \ {peer[p].sock}) \cup {peer'[p].sock}
    BY <1>0, <1>5, <2>3 DEF Owners, PeerTypes
  <2> QED BY <2>1, <2>2, <2>3
<1>7. ASSUME NEW q \in PeerSet!Live PROVE Honest(q)'
  <2>1. CASE q = p
    BY <2>1
  <2>2. CASE q # p
    <3>1. Alike(q) /\ Honest(q)
      BY <1>0, <2>2
    <3>2. peer[q].blacklisted => peer[q].id # peer[p].id /\ peer[q].id \in blacklist
      BY <1>0, <2>2, <3>1 DEF Honest, Indexed, PeerTypes
    <3> QED BY <3>1, <3>2 DEF Alike, Honest, PeerSet!IsConnected
  <2> QED BY <2>1, <2>2
<1> QED BY <1>1, <1>2, <1>4, <1>6, <1>7 DEF PeersInv

\* Peers are freed: their sockets are closed, the rest stays.
LEMMA PeersFreed ==
    ASSUME PeerSet!PeersAssumption, PeersInv, NEW D \in SUBSET PeerSet!Live, PeerSet!Release(D),
           peers' \in Seq(Cells), Len(peers') <= Len(peers), Lists(peers', PeerSet!Live \ D),
           id_map' = [i \in PeerIds |-> IF \E p \in D : peer[p].id = i THEN NULL ELSE id_map[i]],
           UNCHANGED <<p_capacity, blacklist>>
    PROVE  PeersInv' /\ PeerSet!Live' = PeerSet!Live \ D
<1>0. /\ PeerTypes /\ Lists(peers, PeerSet!Live) /\ Indexed /\ Owners
      /\ NULL \notin Socks /\ NULL \notin Cells /\ \A q \in PeerSet!Live : Honest(q)
  BY DEF PeersInv, PeerSet!PeersAssumption
<1>1. /\ peer' = [p \in Cells |-> IF p \in D THEN PeerSet!Free ELSE peer[p]]
      /\ opened' = opened \ PeerSet!SocketsOf(D)
  BY DEF PeerSet!Release
<1>2. peer' \in [Cells -> PeerType \cup {PeerSet!Free}]
  BY <1>0, <1>1 DEF PeerTypes
<1>3. PeerSet!Live \subseteq Cells /\ PeerSet!Live' = PeerSet!Live \ D
  <2>1. PeerSet!Live \subseteq Cells
    BY DEF PeerSet!Live
  <2>2. \A p \in Cells : peer'[p] = IF p \in D THEN PeerSet!Free ELSE peer[p]
    BY <1>1
  <2> QED BY <2>1, <2>2, FreeIsNoPeer DEF PeerSet!Live
<1>4. \A p \in PeerSet!Live \ D : peer'[p] = peer[p]
  BY <1>1, <1>3
<1>5. PeerTypes'
  <2>1. opened' \subseteq Socks /\ id_map' \in [PeerIds -> Cells \cup {NULL}]
    BY <1>0, <1>1 DEF PeerTypes
  <2>2. Len(peers') <= p_capacity
    BY <1>0 DEF PeerTypes
  <2> QED BY <1>0, <1>2, <2>1, <2>2 DEF PeerTypes
<1>6. Indexed'
  <2>1. ASSUME NEW i \in PeerIds, id_map'[i] # NULL
        PROVE  id_map'[i] \in PeerSet!Live \ D /\ peer'[id_map'[i]].id = i
    BY <1>0, <1>4, <2>1 DEF Indexed
  <2>2. ASSUME NEW p \in PeerSet!Live \ D, peer'[p].id \in PeerIds PROVE id_map'[peer'[p].id] = p
    <3>1. peer[p].id \in PeerIds /\ peer'[p].id = peer[p].id /\ id_map[peer[p].id] = p
      BY <1>0, <1>4, <2>2 DEF Indexed
    <3>2. \A q \in D : peer[q].id # peer[p].id
      BY <1>0, <3>1 DEF Indexed
    <3> QED BY <3>1, <3>2
  <2> QED BY <1>3, <2>1, <2>2 DEF Indexed
<1>7. Owners'
  <2>1. \A s : s \in PeerSet!SocketsOf(D) <=> s # NULL /\ \E p \in D : peer[p].sock = s
    BY DEF PeerSet!SocketsOf
  <2>2. \A p \in PeerSet!Live \ D : peer'[p].sock # NULL => peer'[p].sock \in opened'
    BY <1>0, <1>1, <1>4, <2>1 DEF Owners
  <2>3. ASSUME NEW s \in opened' PROVE \E p \in PeerSet!Live \ D : peer'[p].sock = s
    <3>1. s \in opened /\ s # NULL /\ s \notin PeerSet!SocketsOf(D)
      BY <1>0, <1>1 DEF PeerTypes
    <3>2. PICK p \in PeerSet!Live : peer[p].sock = s
      BY <1>0, <3>1 DEF Owners
    <3> QED BY <1>4, <2>1, <3>1, <3>2
  <2>4. \A p, q \in PeerSet!Live \ D :
            peer'[p].sock = peer'[q].sock /\ p # q => peer'[p].sock = NULL
    BY <1>0, <1>4 DEF Owners
  <2> QED BY <1>3, <2>2, <2>3, <2>4 DEF Owners
<1>8. \A p \in PeerSet!Live' : Honest(p)'
  BY <1>0, <1>3, <1>4 DEF Honest, PeerSet!IsConnected
<1> QED BY <1>3, <1>5, <1>6, <1>7, <1>8 DEF PeersInv

LEMMA FunctionIsSeq ==
    ASSUME NEW S, NEW n \in Nat, NEW s \in [1..n -> S]
    PROVE  s \in Seq(S) /\ Len(s) = n
OBVIOUS

\* What is left of the array when peers are removed lists the others.
LEMMA RemovedLists ==
    ASSUME PeersInv, NEW D \in SUBSET PeerSet!Live, PeerSet!Removed(D)
    PROVE  /\ peers' \in Seq(Cells) /\ Len(peers') <= Len(peers)
           /\ Lists(peers', PeerSet!Live \ D)
<1> DEFINE kept == {i \in DOMAIN peers : peers[i] \notin D}
<1>0. PICK n \in 0..Len(peers) : \E from \in [1..n -> kept] :
          /\ kept = {from[k] : k \in 1..n}
          /\ \A j, k \in 1..n : j < k => from[j] < from[k]
          /\ peers' = [k \in 1..n |-> peers[from[k]]]
  BY DEF PeerSet!Removed
<1>1. PICK from \in [1..n -> kept] :
          /\ kept = {from[k] : k \in 1..n}
          /\ \A j, k \in 1..n : j < k => from[j] < from[k]
          /\ peers' = [k \in 1..n |-> peers[from[k]]]
  BY <1>0
<1>2. /\ peers \in Seq(Cells) /\ Len(peers) \in Nat /\ DOMAIN peers = 1..Len(peers)
      /\ Lists(peers, PeerSet!Live)
  BY DEF PeersInv, PeerTypes
<1>3. \A i : i \in kept <=> i \in 1..Len(peers) /\ peers[i] \notin D
  BY <1>2
<1> HIDE DEF kept
<1>4. \A k \in 1..n : from[k] \in 1..Len(peers) /\ peers[from[k]] \in Cells /\ peers[from[k]] \notin D
  BY <1>1, <1>2, <1>3
<1>5. peers' \in Seq(Cells) /\ Len(peers') = n /\ \A k \in 1..n : peers'[k] = peers[from[k]]
  <2>1. peers' \in [1..n -> Cells] /\ n \in Nat
    BY <1>1, <1>2, <1>4
  <2> QED BY <1>1, <2>1, FunctionIsSeq
<1>6. \A k \in 1..n : peers'[k] \in PeerSet!Live \ D
  BY <1>2, <1>4, <1>5 DEF Lists
<1>7. ASSUME NEW p \in PeerSet!Live \ D PROVE \E k \in 1..n : peers'[k] = p
  <2>1. PICK i \in 1..Len(peers) : peers[i] = p
    BY <1>2 DEF Lists
  <2>2. i \in kept
    BY <1>3, <2>1
  <2>3. PICK k \in 1..n : from[k] = i
    BY <1>1, <2>2
  <2> QED BY <1>5, <2>1, <2>3
<1>8. ASSUME NEW j \in 1..n, NEW k \in 1..n, peers'[j] = peers'[k] PROVE j = k
  <2>1. from[j] = from[k]
    BY <1>2, <1>4, <1>5, <1>8 DEF Lists
  <2>2. from[j] \in Int /\ from[k] \in Int /\ j \in Int /\ k \in Int
    BY <1>4
  <2>3. ~(j < k) /\ ~(k < j)
    <3>1. (j < k => from[j] < from[k]) /\ (k < j => from[k] < from[j])
      BY <1>1
    <3> QED BY <2>1, <2>2, <3>1
  <2> QED BY <2>2, <2>3
<1>9. peers' \in Seq(Cells) /\ Len(peers') <= Len(peers) /\ Len(peers') = n
  BY <1>2, <1>5
<1>10. Lists(peers', PeerSet!Live \ D)
  <2>1. \A k \in 1..Len(peers') : peers'[k] \in PeerSet!Live \ D
    BY <1>6, <1>9
  <2>2. \A p \in PeerSet!Live \ D : \E k \in 1..Len(peers') : peers'[k] = p
    BY <1>7, <1>9
  <2>3. \A j, k \in 1..Len(peers') : peers'[j] = peers'[k] => j = k
    BY <1>8, <1>9
  <2> QED BY <2>1, <2>2, <2>3 DEF Lists
<1> QED BY <1>9, <1>10

\* The clock moves the peers' silence and nothing else.
Like(a, b) == a.id = b.id /\ a.sock = b.sock /\ a.state = b.state /\ a.blacklisted = b.blacklisted

LEMMA LaterLike ==
    ASSUME PeerSet!PeersAssumption, NEW ps \in [Cells -> PeerType \cup {PeerSet!Free}], NEW n \in 0..1
    PROVE  /\ PeerSet!Later(ps, n) \in [Cells -> PeerType \cup {PeerSet!Free}]
           /\ \A q \in Cells :
                /\ PeerSet!Later(ps, n)[q] \in PeerType <=> ps[q] \in PeerType
                /\ Like(PeerSet!Later(ps, n)[q], ps[q])
<1>0. Timeout \in Nat
  BY DEF PeerSet!PeersAssumption
<1>1. ASSUME NEW q \in Cells
      PROVE  /\ PeerSet!Later(ps, n)[q] \in PeerType \cup {PeerSet!Free}
             /\ PeerSet!Later(ps, n)[q] \in PeerType <=> ps[q] \in PeerType
             /\ Like(PeerSet!Later(ps, n)[q], ps[q])
  <2>1. CASE ps[q] = PeerSet!Free
    <3>1. PeerSet!Later(ps, n)[q] = ps[q]
      BY <2>1, FreeIsNoPeer DEF PeerSet!Later
    <3> QED BY <2>1, <3>1, FreeIsNoPeer DEF Like
  <2>2. CASE ps[q] \in PeerType
    <3> DEFINE a == ps[q]
               t == IF a.silent + n > Timeout THEN Timeout ELSE a.silent + n
               r == [a EXCEPT !.silent = t]
    <3>1. a \in PeerType /\ a.live
      BY <2>2 DEF PeerType
    <3>2. PeerSet!Later(ps, n)[q] = r
      BY <3>1 DEF PeerSet!Later
    <3>3. a.silent \in 0..Timeout
      BY <3>1 DEF PeerType
    <3>4. t \in 0..Timeout
      BY <1>0, <3>3
    <3> HIDE DEF a, t
    <3>5. r \in PeerType /\ Like(r, a)
      BY <3>1, <3>4 DEF PeerType, Like
    <3> QED BY <2>2, <3>2, <3>5 DEF a
  <2> QED BY <2>1, <2>2
<1>2. PeerSet!Later(ps, n) = [q \in Cells |-> PeerSet!Later(ps, n)[q]]
  BY DEF PeerSet!Later
<1> QED BY <1>1, <1>2

LEMMA SameLive ==
    ASSUME peer \in [Cells -> PeerType \cup {PeerSet!Free}], peer' \in [Cells -> PeerType \cup {PeerSet!Free}],
           \A q \in Cells : peer'[q] \in PeerType <=> peer[q] \in PeerType
    PROVE  PeerSet!Live' = PeerSet!Live
<1>1. \A q \in Cells : peer[q].live <=> peer[q] \in PeerType
  BY FreeIsNoPeer DEF PeerType
<1>2. \A q \in Cells : peer'[q].live <=> peer'[q] \in PeerType
  BY FreeIsNoPeer DEF PeerType
<1> QED BY <1>1, <1>2 DEF PeerSet!Live

\* One peer's record is replaced.
LEMMA RecordPut ==
    ASSUME peer \in [Cells -> PeerType \cup {PeerSet!Free}], NEW p \in PeerSet!Live, NEW r \in PeerType,
           peer' = [peer EXCEPT ![p] = r]
    PROVE  /\ p \in Cells /\ peer' \in [Cells -> PeerType \cup {PeerSet!Free}]
           /\ PeerSet!Live' = PeerSet!Live /\ peer'[p] = r
           /\ \A q \in PeerSet!Live \ {p} : Alike(q)
<1>1. /\ p \in Cells /\ peer[p] \in PeerType
      /\ PeerSet!Live \subseteq Cells
  BY LivePeers
<1>2. peer' \in [Cells -> PeerType \cup {PeerSet!Free}] /\ peer'[p] = r
  BY <1>1
<1>3. \A q \in Cells \ {p} : peer'[q] = peer[q]
  BY <1>1
<1>4. PeerSet!Live' = PeerSet!Live
  BY <1>1, <1>2, <1>3, SameLive
<1> QED BY <1>1, <1>2, <1>3, <1>4 DEF Alike

\* A peer's record takes another state; its socket, name and flag stay.
Restated(r, a, s) ==
    /\ r \in PeerType /\ r.state = s
    /\ r.id = a.id /\ r.sock = a.sock /\ r.blacklisted = a.blacklisted

\* A peer that keeps its socket.
LEMMA PeerMarked ==
    ASSUME PeerSet!PeersAssumption, PeersInv, NEW p \in PeerSet!Live, NEW r \in PeerType,
           peer' = [peer EXCEPT ![p] = r], r.id = peer[p].id, r.sock = peer[p].sock,
           r.blacklisted => peer[p].blacklisted,
           r.state \in {"CONNECTED", "ACTIVE"} => r.sock # NULL,
           UNCHANGED <<peers, p_capacity, id_map, blacklist, opened>>
    PROVE  PeersInv'
<1>1. peer \in [Cells -> PeerType \cup {PeerSet!Free}] /\ Honest(p) /\ blacklist \subseteq PeerIds
  BY DEF PeersInv, PeerTypes
<1>2. /\ p \in Cells /\ peer' \in [Cells -> PeerType \cup {PeerSet!Free}]
      /\ PeerSet!Live' = PeerSet!Live /\ peer'[p] = r
      /\ \A q \in PeerSet!Live \ {p} : Alike(q)
  BY <1>1, RecordPut
<1>3. Honest(p)'
  BY <1>1, <1>2 DEF Honest, PeerSet!IsConnected
<1> QED BY <1>1, <1>2, <1>3, OnePeer

\* Known peers are rediscovered, used, and marked active or idle.
LEMMA PeerUsed ==
    ASSUME PeerSet!PeersAssumption, PeersInv,
           \/ \E id \in PeerIds : PeerSet!AddKnown(id)
           \/ \E p \in Cells : PeerSet!Transfer(p)
           \/ \E p \in Cells, s \in PeerSet!States : PeerSet!SetState(p, s)
    PROVE  PeersInv'
<1>0. /\ peer \in [Cells -> PeerType \cup {PeerSet!Free}] /\ 0 \in 0..Timeout
      /\ \A p \in PeerSet!Live : peer[p] \in PeerType /\ p \in Cells /\ Honest(p)
  <2>1. peer \in [Cells -> PeerType \cup {PeerSet!Free}] /\ \A p \in PeerSet!Live : Honest(p)
    BY DEF PeersInv, PeerTypes
  <2>2. 0 \in 0..Timeout
    BY DEF PeerSet!PeersAssumption
  <2> QED BY <2>1, <2>2, LivePeers
<1>1. ASSUME NEW id \in PeerIds, PeerSet!AddKnown(id) PROVE PeersInv'
  <2> DEFINE p == id_map[id]
             r == [peer[p] EXCEPT !.state = "DISCOVERED", !.silent = 0]
  <2>1. p \in PeerSet!Live /\ p \in Cells /\ peer[p] \in PeerType
    BY <1>0, <1>1 DEF PeerSet!AddKnown, PeersInv, Indexed
  <2>2. /\ peer' = [peer EXCEPT ![p] = r]
        /\ UNCHANGED <<peers, p_capacity, id_map, blacklist, opened>>
    BY <1>0, <1>1, <2>1 DEF PeerSet!AddKnown
  <2>3. Restated(r, peer[p], "DISCOVERED")
    <3> DEFINE a == peer[p]
    <3>1. a \in PeerType /\ 0 \in 0..Timeout
      BY <1>0, <2>1
    <3> HIDE DEF a
    <3>2. Restated([a EXCEPT !.state = "DISCOVERED", !.silent = 0], a, "DISCOVERED")
      BY <3>1 DEF Restated, PeerType, PeerSet!States
    <3> QED BY <3>2 DEF a
  <2> HIDE DEF p, r
  <2> QED BY <2>1, <2>2, <2>3, PeerMarked DEF Restated
<1>2. ASSUME NEW p \in Cells, PeerSet!Transfer(p) PROVE PeersInv'
  <2> DEFINE r == [peer[p] EXCEPT !.silent = 0]
  <2>1. p \in PeerSet!Live /\ peer[p] \in PeerType /\ Honest(p)
    BY <1>0, <1>2 DEF PeerSet!Transfer
  <2>2. /\ peer' = [peer EXCEPT ![p] = r]
        /\ UNCHANGED <<peers, p_capacity, id_map, blacklist, opened>>
    BY <1>0, <1>2, <2>1 DEF PeerSet!Transfer
  <2>3. Restated(r, peer[p], peer[p].state)
    <3> DEFINE a == peer[p]
    <3>1. a \in PeerType /\ 0 \in 0..Timeout
      BY <1>0, <2>1
    <3> HIDE DEF a
    <3>2. Restated([a EXCEPT !.silent = 0], a, a.state)
      BY <3>1 DEF Restated, PeerType
    <3> QED BY <3>2 DEF a
  <2> HIDE DEF r
  <2>4. r.state \in {"CONNECTED", "ACTIVE"} => r.sock # NULL
    BY <2>1, <2>3 DEF Honest, PeerSet!IsConnected, Restated
  <2> QED BY <2>1, <2>2, <2>3, <2>4, PeerMarked DEF Restated
<1>3. ASSUME NEW p \in Cells, NEW s \in PeerSet!States, PeerSet!SetState(p, s) PROVE PeersInv'
  <2> DEFINE r == [peer[p] EXCEPT !.state = s]
  <2>1. p \in PeerSet!Live /\ peer[p] \in PeerType /\ peer[p].sock # NULL
    BY <1>0, <1>3 DEF PeerSet!SetState
  <2>2. /\ peer' = [peer EXCEPT ![p] = r]
        /\ UNCHANGED <<peers, p_capacity, id_map, blacklist, opened>>
    BY <1>0, <1>3, <2>1 DEF PeerSet!SetState
  <2>3. Restated(r, peer[p], s)
    <3> DEFINE a == peer[p]
    <3>1. a \in PeerType /\ 0 \in 0..Timeout
      BY <1>0, <2>1
    <3> HIDE DEF a
    <3>2. Restated([a EXCEPT !.state = s], a, s)
      BY <3>1 DEF Restated, PeerType
    <3> QED BY <3>2 DEF a
  <2> HIDE DEF r
  <2> QED BY <2>1, <2>2, <2>3, PeerMarked DEF Restated
<1> QED BY <1>1, <1>2, <1>3

\* A connection fails, and the clock ticks.
LEMMA PeerWaited ==
    ASSUME PeerSet!PeersAssumption, PeersInv,
           PeerSet!Tick \/ \E p \in Cells : PeerSet!ConnectFails(p)
    PROVE  PeersInv'
<1>0. /\ peer \in [Cells -> PeerType \cup {PeerSet!Free}] /\ blacklist \subseteq PeerIds
      /\ \A p \in PeerSet!Live : peer[p] \in PeerType /\ p \in Cells /\ Honest(p)
  <2>1. /\ peer \in [Cells -> PeerType \cup {PeerSet!Free}] /\ blacklist \subseteq PeerIds
        /\ \A p \in PeerSet!Live : Honest(p)
    BY DEF PeersInv, PeerTypes
  <2> QED BY <2>1, LivePeers
<1>1. ASSUME NEW p \in PeerSet!Live, NEW n \in 0..1,
             NEW ps \in [Cells -> PeerType \cup {PeerSet!Free}],
             \A q \in Cells : ps[q] \in PeerType <=> peer[q] \in PeerType,
             \A q \in PeerSet!Live \ {p} : ps[q] = peer[q],
             ps[p].id = peer[p].id, ps[p].sock = peer[p].sock,
             ps[p].blacklisted = peer[p].blacklisted, ps[p].state \in {"ERROR", peer[p].state},
             peer' = PeerSet!Later(ps, n),
             UNCHANGED <<peers, p_capacity, id_map, blacklist, opened>>
      PROVE  PeersInv'
  <2>1. /\ peer' \in [Cells -> PeerType \cup {PeerSet!Free}]
        /\ \A q \in Cells : (peer'[q] \in PeerType <=> ps[q] \in PeerType) /\ Like(peer'[q], ps[q])
    BY <1>1, LaterLike
  <2>2. PeerSet!Live' = PeerSet!Live
    BY <1>0, <1>1, <2>1, SameLive
  <2>3. \A q \in PeerSet!Live \ {p} : Alike(q)
    BY <1>0, <1>1, <2>1 DEF Like, Alike
  <2>4. /\ peer'[p].id = peer[p].id /\ peer'[p].sock = peer[p].sock
        /\ peer'[p].blacklisted = peer[p].blacklisted
        /\ peer'[p].state \in {"ERROR", peer[p].state}
    BY <1>0, <1>1, <2>1 DEF Like
  <2>5. Honest(p)'
    BY <1>0, <1>1, <2>4 DEF Honest, PeerSet!IsConnected
  <2> QED BY <1>0, <1>1, <2>1, <2>2, <2>3, <2>4, <2>5, OnePeer
<1>2. CASE PeerSet!Tick
  <2>1. /\ peer' = PeerSet!Later(peer, 1) /\ 1 \in 0..1
        /\ UNCHANGED <<peers, p_capacity, id_map, blacklist, opened>>
    BY <1>2 DEF PeerSet!Tick
  <2>2. CASE PeerSet!Live = {}
    <3>1. /\ peer' \in [Cells -> PeerType \cup {PeerSet!Free}]
          /\ \A q \in Cells : peer'[q] \in PeerType <=> peer[q] \in PeerType
      BY <1>0, <2>1, LaterLike
    <3>2. PeerSet!Live' = {}
      BY <1>0, <2>2, <3>1, SameLive
    <3> QED BY <2>1, <2>2, <3>1, <3>2 DEF PeersInv, PeerTypes, Lists, Indexed, Owners
  <2>3. CASE PeerSet!Live # {}
    <3>1. PICK p \in PeerSet!Live : TRUE
      BY <2>3
    <3> QED BY <1>0, <1>1, <2>1, <3>1
  <2> QED BY <2>2, <2>3
<1>3. ASSUME NEW p \in Cells, PeerSet!ConnectFails(p) PROVE PeersInv'
  <2>1. /\ p \in PeerSet!Live /\ peer[p] \in PeerType
        /\ UNCHANGED <<peers, p_capacity, id_map, blacklist, opened>>
    BY <1>0, <1>3 DEF PeerSet!ConnectFails
  <2> DEFINE r == [peer[p] EXCEPT !.state = "ERROR"]
             ps == [peer EXCEPT ![p] = r]
  <2>2. PICK n \in 0..1 : peer' = PeerSet!Later(ps, n)
    BY <1>0, <1>3, <2>1 DEF PeerSet!ConnectFails
  <2>3. /\ r \in PeerType /\ r.id = peer[p].id /\ r.sock = peer[p].sock
        /\ r.blacklisted = peer[p].blacklisted /\ r.state = "ERROR"
    BY <2>1 DEF PeerType, PeerSet!States
  <2> HIDE DEF r
  <2>4. /\ ps \in [Cells -> PeerType \cup {PeerSet!Free}] /\ ps[p] = r
        /\ \A q \in Cells \ {p} : ps[q] = peer[q]
    BY <1>0, <2>3
  <2> HIDE DEF ps
  <2>5. \A q \in Cells : ps[q] \in PeerType <=> peer[q] \in PeerType
    BY <2>1, <2>3, <2>4
  <2> QED BY <1>0, <1>1, <2>1, <2>2, <2>3, <2>4, <2>5
<1> QED BY <1>2, <1>3

\* A new peer takes a free cell, the end of the array, and the index if it has an id.
LEMMA PeerAdded ==
    ASSUME PeerSet!PeersAssumption, PeersInv, NEW id \in PeerIds \cup {ZeroId},
           NEW addr \in BOOLEAN, NEW p \in Cells \ PeerSet!Live, PeerSet!AddNew(id, addr, p)
    PROVE  PeersInv'
<1> DEFINE r == PeerSet!NewPeer(id, addr)
<1>0. /\ PeerTypes /\ Lists(peers, PeerSet!Live) /\ Indexed /\ Owners
      /\ ZeroId \notin PeerIds /\ max_peers \in Nat \ {0} /\ Timeout \in Nat
      /\ \A q \in PeerSet!Live : Honest(q)
  BY DEF PeersInv, PeerSet!PeersAssumption
<1>1. /\ id \in PeerIds => id_map[id] = NULL
      /\ Len(peers) < max_peers
      /\ p_capacity' = IF Len(peers) >= p_capacity THEN PeerSet!Grown(p_capacity) ELSE p_capacity
      /\ peer' = [peer EXCEPT ![p] = r]
      /\ peers' = Append(peers, p)
      /\ id_map' = IF id \in PeerIds THEN [id_map EXCEPT ![id] = p] ELSE id_map
      /\ blacklist' = blacklist /\ opened' = opened
  BY DEF PeerSet!AddNew
<1>2. /\ r \in PeerType /\ r.id = id /\ r.sock = NULL /\ r.state = "DISCOVERED"
      /\ r.blacklisted = FALSE
  BY <1>0 DEF PeerSet!NewPeer, PeerType, PeerSet!States
<1> HIDE DEF r
<1>3. /\ peer' \in [Cells -> PeerType \cup {PeerSet!Free}] /\ peer'[p] = r
      /\ \A q \in PeerSet!Live : peer'[q] = peer[q]
      /\ PeerSet!Live' = PeerSet!Live \cup {p} /\ PeerSet!Live \subseteq Cells
  <2>1. PeerSet!Live \subseteq Cells
    BY DEF PeerSet!Live
  <2>2. peer' \in [Cells -> PeerType \cup {PeerSet!Free}] /\ peer'[p] = r
    BY <1>0, <1>1, <1>2 DEF PeerTypes
  <2>3. \A q \in Cells \ {p} : peer'[q] = peer[q]
    BY <1>0, <1>1 DEF PeerTypes
  <2>4. r.live = TRUE
    BY <1>2 DEF PeerType
  <2> QED BY <2>1, <2>2, <2>3, <2>4 DEF PeerSet!Live
<1>4. PeerTypes'
  <2>1. p_capacity \in 1..max_peers /\ Len(peers) \in Nat /\ Len(peers) <= p_capacity
    BY <1>0 DEF PeerTypes
  <2>2. p_capacity' \in 1..max_peers /\ Len(peers) + 1 <= p_capacity'
    BY <1>0, <1>1, <2>1 DEF PeerSet!Grown
  <2>3. peers' \in Seq(Cells) /\ Len(peers') = Len(peers) + 1
    BY <1>0, <1>1 DEF PeerTypes
  <2>4. id_map' \in [PeerIds -> Cells \cup {NULL}]
    BY <1>0, <1>1 DEF PeerTypes
  <2> QED BY <1>0, <1>1, <1>3, <2>2, <2>3, <2>4 DEF PeerTypes
<1>5. Lists(peers, PeerSet!Live)'
  <2>1. /\ Len(peers') = Len(peers) + 1 /\ Len(peers) \in Nat /\ peers'[Len(peers) + 1] = p
        /\ \A i \in 1..Len(peers) : peers'[i] = peers[i]
    BY <1>0, <1>1 DEF PeerTypes
  <2>2. \A i \in 1..(Len(peers) + 1) : i \in 1..Len(peers) \/ i = Len(peers) + 1
    BY <2>1
  <2>3. \A i \in 1..Len(peers) : i \in 1..(Len(peers) + 1)
    BY <2>1
  <2>4. Len(peers) + 1 \in 1..(Len(peers) + 1)
    BY <2>1
  <2>5. \A i \in 1..Len(peers') : peers'[i] \in PeerSet!Live'
    BY <1>0, <1>3, <2>1, <2>2 DEF Lists
  <2>6. \A q \in PeerSet!Live' : \E i \in 1..Len(peers') : peers'[i] = q
    BY <1>0, <1>3, <2>1, <2>3, <2>4 DEF Lists
  <2>7. ASSUME NEW i \in 1..Len(peers'), NEW j \in 1..Len(peers'), peers'[i] = peers'[j] PROVE i = j
    <3>1. \A k \in 1..Len(peers) : peers'[k] # p
      BY <1>0, <2>1 DEF Lists
    <3>2. CASE i \in 1..Len(peers) /\ j \in 1..Len(peers)
      BY <1>0, <2>1, <2>7, <3>2 DEF Lists
    <3> QED BY <2>1, <2>2, <2>7, <3>1, <3>2
  <2> QED BY <2>5, <2>6, <2>7 DEF Lists
<1>6. Indexed'
  <2>1. ASSUME NEW i \in PeerIds, id_map'[i] # NULL
        PROVE  id_map'[i] \in PeerSet!Live' /\ peer'[id_map'[i]].id = i
    <3>1. CASE i = id
      BY <1>0, <1>1, <1>2, <1>3, <3>1 DEF PeerTypes
    <3>2. CASE i # id
      <4>1. id_map'[i] = id_map[i]
        BY <1>0, <1>1, <3>2 DEF PeerTypes
      <4> QED BY <1>0, <1>3, <2>1, <4>1 DEF Indexed
    <3> QED BY <3>1, <3>2
  <2>2. ASSUME NEW q \in PeerSet!Live', peer'[q].id \in PeerIds PROVE id_map'[peer'[q].id] = q
    <3>1. CASE q = p
      BY <1>0, <1>1, <1>2, <1>3, <2>2, <3>1 DEF PeerTypes
    <3>2. CASE q # p
      <4>1. q \in PeerSet!Live /\ peer'[q] = peer[q] /\ q \in Cells
        BY <1>3, <3>2
      <4>2. id_map[peer[q].id] = q
        BY <1>0, <2>2, <4>1 DEF Indexed
      <4>3. id \in PeerIds => peer[q].id # id
        <5>1. NULL \notin Cells
          BY DEF PeerSet!PeersAssumption
        <5> QED BY <1>1, <4>1, <4>2, <5>1
      <4> QED BY <1>0, <1>1, <2>2, <4>1, <4>2, <4>3 DEF PeerTypes
    <3> QED BY <3>1, <3>2
  <2> QED BY <2>1, <2>2 DEF Indexed
<1>7. Owners'
  BY <1>0, <1>1, <1>2, <1>3 DEF Owners
<1>8. \A q \in PeerSet!Live' : Honest(q)'
  BY <1>0, <1>1, <1>2, <1>3 DEF Honest, PeerSet!IsConnected
<1> QED BY <1>4, <1>5, <1>6, <1>7, <1>8 DEF PeersInv

\* A peer connects: the new socket replaces the one it had.
LEMMA PeerConnected ==
    ASSUME PeerSet!PeersAssumption, PeersInv, NEW p \in Cells, NEW s \in Socks \ opened,
           PeerSet!ConnectSucceeds(p, s)
    PROVE  PeersInv'
<1>1. /\ p \in PeerSet!Live /\ opened' = (opened \ PeerSet!SocketsOf({p})) \cup {s}
      /\ UNCHANGED <<peers, p_capacity, id_map, blacklist>>
  BY DEF PeerSet!ConnectSucceeds
<1>2. PICK n \in 0..1 : peer' = [PeerSet!Later(peer, n) EXCEPT ![p].sock = s,
                                     ![p].state = "CONNECTED", ![p].silent = 0]
  BY DEF PeerSet!ConnectSucceeds
<1>3. /\ peer \in [Cells -> PeerType \cup {PeerSet!Free}] /\ peer[p] \in PeerType
      /\ blacklist \subseteq PeerIds /\ opened \subseteq Socks /\ Timeout \in Nat /\ Honest(p)
      /\ NULL \notin Socks /\ PeerSet!Live \subseteq Cells
  <2>1. /\ peer \in [Cells -> PeerType \cup {PeerSet!Free}] /\ Honest(p)
        /\ blacklist \subseteq PeerIds /\ opened \subseteq Socks
    BY <1>1 DEF PeersInv, PeerTypes
  <2>2. NULL \notin Socks /\ Timeout \in Nat
    BY DEF PeerSet!PeersAssumption
  <2> QED BY <1>1, <2>1, <2>2, LivePeers
<1> DEFINE later == PeerSet!Later(peer, n)
           r == [later[p] EXCEPT !.sock = s, !.state = "CONNECTED", !.silent = 0]
<1>4. /\ later \in [Cells -> PeerType \cup {PeerSet!Free}] /\ later[p] \in PeerType
      /\ \A q \in Cells : (later[q] \in PeerType <=> peer[q] \in PeerType) /\ Like(later[q], peer[q])
  BY <1>3, LaterLike
<1>5. peer' = [later EXCEPT ![p] = r]
  BY <1>2, <1>4
<1> HIDE DEF later
<1>6. /\ r \in PeerType /\ r.sock = s /\ r.state = "CONNECTED" /\ r.id = later[p].id
      /\ r.blacklisted = later[p].blacklisted
  <2> DEFINE a == later[p]
  <2>1. a \in PeerType /\ 0 \in 0..Timeout
    BY <1>3, <1>4
  <2> HIDE DEF a
  <2>2. LET z == [a EXCEPT !.sock = s, !.state = "CONNECTED", !.silent = 0] IN
        /\ z \in PeerType /\ z.sock = s /\ z.state = "CONNECTED" /\ z.id = a.id
        /\ z.blacklisted = a.blacklisted
    BY <2>1 DEF PeerType, PeerSet!States
  <2> QED BY <2>2 DEF a
<1> HIDE DEF r
<1>7. /\ peer' \in [Cells -> PeerType \cup {PeerSet!Free}] /\ peer'[p] = r
      /\ \A q \in Cells \ {p} : peer'[q] = later[q]
  BY <1>4, <1>5, <1>6
<1>8. PeerSet!Live' = PeerSet!Live
  <2>1. \A q \in Cells : peer'[q] \in PeerType <=> peer[q] \in PeerType
    BY <1>3, <1>4, <1>6, <1>7
  <2> QED BY <1>3, <1>7, <2>1, SameLive
<1>9. \A q \in PeerSet!Live \ {p} : Alike(q)
  BY <1>3, <1>4, <1>7 DEF Like, Alike
<1>10. peer'[p].id = peer[p].id /\ peer'[p].sock = s /\ peer'[p].blacklisted = peer[p].blacklisted
  BY <1>4, <1>6, <1>7 DEF Like
<1>11. Honest(p)'
  BY <1>1, <1>3, <1>10 DEF Honest, PeerSet!IsConnected
<1>12. opened' = (opened \ {peer[p].sock}) \cup {s}
  BY <1>1, <1>3 DEF PeerSet!SocketsOf
<1> QED BY <1>1, <1>3, <1>7, <1>8, <1>9, <1>10, <1>11, <1>12, OnePeer

\* A peer that loses its socket, and a flag set or cleared with its identifier.
LEMMA PeerDisconnected ==
    ASSUME PeerSet!PeersAssumption, PeersInv, NEW p \in Cells, PeerSet!Disconnect(p)
    PROVE  PeersInv'
<1> DEFINE r == PeerSet!Disconnected(peer[p])
<1>0. /\ peer \in [Cells -> PeerType \cup {PeerSet!Free}] /\ blacklist \subseteq PeerIds
      /\ Timeout \in Nat /\ opened \subseteq Socks /\ NULL \notin Socks
  BY DEF PeersInv, PeerTypes, PeerSet!PeersAssumption
<1>1. /\ p \in PeerSet!Live /\ peer[p] \in PeerType /\ opened' = opened \ PeerSet!SocketsOf({p})
      /\ peer' = [peer EXCEPT ![p] = r]
      /\ UNCHANGED <<peers, p_capacity, id_map, blacklist>>
  BY <1>0, LivePeers DEF PeerSet!Disconnect
<1>2. /\ r \in PeerType /\ r.sock = NULL /\ r.state = "DISCONNECT" /\ r.id = peer[p].id
      /\ r.blacklisted = peer[p].blacklisted
  <2> DEFINE a == peer[p]
  <2>1. a \in PeerType /\ 0 \in 0..Timeout
    BY <1>0, <1>1
  <2> HIDE DEF a
  <2>2. LET z == PeerSet!Disconnected(a) IN
        /\ z \in PeerType /\ z.sock = NULL /\ z.state = "DISCONNECT" /\ z.id = a.id
        /\ z.blacklisted = a.blacklisted
    BY <2>1 DEF PeerType, PeerSet!States, PeerSet!Disconnected
  <2> QED BY <2>2 DEF a
<1> HIDE DEF r
<1>3. /\ peer' \in [Cells -> PeerType \cup {PeerSet!Free}]
      /\ PeerSet!Live' = PeerSet!Live /\ peer'[p] = r
      /\ \A q \in PeerSet!Live \ {p} : Alike(q)
  BY <1>0, <1>1, <1>2, RecordPut
<1>4. opened' = opened \ {peer[p].sock}
  BY <1>0, <1>1 DEF PeerSet!SocketsOf
<1>5. Honest(p)
  BY <1>1 DEF PeersInv
<1>6. Honest(p)'
  BY <1>1, <1>2, <1>3, <1>5 DEF Honest, PeerSet!IsConnected
<1> QED BY <1>0, <1>1, <1>2, <1>3, <1>4, <1>6, OnePeer

LEMMA PeerBlacklisted ==
    ASSUME PeerSet!PeersAssumption, PeersInv, NEW id \in PeerIds, PeerSet!Blacklist(id)
    PROVE  PeersInv'
<1> DEFINE p == id_map[id]
<1>0. /\ peer \in [Cells -> PeerType \cup {PeerSet!Free}] /\ blacklist \subseteq PeerIds
      /\ Timeout \in Nat /\ opened \subseteq Socks /\ NULL \notin Socks /\ NULL \notin Cells
  BY DEF PeersInv, PeerTypes, PeerSet!PeersAssumption
<1>1. blacklist' = blacklist \cup {id} /\ UNCHANGED <<peers, p_capacity, id_map>>
  BY DEF PeerSet!Blacklist
<1>2. CASE p = NULL
  <2>1. UNCHANGED <<peer, opened>>
    BY <1>2 DEF PeerSet!Blacklist
  <2>2. PeerSet!Live' = PeerSet!Live
    BY <2>1 DEF PeerSet!Live
  <2>3. \A q \in PeerSet!Live : Honest(q)'
    BY <1>1, <2>1 DEF PeersInv, Honest, PeerSet!IsConnected
  <2>4. PeerTypes' /\ Lists(peers, PeerSet!Live)'
    BY <1>0, <1>1, <2>1, <2>2 DEF PeersInv, PeerTypes, Lists
  <2>5. Indexed' /\ Owners'
    BY <1>1, <2>1, <2>2 DEF PeersInv, Indexed, Owners
  <2> QED BY <2>2, <2>3, <2>4, <2>5 DEF PeersInv
<1>3. CASE p # NULL
  <2>1. PICK q \in PeerSet!Live :
            q = id_map[id] /\ peer[q].id = id /\ q \in Cells /\ peer[q] \in PeerType
    BY <1>0, <1>3, LivePeers DEF PeersInv, Indexed
  <2> DEFINE a == peer[q]
             flagged == [a EXCEPT !.blacklisted = TRUE, !.state = "BLACKLIST"]
             r == IF flagged.sock # NULL THEN PeerSet!Disconnected(flagged) ELSE flagged
  <2>2. peer' = [peer EXCEPT ![q] = r] /\ opened' = opened \ PeerSet!SocketsOf({q})
    BY <1>0, <1>3, <2>1 DEF PeerSet!Blacklist
  <2>3. a \in PeerType /\ a.id = id /\ 0 \in 0..Timeout /\ q \in PeerSet!Live
    BY <1>0, <2>1
  <2>4. opened' = opened \ {a.sock}
    BY <1>0, <2>2 DEF PeerSet!SocketsOf
  <2> HIDE DEF a
  <2>5. /\ flagged \in PeerType /\ flagged.sock = a.sock /\ flagged.id = a.id
        /\ flagged.state = "BLACKLIST" /\ flagged.blacklisted = TRUE
    BY <2>3 DEF PeerType, PeerSet!States
  <2> HIDE DEF flagged
  <2>6. /\ r \in PeerType /\ r.id = a.id /\ r.sock = NULL /\ r.blacklisted = TRUE
        /\ r.state \in {"BLACKLIST", "DISCONNECT"}
    BY <2>3, <2>5 DEF PeerType, PeerSet!States, PeerSet!Disconnected
  <2> HIDE DEF r
  <2>7. /\ peer' \in [Cells -> PeerType \cup {PeerSet!Free}]
        /\ PeerSet!Live' = PeerSet!Live /\ peer'[q] = r /\ q \in Cells
        /\ \A c \in PeerSet!Live \ {q} : Alike(c)
    BY <1>0, <2>2, <2>3, <2>6, RecordPut
  <2>8. Honest(q)'
    BY <1>1, <2>3, <2>6, <2>7 DEF Honest, PeerSet!IsConnected
  <2>9. peer[q] = a
    BY DEF a
  <2>10. blacklist' \subseteq PeerIds
    BY <1>0, <1>1
  <2> QED BY <1>1, <2>3, <2>4, <2>6, <2>7, <2>8, <2>9, <2>10, OnePeer
<1> QED BY <1>2, <1>3

LEMMA PeerUnblacklisted ==
    ASSUME PeerSet!PeersAssumption, PeersInv, NEW id \in PeerIds, PeerSet!Unblacklist(id)
    PROVE  PeersInv'
<1> DEFINE p == id_map[id]
<1>0. /\ peer \in [Cells -> PeerType \cup {PeerSet!Free}] /\ blacklist \subseteq PeerIds
      /\ Timeout \in Nat /\ NULL \notin Cells /\ ZeroId \notin PeerIds
      /\ \A q \in PeerSet!Live : Honest(q)
  BY DEF PeersInv, PeerTypes, PeerSet!PeersAssumption
<1>1. blacklist' = blacklist \ {id} /\ UNCHANGED <<peers, p_capacity, id_map, opened>>
  BY DEF PeerSet!Unblacklist
<1>2. CASE p = NULL
  <2>1. peer' = peer
    BY <1>2 DEF PeerSet!Unblacklist
  <2>2. PeerSet!Live' = PeerSet!Live
    BY <2>1 DEF PeerSet!Live
  <2>3. \A q \in PeerSet!Live : peer[q].id # id
    <3>1. \A q \in PeerSet!Live : q \in Cells
      BY DEF PeerSet!Live
    <3> QED BY <1>0, <1>2, <3>1 DEF PeersInv, Indexed
  <2>4. \A q \in PeerSet!Live : Honest(q)'
    BY <1>0, <1>1, <2>1, <2>3 DEF Honest, PeerSet!IsConnected
  <2>5. PeerTypes' /\ Lists(peers, PeerSet!Live)'
    BY <1>0, <1>1, <2>1, <2>2 DEF PeersInv, PeerTypes, Lists
  <2>6. Indexed' /\ Owners'
    BY <1>1, <2>1, <2>2 DEF PeersInv, Indexed, Owners
  <2> QED BY <2>2, <2>4, <2>5, <2>6 DEF PeersInv
<1>3. CASE p # NULL
  <2>1. PICK q \in PeerSet!Live :
            q = id_map[id] /\ peer[q].id = id /\ q \in Cells /\ peer[q] \in PeerType
    BY <1>0, <1>3, LivePeers DEF PeersInv, Indexed
  <2> DEFINE a == peer[q]
             s == IF a.state = "BLACKLIST" THEN "DISCOVERED" ELSE a.state
             r == [a EXCEPT !.blacklisted = FALSE, !.state = s]
  <2>2. peer' = [peer EXCEPT ![q] = r]
    BY <1>0, <1>3, <2>1 DEF PeerSet!Unblacklist
  <2>3. a \in PeerType /\ a.id = id /\ q \in PeerSet!Live /\ peer[q] = a
    BY <2>1
  <2> HIDE DEF a
  <2>4. s \in PeerSet!States /\ s \in {"DISCOVERED", a.state}
    BY <2>3 DEF PeerType, PeerSet!States
  <2> HIDE DEF s
  <2>5. /\ r \in PeerType /\ r.id = a.id /\ r.sock = a.sock /\ r.blacklisted = FALSE
        /\ r.state \in {"DISCOVERED", a.state}
    BY <2>3, <2>4 DEF PeerType
  <2> HIDE DEF r
  <2>6. /\ peer' \in [Cells -> PeerType \cup {PeerSet!Free}]
        /\ PeerSet!Live' = PeerSet!Live /\ peer'[q] = r /\ q \in Cells
        /\ \A c \in PeerSet!Live \ {q} : Alike(c)
    BY <1>0, <2>2, <2>3, <2>5, RecordPut
  <2>7. Honest(q)'
    BY <1>0, <2>3, <2>5, <2>6 DEF Honest, PeerSet!IsConnected
  <2>8. blacklist' \subseteq PeerIds
    BY <1>0, <1>1
  <2> QED BY <1>1, <2>3, <2>5, <2>6, <2>7, <2>8, OnePeer
<1> QED BY <1>2, <1>3

\* Peers are removed by their identifier, expired, or all cleared.
LEMMA PeersRemoved ==
    ASSUME PeerSet!PeersAssumption, PeersInv,
           (\E id \in PeerIds : PeerSet!RemoveId(id)) \/ PeerSet!Expire \/ PeerSet!Clear
    PROVE  PeersInv'
<1>0. /\ PeerTypes /\ Lists(peers, PeerSet!Live) /\ Indexed
      /\ PeerSet!Live \subseteq Cells /\ NULL \notin Cells
  BY DEF PeersInv, PeerSet!Live, PeerSet!PeersAssumption
<1>1. ASSUME NEW id \in PeerIds, PeerSet!RemoveId(id) PROVE PeersInv'
  <2> DEFINE D == {id_map[id]}
  <2>1. D \in SUBSET PeerSet!Live /\ PeerSet!Removed(D) /\ PeerSet!Release(D)
    BY <1>0, <1>1 DEF PeerSet!RemoveId, Indexed
  <2>2. id_map' = [i \in PeerIds |-> IF \E p \in D : peer[p].id = i THEN NULL ELSE id_map[i]]
    <3>1. id_map' = [id_map EXCEPT ![id] = NULL] /\ id_map \in [PeerIds -> Cells \cup {NULL}]
      BY <1>0, <1>1 DEF PeerSet!RemoveId, PeerTypes
    <3>2. peer[id_map[id]].id = id
      BY <1>0, <1>1 DEF PeerSet!RemoveId, Indexed
    <3>3. \A i \in PeerIds : (\E p \in D : peer[p].id = i) <=> i = id
      BY <3>2
    <3> HIDE DEF D
    <3> QED BY <3>1, <3>3
  <2>3. UNCHANGED <<p_capacity, blacklist>>
    BY <1>1 DEF PeerSet!RemoveId
  <2> HIDE DEF D
  <2> QED BY <2>1, <2>2, <2>3, RemovedLists, PeersFreed
<1>2. CASE PeerSet!Expire
  <2> DEFINE D == {p \in PeerSet!Live : PeerSet!IsTimedOut(p)}
  <2>1. /\ D \in SUBSET PeerSet!Live /\ PeerSet!Removed(D) /\ PeerSet!Release(D)
        /\ id_map' = [i \in PeerIds |-> IF \E p \in D : peer[p].id = i THEN NULL ELSE id_map[i]]
        /\ UNCHANGED <<p_capacity, blacklist>>
    BY <1>2 DEF PeerSet!Expire
  <2> HIDE DEF D
  <2> QED BY <2>1, RemovedLists, PeersFreed
<1>3. CASE PeerSet!Clear
  <2> DEFINE D == PeerSet!Live
  <2>1. PeerSet!Range(peers) = D
    <3>1. DOMAIN peers = 1..Len(peers)
      BY <1>0 DEF PeerTypes
    <3> QED BY <1>0, <3>1 DEF PeerSet!Range, Lists
  <2>2. /\ PeerSet!Release(D) /\ peers' = <<>> /\ id_map' = [i \in PeerIds |-> NULL]
        /\ UNCHANGED <<p_capacity, blacklist>>
    BY <1>3, <2>1 DEF PeerSet!Clear
  <2>3. id_map' = [i \in PeerIds |-> IF \E p \in D : peer[p].id = i THEN NULL ELSE id_map[i]]
    <3>1. \A i \in PeerIds : ~(\E p \in D : peer[p].id = i) => id_map[i] = NULL
      BY <1>0 DEF Indexed
    <3> QED BY <2>2, <3>1
  <2>4. peers' \in Seq(Cells) /\ Len(peers') = 0 /\ Len(peers) \in Nat
    BY <1>0, <2>2 DEF PeerTypes
  <2>5. Lists(peers', PeerSet!Live \ D)
    BY <2>4 DEF Lists
  <2>6. Len(peers') <= Len(peers)
    BY <2>4
  <2> HIDE DEF D
  <2>7. D \in SUBSET PeerSet!Live
    BY DEF D
  <2> QED BY <2>2, <2>3, <2>4, <2>5, <2>6, <2>7, PeersFreed
<1> QED BY <1>1, <1>2, <1>3

LEMMA PeersStart == ASSUME PeerSet!PeersAssumption, PeerSet!Init PROVE PeersInv
<1>0. /\ peers = <<>> /\ peer = [p \in Cells |-> PeerSet!Free] /\ blacklist = {} /\ opened = {}
      /\ p_capacity = (IF StartCapacity > max_peers THEN max_peers ELSE StartCapacity)
      /\ id_map = [i \in PeerIds |-> NULL]
      /\ StartCapacity \in Nat \ {0} /\ max_peers \in Nat \ {0}
  BY DEF PeerSet!Init, PeerSet!PeersAssumption
<1>1. PeerSet!Live = {}
  BY <1>0, FreeIsNoPeer DEF PeerSet!Live
<1>2. p_capacity \in 1..max_peers
  BY <1>0
<1>3. peers \in Seq(Cells) /\ Len(peers) = 0
  BY <1>0
<1>4. PeerTypes
  BY <1>0, <1>2, <1>3 DEF PeerTypes
<1> QED BY <1>0, <1>1, <1>3, <1>4 DEF PeersInv, Lists, Indexed, Owners

\* The invariant says all that the run checks of a state.
LEMMA PeersHold ==
    ASSUME PeerSet!PeersAssumption, PeersInv
    PROVE  /\ PeerSet!TypeOK /\ PeerSet!NoDangling
           /\ PeerSet!SocketsOwned /\ PeerSet!StatesTruthful
<1>0. /\ PeerTypes /\ Lists(peers, PeerSet!Live) /\ Indexed /\ Owners
      /\ NULL \notin Socks /\ DOMAIN peers = 1..Len(peers) /\ PeerSet!Live \subseteq Cells
      /\ \A p \in PeerSet!Live : Honest(p)
  BY DEF PeersInv, PeerTypes, PeerSet!PeersAssumption, PeerSet!Live
<1>1. PeerSet!TypeOK
  <2>1. ASSUME NEW p \in Cells, peer[p] # PeerSet!Free
        PROVE  /\ peer[p].id \in PeerIds \cup {ZeroId} /\ peer[p].addr \in BOOLEAN
               /\ peer[p].state \in PeerSet!States /\ peer[p].sock \in Socks \cup {NULL}
               /\ peer[p].silent \in 0..Timeout
               /\ peer[p].blacklisted \in BOOLEAN
    <3>1. peer[p] \in PeerType
      BY <1>0, <2>1 DEF PeerTypes
    <3> QED BY <3>1 DEF PeerType
  <2> QED BY <1>0, <2>1 DEF PeerTypes, PeerSet!TypeOK
<1>2. PeerSet!NoDangling
  <2>1. PeerSet!Range(peers) = PeerSet!Live
    BY <1>0 DEF PeerSet!Range, Lists
  <2>2. PeerSet!IsInjective(peers)
    BY <1>0 DEF PeerSet!IsInjective, Lists
  <2> QED BY <1>0, <2>1, <2>2 DEF PeerTypes, Indexed, PeerSet!NoDangling
<1>3. PeerSet!SocketsOwned
  <2>1. opened = PeerSet!SocketsOf(PeerSet!Live)
    <3>1. \A s : s \in PeerSet!SocketsOf(PeerSet!Live) <=>
                     s # NULL /\ \E p \in PeerSet!Live : peer[p].sock = s
      BY DEF PeerSet!SocketsOf
    <3>2. \A s \in opened : s # NULL
      BY <1>0 DEF PeerTypes
    <3>3. \A s \in opened : s \in PeerSet!SocketsOf(PeerSet!Live)
      BY <1>0, <3>1, <3>2 DEF Owners
    <3>4. \A s \in PeerSet!SocketsOf(PeerSet!Live) : s \in opened
      BY <1>0, <3>1 DEF Owners
    <3> QED BY <3>3, <3>4, Zenon
  <2> QED BY <1>0, <2>1 DEF Owners, PeerSet!SocketsOwned
<1>4. PeerSet!StatesTruthful
  BY <1>0 DEF Honest, PeerSet!StatesTruthful, PeerSet!Listed
<1> QED BY <1>1, <1>2, <1>3, <1>4

\* Expiry frees the silent peers and touches no other.
LEMMA ExpirySpares ==
    ASSUME PeerSet!PeersAssumption, PeersInv, PeerSet!Expire
    PROVE  /\ \A p \in PeerSet!Live' : ~PeerSet!IsTimedOut(p)
           /\ \A p \in PeerSet!Live : ~PeerSet!IsTimedOut(p) => peer'[p] = peer[p]
<1> DEFINE D == {p \in PeerSet!Live : PeerSet!IsTimedOut(p)}
<1>1. /\ D \in SUBSET PeerSet!Live /\ PeerSet!Removed(D) /\ PeerSet!Release(D)
      /\ id_map' = [i \in PeerIds |-> IF \E p \in D : peer[p].id = i THEN NULL ELSE id_map[i]]
      /\ UNCHANGED <<p_capacity, blacklist>>
  BY DEF PeerSet!Expire
<1>2. \A p \in PeerSet!Live : p \in D <=> PeerSet!IsTimedOut(p)
  OBVIOUS
<1> HIDE DEF D
<1>3. PeerSet!Live' = PeerSet!Live \ D /\ PeerSet!Live \subseteq Cells
  BY <1>1, RemovedLists, PeersFreed DEF PeerSet!Live
<1>4. \A p \in PeerSet!Live \ D : peer'[p] = peer[p]
  BY <1>1, <1>3 DEF PeerSet!Release
<1> QED BY <1>2, <1>3, <1>4

\* Peers (peer.c): through connections that fail or replace one another, rediscovery,
\* blacklisting, expiry and removal in any order, the array and the index name exactly the
\* live peers, each open socket has one owner that is alive, states agree with sockets,
\* and expiry takes the silent peers only; for any identifiers, cells, limits and timeouts.
THEOREM PartsPeersSound == ASSUME PeerSet!PeersAssumption PROVE PeerSet!Spec => PeersSound
<1>1. PeerSet!Init => PeersInv
  BY PeersStart
<1>2. PeersInv /\ [PeerSet!Next]_(PeerSet!vars) => PeersInv'
  <2>1. ASSUME PeersInv, PeerSet!Next PROVE PeersInv'
    BY <2>1, PeerUsed, PeerWaited, PeerAdded, PeerConnected, PeerDisconnected, PeerBlacklisted,
       PeerUnblacklisted, PeersRemoved DEF PeerSet!Next
  <2>2. ASSUME PeersInv, UNCHANGED PeerSet!vars PROVE PeersInv'
    <3>1. UNCHANGED <<peers, p_capacity, peer, id_map, blacklist, opened>>
      BY <2>2 DEF PeerSet!vars
    <3>2. PeerSet!Live' = PeerSet!Live
      BY <3>1 DEF PeerSet!Live
    <3>3. PeerTypes' /\ Lists(peers, PeerSet!Live)'
      BY <2>2, <3>1, <3>2 DEF PeersInv, PeerTypes, Lists
    <3>4. Indexed' /\ Owners'
      BY <2>2, <3>1, <3>2 DEF PeersInv, Indexed, Owners
    <3>5. \A p \in PeerSet!Live : Honest(p)'
      BY <2>2, <3>1 DEF PeersInv, Honest, PeerSet!IsConnected
    <3> QED BY <3>2, <3>3, <3>4, <3>5 DEF PeersInv
  <2> QED BY <2>1, <2>2
<1>3. PeersInv => /\ PeerSet!TypeOK /\ PeerSet!NoDangling
                  /\ PeerSet!SocketsOwned /\ PeerSet!StatesTruthful
  BY PeersHold
<1>4. PeersInv /\ [PeerSet!Next]_(PeerSet!vars) =>
          [PeerSet!Expire => /\ \A p \in PeerSet!Live' : ~PeerSet!IsTimedOut(p)
                             /\ \A p \in PeerSet!Live :
                                    ~PeerSet!IsTimedOut(p) => peer'[p] = peer[p]]_(PeerSet!vars)
  BY ExpirySpares
<1> QED BY <1>1, <1>2, <1>3, <1>4, PTL DEF PeerSet!Spec, PeersSound, PeerSet!ActiveKept
-----------------------------------------------------------------------------
(* Queues.  A linked queue's nodes are a chain from head to tail that no   *)
(* two sequences describe; a ring's elements lie from head on.             *)


\* What the elements are, along any chain.
LEMMA ElementsAlong ==
    ASSUME q_kind = "queue", q_count \in Nat,
           NEW s \in [1..q_count -> Queue!Nodes], Queue!IsChain(s)
    PROVE  Queue!Contents = [i \in 1..q_count |-> q_data[s[i]]]
<1>1. Queue!Chain \in [1..q_count -> Queue!Nodes] /\ Queue!IsChain(Queue!Chain)
  BY DEF Queue!Chain
<1>2. Queue!Chain = s
  <2> DEFINE t == Queue!Chain
  <2> HIDE DEF t
  <2>1. t \in [1..q_count -> Queue!Nodes] /\ Queue!IsChain(t)
    BY <1>1 DEF t
  <2>2. /\ q_count # 0 => s[1] = t[1]
        /\ Follows(s, q_count, q_next) /\ Follows(t, q_count, q_next)
    BY <2>1 DEF Queue!IsChain, Follows
  <2>3. t = s
    BY <2>1, <2>2, SameChain
  <2> QED BY <2>3 DEF t
<1> QED BY <1>2 DEF Queue!Contents

LEMMA ElementsAlongNext ==
    ASSUME q_kind' = "queue", q_count' \in Nat,
           NEW s \in [1..q_count' -> Queue!Nodes], Queue!IsChain(s)'
    PROVE  Queue!Contents' = [i \in 1..q_count' |-> q_data'[s[i]]]
<1>1. PICK t : t = Queue!Chain'
  OBVIOUS
<1>2. t \in [1..q_count' -> Queue!Nodes] /\ Queue!IsChain(t)'
  BY <1>1 DEF Queue!Chain, Queue!Nodes
<1>3. t = s
  <2>1. /\ q_count' # 0 => s[1] = t[1]
        /\ Follows(s, q_count', q_next') /\ Follows(t, q_count', q_next')
    BY <1>2 DEF Queue!IsChain, Follows
  <2> QED BY <1>2, <2>1, SameChain
<1> QED BY <1>1, <1>3 DEF Queue!Contents

QueueInv == Queue!TypeOK /\ Queue!WellLinked

LEMMA QueuePushed ==
    ASSUME Queue!QueueAssumption, QueueInv, NEW d \in Elements, Queue!QueuePush(d)
    PROVE  QueueInv' /\ Queue!Promise!Push(d)
<1>0. /\ q_kind = "queue" /\ q_count \in 0..MaxItems /\ q_count < MaxItems
      /\ MaxItems \in Nat \ {0} /\ q_count \in Nat /\ "free" \notin Elements
      /\ q_next \in [Queue!Nodes -> Queue!Nodes \cup {0}]
      /\ q_data \in [Queue!Nodes -> Elements \cup {"free"}]
      /\ Queue!Nodes = 1..MaxItems
  BY DEF QueueInv, Queue!TypeOK, Queue!QueueAssumption, Queue!QueuePush, Queue!Limit, Queue!Nodes
<1>1. PICK s \in [1..q_count -> Queue!Nodes] : Queue!IsChain(s)
  BY <1>0 DEF QueueInv, Queue!WellLinked
<1>2. PICK n \in Queue!Nodes :
        /\ q_data[n] = "free"
        /\ q_data' = [q_data EXCEPT ![n] = d]
        /\ q_next' = [m \in Queue!Nodes |-> IF m = n THEN 0 ELSE IF m = q_tail THEN n ELSE q_next[m]]
        /\ q_head' = IF q_tail = 0 THEN n ELSE q_head
        /\ q_tail' = n
  <2> DEFINE F == {m \in Queue!Nodes : q_data[m] = "free"}
             n == CHOOSE m \in F : \A k \in F : m <= k
  <2>1. F # {}
    <3>0. /\ s \in [1..q_count -> 1..MaxItems] /\ MaxItems \in Nat
          /\ q_count \in Nat /\ q_count < MaxItems
      BY <1>0, <1>1
    <3>1. \E m \in 1..MaxItems : \A i \in 1..q_count : s[i] # m
      BY <3>0, FreeNode
    <3>1a. PICK m \in Queue!Nodes : \A i \in 1..q_count : s[i] # m
      BY <1>0, <3>1
    <3>2. q_data[m] = "free"
      BY <1>1, <3>1a DEF Queue!IsChain
    <3> QED BY <3>2
  <2>2. n \in F
    <3>1. F \in SUBSET Nat
      BY <1>0
    <3> HIDE DEF F
    <3> QED BY <2>1, <3>1, LeastOf
  <2>3. n = Queue!Min(F)
    BY DEF Queue!Min
  <2> HIDE DEF n
  <2> QED BY <2>2, <2>3 DEF Queue!QueuePush
<1>3. q_count' = q_count + 1 /\ q_result' = "SUCCESS" /\ q_kind' = q_kind /\ slots' = slots
  BY DEF Queue!QueuePush
<1>4. PICK t : t = [j \in 1..(q_count + 1) |-> IF j = q_count + 1 THEN n ELSE s[j]]
  OBVIOUS
<1>4a. /\ t \in [1..(q_count + 1) -> Queue!Nodes] /\ t[q_count + 1] = n
       /\ \A i \in 1..q_count : t[i] = s[i] /\ s[i] # n /\ s[i] \in Queue!Nodes
       /\ \A i \in 1..(q_count + 1) : i # q_count + 1 => i \in 1..q_count
  <2>1. \A i \in 1..q_count : s[i] # n
    BY <1>1, <1>2 DEF Queue!IsChain
  <2> QED BY <1>0, <1>4, <2>1
<1>5. Queue!IsChain(t)'
  <2>1. /\ q_head = IF q_count = 0 THEN 0 ELSE s[1]
        /\ q_tail = IF q_count = 0 THEN 0 ELSE s[q_count]
        /\ \A i \in 1..q_count : q_next[s[i]] = IF i = q_count THEN 0 ELSE s[i + 1]
        /\ \A i, j \in 1..q_count : s[i] = s[j] => i = j
        /\ {m \in Queue!Nodes : q_data[m] # "free"} = {s[i] : i \in 1..q_count}
    BY <1>1 DEF Queue!IsChain
  <2>2. q_head' = t[1] /\ q_tail' = t[q_count + 1]
    BY <1>0, <1>2, <1>4a, <2>1
  <2>3. ASSUME NEW i \in 1..(q_count + 1)
        PROVE  q_next'[t[i]] = IF i = q_count + 1 THEN 0 ELSE t[i + 1]
    <3>1. CASE i = q_count + 1
      BY <1>2, <1>4a, <3>1
    <3>2. CASE i = q_count /\ i # q_count + 1
      BY <1>0, <1>2, <1>4a, <2>1, <3>2
    <3>3. CASE i \in 1..q_count /\ i # q_count
      <4>1. i + 1 \in 1..q_count /\ q_count \in 1..q_count
        BY <1>0, <3>3
      <4>2. s[i] # q_tail
        BY <2>1, <3>3, <4>1
      <4> QED BY <1>0, <1>2, <1>4a, <2>1, <3>3, <4>1, <4>2
    <3> QED BY <1>0, <1>4a, <3>1, <3>2, <3>3
  <2>4. \A i, j \in 1..(q_count + 1) : t[i] = t[j] => i = j
    BY <1>4a, <2>1
  <2>5. {m \in Queue!Nodes : q_data'[m] # "free"} = {t[i] : i \in 1..(q_count + 1)}
    <3>1. \A m \in Queue!Nodes : q_data'[m] # "free" <=> q_data[m] # "free" \/ m = n
      BY <1>0, <1>2
    <3>2. \A m \in Queue!Nodes : q_data[m] # "free" <=> \E i \in 1..q_count : s[i] = m
      BY <2>1
    <3>3. \A m \in Queue!Nodes : (\E i \in 1..(q_count + 1) : t[i] = m)
                                  <=> (\E i \in 1..q_count : s[i] = m) \/ m = n
      BY <1>0, <1>4a
    <3> QED BY <1>4a, <3>1, <3>2, <3>3
  <2> QED BY <1>0, <1>3, <2>2, <2>3, <2>4, <2>5 DEF Queue!IsChain, Queue!Nodes
<1>6. Queue!Contents' = [i \in 1..(q_count + 1) |-> q_data'[t[i]]]
  <2>1. q_kind' = "queue" /\ q_count' \in Nat /\ t \in [1..q_count' -> Queue!Nodes]
    BY <1>0, <1>3, <1>4a
  <2>2. Queue!Contents' = [i \in 1..q_count' |-> q_data'[t[i]]]
    BY <1>5, <2>1, ElementsAlongNext
  <2> QED BY <1>3, <2>2
<1>7. Queue!Contents = [i \in 1..q_count |-> q_data[s[i]]]
  BY <1>0, <1>1, ElementsAlong
<1>8. Queue!Contents' = Append(Queue!Contents, d) /\ Len(Queue!Contents) = q_count
  <2> DEFINE old == [i \in 1..q_count |-> q_data[s[i]]]
             new == [i \in 1..(q_count + 1) |-> q_data'[t[i]]]
  <2>1. old \in Seq(Elements \cup {"free"}) /\ Len(old) = q_count
    BY <1>0
  <2>2. new \in Seq(Elements \cup {"free"}) /\ Len(new) = q_count + 1
    BY <1>0, <1>2, <1>4a
  <2>3. \A i \in 1..q_count : new[i] = old[i]
    BY <1>0, <1>2, <1>4a
  <2>4. new[q_count + 1] = d
    BY <1>0, <1>2, <1>4a
  <2> HIDE DEF old, new
  <2>5. new = Append(old, d)
    BY <1>0, <2>1, <2>2, <2>3, <2>4
  <2> QED BY <1>6, <1>7, <2>1, <2>5 DEF old, new
<1>9. QueueInv'
  <2>1. Queue!WellLinked'
    <3>1. t \in [1..q_count' -> Queue!Nodes]
      BY <1>3, <1>4a
    <3> QED BY <1>0, <1>3, <1>5, <3>1 DEF Queue!WellLinked, Queue!Nodes
  <2>2. Queue!TypeOK'
    BY <1>0, <1>2, <1>3 DEF QueueInv, Queue!TypeOK, Queue!Limit
  <2> QED BY <2>1, <2>2 DEF QueueInv
<1>10. Queue!Promise!Push(d)
  BY <1>0, <1>3, <1>8 DEF Queue!Promise!Push, Queue!Limit
<1> QED BY <1>9, <1>10
\* The first node leaves the chain; an element read from a node is never "free".
LEMMA QueuePopped ==
    ASSUME Queue!QueueAssumption, QueueInv, Queue!QueuePop
    PROVE  QueueInv' /\ q_kind' = q_kind /\ Queue!Promise!Pop
<1>0. /\ q_kind = "queue" /\ q_count \in 0..MaxItems /\ q_head # 0
      /\ MaxItems \in Nat \ {0} /\ q_count \in Nat /\ "free" \notin Elements
      /\ q_next \in [Queue!Nodes -> Queue!Nodes \cup {0}]
      /\ q_data \in [Queue!Nodes -> Elements \cup {"free"}]
      /\ Queue!Nodes = 1..MaxItems
  BY DEF QueueInv, Queue!TypeOK, Queue!QueueAssumption, Queue!QueuePop, Queue!Limit, Queue!Nodes
<1>1. PICK s \in [1..q_count -> Queue!Nodes] : Queue!IsChain(s)
  BY <1>0 DEF QueueInv, Queue!WellLinked
<1>2. /\ q_head' = q_next[q_head]
      /\ q_tail' = IF q_next[q_head] = 0 THEN 0 ELSE q_tail
      /\ q_result' = q_data[q_head]
      /\ q_data' = [q_data EXCEPT ![q_head] = "free"] /\ q_next' = [q_next EXCEPT ![q_head] = 0]
      /\ q_count' = q_count - 1 /\ q_kind' = q_kind /\ slots' = slots
  BY DEF Queue!QueuePop
<1>3. /\ q_head = IF q_count = 0 THEN 0 ELSE s[1]
      /\ q_tail = IF q_count = 0 THEN 0 ELSE s[q_count]
      /\ \A i \in 1..q_count : q_next[s[i]] = IF i = q_count THEN 0 ELSE s[i + 1]
      /\ \A i, j \in 1..q_count : s[i] = s[j] => i = j
      /\ {m \in Queue!Nodes : q_data[m] # "free"} = {s[i] : i \in 1..q_count}
  BY <1>1 DEF Queue!IsChain
<1>4. /\ q_count # 0 /\ q_head = s[1] /\ 1 \in 1..q_count /\ q_head \in Queue!Nodes
      /\ \A i \in 1..q_count : s[i] \in Queue!Nodes /\ s[i] # 0 /\ (i # 1 => s[i] # q_head)
  BY <1>0, <1>1, <1>3
<1>5. PICK t : t = [j \in 1..(q_count - 1) |-> s[j + 1]]
  OBVIOUS
<1>6. /\ t \in [1..(q_count - 1) -> Queue!Nodes]
      /\ \A i \in 1..(q_count - 1) : t[i] = s[i + 1] /\ i + 1 \in 1..q_count /\ i + 1 # 1
      /\ \A i \in 1..q_count : i # 1 => i - 1 \in 1..(q_count - 1) /\ t[i - 1] = s[i]
  BY <1>0, <1>1, <1>5
<1>7. Queue!IsChain(t)'
  <2>1. q_head' = IF q_count - 1 = 0 THEN 0 ELSE t[1]
    BY <1>0, <1>2, <1>3, <1>4, <1>6
  <2>2. q_tail' = IF q_count - 1 = 0 THEN 0 ELSE t[q_count - 1]
    BY <1>0, <1>2, <1>3, <1>4, <1>6
  <2>3. ASSUME NEW i \in 1..(q_count - 1)
        PROVE  q_next'[t[i]] = IF i = q_count - 1 THEN 0 ELSE t[i + 1]
    <3>1. t[i] # q_head /\ t[i] \in Queue!Nodes /\ t[i] = s[i + 1]
      BY <1>4, <1>6
    <3>2. q_next'[t[i]] = q_next[s[i + 1]]
      BY <1>0, <1>2, <3>1
    <3>3. q_next[s[i + 1]] = IF i + 1 = q_count THEN 0 ELSE s[(i + 1) + 1]
      BY <1>3, <1>6
    <3>4. i # q_count - 1 => t[i + 1] = s[(i + 1) + 1]
      BY <1>0, <1>6
    <3> QED BY <1>0, <3>2, <3>3, <3>4
  <2>4. \A i, j \in 1..(q_count - 1) : t[i] = t[j] => i = j
    BY <1>0, <1>3, <1>6
  <2>5. {m \in Queue!Nodes : q_data'[m] # "free"} = {t[i] : i \in 1..(q_count - 1)}
    <3>1. \A m \in Queue!Nodes : q_data'[m] # "free" <=> q_data[m] # "free" /\ m # q_head
      BY <1>0, <1>2, <1>4
    <3>2. \A m \in Queue!Nodes : q_data[m] # "free" <=> \E i \in 1..q_count : s[i] = m
      BY <1>3
    <3>3. \A m \in Queue!Nodes : (\E i \in 1..(q_count - 1) : t[i] = m)
                                  <=> (\E i \in 1..q_count : s[i] = m) /\ m # q_head
      BY <1>4, <1>6
    <3> QED BY <1>6, <3>1, <3>2, <3>3
  <2> QED BY <1>2, <2>1, <2>2, <2>3, <2>4, <2>5 DEF Queue!IsChain, Queue!Nodes
<1>8. Queue!Contents' = [i \in 1..(q_count - 1) |-> q_data'[t[i]]]
  <2>1. q_kind' = "queue" /\ q_count' \in Nat /\ t \in [1..q_count' -> Queue!Nodes]
    BY <1>0, <1>2, <1>4, <1>6
  <2>2. Queue!Contents' = [i \in 1..q_count' |-> q_data'[t[i]]]
    BY <1>7, <2>1, ElementsAlongNext
  <2> QED BY <1>2, <2>2
<1>9. Queue!Contents = [i \in 1..q_count |-> q_data[s[i]]]
  BY <1>0, <1>1, ElementsAlong
<1>10. /\ Queue!Contents # <<>> /\ Queue!Contents' = Tail(Queue!Contents)
       /\ Head(Queue!Contents) = q_data[q_head]
  <2> DEFINE old == [i \in 1..q_count |-> q_data[s[i]]]
             new == [i \in 1..(q_count - 1) |-> q_data'[t[i]]]
  <2>1. old \in Seq(Elements \cup {"free"}) /\ Len(old) = q_count /\ old[1] = q_data[q_head]
    BY <1>0, <1>4
  <2>2. new \in Seq(Elements \cup {"free"}) /\ Len(new) = q_count - 1
    <3>1. \A i \in 1..(q_count - 1) : q_data'[t[i]] \in Elements \cup {"free"}
      BY <1>0, <1>2, <1>6
    <3> QED BY <1>0, <1>4, <3>1
  <2>3. \A i \in 1..(q_count - 1) : new[i] = old[i + 1]
    BY <1>0, <1>2, <1>4, <1>6
  <2> HIDE DEF old, new
  <2>4. new = Tail(old) /\ Head(old) = old[1] /\ old # <<>>
    BY <1>0, <1>4, <2>1, <2>2, <2>3
  <2> QED BY <1>8, <1>9, <2>1, <2>4 DEF old, new
<1>11. QueueInv'
  <2>1. Queue!WellLinked'
    <3>1. t \in [1..q_count' -> Queue!Nodes]
      BY <1>2, <1>6
    <3> QED BY <1>0, <1>2, <1>7, <3>1 DEF Queue!WellLinked, Queue!Nodes
  <2>2. q_head' \in Queue!Nodes \cup {0} /\ q_count' \in 0..MaxItems
    BY <1>0, <1>2, <1>4
  <2>3. q_tail' \in {0, q_tail} /\ q_result' \in Elements
    <3>1. q_data[q_head] # "free"
      BY <1>3, <1>4
    <3> QED BY <1>0, <1>2, <1>4, <3>1
  <2>4. Queue!TypeOK'
    BY <1>0, <1>2, <1>4, <2>2, <2>3 DEF QueueInv, Queue!TypeOK, Queue!Limit
  <2> QED BY <2>1, <2>4 DEF QueueInv
<1> QED BY <1>2, <1>10, <1>11 DEF Queue!Promise!Pop

LEMMA QueueCleared ==
    ASSUME Queue!QueueAssumption, QueueInv, Queue!QueueClear
    PROVE  QueueInv' /\ q_kind' = q_kind /\ Queue!Promise!Clear
<1>0. /\ q_kind = "queue" /\ q_kind' = q_kind /\ slots' = slots
      /\ q_head' = 0 /\ q_tail' = 0 /\ q_count' = 0 /\ q_result' = "none"
      /\ q_data' = [n \in Queue!Nodes |-> "free"] /\ q_next' = [n \in Queue!Nodes |-> 0]
      /\ MaxItems \in Nat
  BY DEF Queue!QueueClear, Queue!QueueAssumption
<1>1. PICK t : t = [j \in 1..0 |-> 1]
  OBVIOUS
<1>2. t \in [1..q_count' -> Queue!Nodes] /\ q_count' \in Nat /\ q_kind' = "queue"
  BY <1>0, <1>1
<1>3. Queue!IsChain(t)'
  BY <1>0, <1>1 DEF Queue!IsChain, Queue!Nodes
<1>4. Queue!Contents' = <<>>
  <2>1. Queue!Contents' = [i \in 1..q_count' |-> q_data'[t[i]]]
    BY <1>2, <1>3, ElementsAlongNext
  <2>2. [i \in 1..q_count' |-> q_data'[t[i]]] = <<>>
    BY <1>0
  <2> QED BY <2>1, <2>2
<1>5. QueueInv'
  <2>1. Queue!WellLinked'
    BY <1>0, <1>2, <1>3 DEF Queue!WellLinked, Queue!Nodes
  <2>2. Queue!TypeOK'
    BY <1>0 DEF QueueInv, Queue!TypeOK, Queue!Limit
  <2> QED BY <2>1, <2>2 DEF QueueInv
<1> QED BY <1>0, <1>4, <1>5 DEF Queue!Promise!Clear
\* The ring: its places from head on, and which of them the indexes name.
RingPlace(h, i) == IF h + i - 1 < Queue!Size THEN h + i - 1 ELSE (h + i - 1) - Queue!Size

LEMMA RingFacts ==
    ASSUME Queue!QueueAssumption, QueueInv, q_kind = "ring"
    PROVE  /\ Queue!Size \in Nat \ {0} /\ q_count \in 0..Queue!Size /\ q_head \in 0..(Queue!Size - 1)
           /\ q_tail = RingPlace(q_head, q_count + 1)  /\ q_tail \in 0..(Queue!Size - 1)
           /\ Queue!After(q_head) = RingPlace(q_head, 2)
           /\ q_count < Queue!Size => Queue!After(q_tail) = (q_head + (q_count + 1)) % Queue!Size
           /\ slots \in [0..(Queue!Size - 1) -> Elements \cup {"NULL"}]
           /\ Queue!Limit = Queue!Size /\ Queue!Indexes = 0..(Queue!Size - 1)
<1>1. /\ Queue!Size \in Nat \ {0} /\ q_count \in 0..Queue!Size /\ q_head \in 0..(Queue!Size - 1)
      /\ q_tail = (q_head + q_count) % Queue!Size /\ Queue!Indexes = 0..(Queue!Size - 1)
      /\ slots \in [0..(Queue!Size - 1) -> Elements \cup {"NULL"}] /\ Queue!Limit = Queue!Size
  BY DEF Queue!QueueAssumption, QueueInv, Queue!TypeOK, Queue!WellLinked, Queue!Limit, Queue!Indexes
<1> DEFINE m == Queue!Size
<1> HIDE DEF m
<1>2. /\ m \in Nat \ {0} /\ q_count \in 0..m /\ q_head \in 0..(m - 1)
      /\ q_head + q_count \in 0..(2 * m - 1) /\ q_head + 1 \in 0..(2 * m - 1)
  BY <1>1 DEF m
<1>3. \A x \in 0..(2 * m - 1) : x % m = IF x < m THEN x ELSE x - m
  BY <1>2, Wrapped
<1>5. q_tail = RingPlace(q_head, q_count + 1) /\ q_tail \in 0..(m - 1)
  <2>1. q_tail = IF q_head + q_count < m THEN q_head + q_count ELSE (q_head + q_count) - m
    BY <1>1, <1>2, <1>3 DEF m
  <2>2. q_head + (q_count + 1) - 1 = q_head + q_count
    BY <1>2
  <2> QED BY <1>2, <2>1, <2>2 DEF RingPlace, m
<1>6. Queue!After(q_head) = RingPlace(q_head, 2)
  BY <1>2, <1>3 DEF RingPlace, m, Queue!After
<1>7. ASSUME q_count < m PROVE (q_tail + 1) % m = (q_head + (q_count + 1)) % m
  <2>1. PICK x : x = q_head + q_count /\ x \in 0..(2 * m - 2)
    BY <1>2, <1>7
  <2>2. q_head + (q_count + 1) = x + 1
    BY <1>2, <2>1
  <2>3. CASE x < m
    <3>1. q_tail = x
      BY <1>1, <1>3, <2>1, <2>3 DEF m
    <3> QED BY <2>2, <3>1
  <2>4. CASE ~(x < m)
    <3>0. x % m = x - m
      BY <1>2, <1>3, <2>1, <2>4
    <3>1. q_tail = x - m
      BY <1>1, <2>1, <3>0 DEF m
    <3>2. /\ (x - m) + 1 \in 0..(2 * m - 1) /\ (x - m) + 1 < m
          /\ x + 1 \in 0..(2 * m - 1) /\ ~(x + 1 < m) /\ (x + 1) - m = (x - m) + 1
      BY <1>1, <1>2, <2>1, <2>4 DEF m
    <3>3. ((x - m) + 1) % m = (x - m) + 1
      BY <1>3, <3>2
    <3>4. (x + 1) % m = (x + 1) - m
      BY <1>3, <3>2
    <3> QED BY <2>2, <3>1, <3>2, <3>3, <3>4
  <2> QED BY <2>3, <2>4
<1> QED BY <1>1, <1>5, <1>6, <1>7 DEF m, Queue!After
LEMMA RingElements ==
    ASSUME Queue!Size \in Nat \ {0}, NEW h \in 0..(Queue!Size - 1), NEW c \in 0..Queue!Size
    PROVE  \A i \in 1..c : /\ (h + i - 1) % Queue!Size = RingPlace(h, i)
                            /\ RingPlace(h, i) \in 0..(Queue!Size - 1)
<1> DEFINE m == Queue!Size
<1> HIDE DEF m
<1>1. ASSUME NEW i \in 1..c PROVE (h + i - 1) % m = RingPlace(h, i) /\ RingPlace(h, i) \in 0..(m - 1)
  <2>1. m \in Nat \ {0} /\ h + i - 1 \in 0..(2 * m - 1)
    BY DEF m
  <2>2. (h + i - 1) % m = IF h + i - 1 < m THEN h + i - 1 ELSE (h + i - 1) - m
    BY <2>1, Wrapped
  <2> QED BY <2>1, <2>2 DEF m, RingPlace
<1> QED BY <1>1 DEF m

LEMMA RingPushed ==
    ASSUME Queue!QueueAssumption, QueueInv, NEW d \in Elements, Queue!RingPush(d)
    PROVE  QueueInv' /\ q_kind' = q_kind /\ Queue!Promise!Push(d)
<1>0. /\ q_kind = "ring" /\ q_count < Queue!Size
      /\ slots' = [slots EXCEPT ![q_tail] = d]
      /\ q_tail' = Queue!After(q_tail) /\ q_count' = q_count + 1 /\ q_result' = "SUCCESS"
      /\ UNCHANGED <<q_kind, q_head, q_next, q_data>>
  BY DEF Queue!RingPush
<1>1. /\ Queue!Size \in Nat \ {0} /\ q_count \in 0..Queue!Size /\ q_head \in 0..(Queue!Size - 1)
      /\ q_tail = RingPlace(q_head, q_count + 1)  /\ q_tail \in 0..(Queue!Size - 1)
      /\ Queue!After(q_tail) = (q_head + (q_count + 1)) % Queue!Size
      /\ slots \in [0..(Queue!Size - 1) -> Elements \cup {"NULL"}]
      /\ Queue!Limit = Queue!Size /\ Queue!Indexes = 0..(Queue!Size - 1)
  BY <1>0, RingFacts
<1> DEFINE m == Queue!Size
<1> HIDE DEF m
<1>2. q_count' \in 0..m /\ q_count' \in Nat /\ q_count \in Nat
  BY <1>0, <1>1 DEF m
<1>3. q_tail' \in 0..(m - 1)
  BY <1>0, <1>1 DEF m
<1> DEFINE old == [i \in 1..q_count |-> slots[RingPlace(q_head, i)]]
           new == [i \in 1..(q_count + 1) |-> slots'[RingPlace(q_head, i)]]
<1>4. Queue!Contents = old
  <2>1. Queue!Contents = [i \in 1..q_count |-> slots[(q_head + i - 1) % Queue!Size]]
    BY <1>0 DEF Queue!Contents
  <2> HIDE DEF old
  <2>2. [i \in 1..q_count |-> slots[(q_head + i - 1) % Queue!Size]]
          = [i \in 1..q_count |-> slots[RingPlace(q_head, i)]]
    BY <1>1, RingElements
  <2> QED BY <2>1, <2>2 DEF old
<1>5. Queue!Contents' = new
  <2>1. Queue!Contents' = [i \in 1..q_count' |-> slots'[(q_head' + i - 1) % Queue!Size]]
    BY <1>0 DEF Queue!Contents, Queue!Size
  <2> HIDE DEF old, new
  <2>2. q_head \in 0..(Queue!Size - 1) /\ q_count' \in 0..Queue!Size
    BY <1>1, <1>2 DEF m
  <2>3. [i \in 1..q_count' |-> slots'[(q_head + i - 1) % Queue!Size]]
          = [i \in 1..q_count' |-> slots'[RingPlace(q_head, i)]]
    BY <1>1, <2>2, RingElements
  <2> QED BY <1>0, <2>1, <2>3 DEF new
<1>6. \A i \in 1..(q_count + 1) : RingPlace(q_head, i) \in 0..(m - 1)
  BY <1>0, <1>1, <1>2, RingElements DEF m
<1>7. \A i \in 1..q_count : RingPlace(q_head, i) # q_tail
  BY <1>0, <1>1, <1>2 DEF m, RingPlace
<1>8. /\ old \in Seq(Elements \cup {"NULL"}) /\ Len(old) = q_count
      /\ new \in Seq(Elements \cup {"NULL"}) /\ Len(new) = q_count + 1
  <2>1. slots' \in [0..(m - 1) -> Elements \cup {"NULL"}]
    BY <1>0, <1>1 DEF m
  <2>2. \A i \in 1..(q_count + 1) : slots'[RingPlace(q_head, i)] \in Elements \cup {"NULL"}
    BY <1>6, <2>1
  <2>3. \A i \in 1..q_count : slots[RingPlace(q_head, i)] \in Elements \cup {"NULL"}
    BY <1>1, <1>2, <1>6 DEF m
  <2> QED BY <1>2, <2>2, <2>3
<1>9. \A i \in 1..q_count : new[i] = old[i]
  BY <1>0, <1>1, <1>2, <1>6, <1>7 DEF m
<1>10. new[q_count + 1] = d
  BY <1>0, <1>1, <1>2 DEF m
<1> HIDE DEF old, new
<1>11. new = Append(old, d)
  BY <1>2, <1>8, <1>9, <1>10
<1>12. QueueInv'
  <2>1. slots' \in [0..(m - 1) -> Elements \cup {"NULL"}]
    BY <1>0, <1>1 DEF m
  <2>2. Queue!WellLinked'
    BY <1>0, <1>1 DEF Queue!WellLinked, Queue!Indexes, Queue!Size
  <2>3. Queue!TypeOK'
    BY <1>0, <1>1, <1>2, <1>3, <2>1 DEF QueueInv, Queue!TypeOK, Queue!Limit, m
  <2> QED BY <2>2, <2>3 DEF QueueInv
<1> QED BY <1>0, <1>1, <1>4, <1>5, <1>8, <1>11, <1>12 DEF Queue!Promise!Push

LEMMA RingPopped ==
    ASSUME Queue!QueueAssumption, QueueInv, Queue!RingPop
    PROVE  QueueInv' /\ q_kind' = q_kind /\ Queue!Promise!Pop
<1>0. /\ q_kind = "ring" /\ q_count > 0
      /\ q_result' = slots[q_head] /\ slots' = [slots EXCEPT ![q_head] = "NULL"]
      /\ q_head' = Queue!After(q_head) /\ q_count' = q_count - 1
      /\ UNCHANGED <<q_kind, q_tail, q_next, q_data>>
  BY DEF Queue!RingPop
<1>1. /\ Queue!Size \in Nat \ {0} /\ q_count \in 0..Queue!Size /\ q_head \in 0..(Queue!Size - 1)
      /\ q_tail = RingPlace(q_head, q_count + 1)  /\ q_tail \in 0..(Queue!Size - 1)
      /\ Queue!After(q_head) = RingPlace(q_head, 2)
      /\ slots \in [0..(Queue!Size - 1) -> Elements \cup {"NULL"}]
      /\ Queue!Limit = Queue!Size /\ Queue!Indexes = 0..(Queue!Size - 1)
  BY <1>0, RingFacts
<1> DEFINE m == Queue!Size
<1> HIDE DEF m
<1>2. q_count' \in 0..m /\ q_count' \in Nat /\ q_count \in Nat
  BY <1>0, <1>1 DEF m
<1>3. q_head' \in 0..(m - 1) /\ q_head' = IF q_head + 1 < m THEN q_head + 1 ELSE q_head + 1 - m
  BY <1>0, <1>1 DEF m, RingPlace
<1> DEFINE old == [i \in 1..q_count |-> slots[RingPlace(q_head, i)]]
           new == [i \in 1..(q_count - 1) |-> slots'[RingPlace(q_head', i)]]
<1>4. Queue!Contents = old
  <2>1. Queue!Contents = [i \in 1..q_count |-> slots[(q_head + i - 1) % Queue!Size]]
    BY <1>0 DEF Queue!Contents
  <2> HIDE DEF old
  <2>2. [i \in 1..q_count |-> slots[(q_head + i - 1) % Queue!Size]]
          = [i \in 1..q_count |-> slots[RingPlace(q_head, i)]]
    BY <1>1, RingElements
  <2> QED BY <2>1, <2>2 DEF old
<1>5. Queue!Contents' = new
  <2>1. Queue!Contents' = [i \in 1..q_count' |-> slots'[(q_head' + i - 1) % Queue!Size]]
    BY <1>0 DEF Queue!Contents, Queue!Size
  <2> HIDE DEF old, new
  <2>2. q_head' \in 0..(Queue!Size - 1) /\ q_count' \in 0..Queue!Size
    BY <1>2, <1>3 DEF m
  <2>3. [i \in 1..q_count' |-> slots'[(q_head' + i - 1) % Queue!Size]]
          = [i \in 1..q_count' |-> slots'[RingPlace(q_head', i)]]
    BY <1>1, <2>2, RingElements
  <2> QED BY <1>0, <2>1, <2>3 DEF new
<1>6. \A i \in 1..q_count : RingPlace(q_head, i) \in 0..(m - 1)
  BY <1>0, <1>1, <1>2, RingElements DEF m
<1>7. ASSUME NEW i \in 1..(q_count - 1)
      PROVE  /\ RingPlace(q_head', i) = RingPlace(q_head, i + 1) /\ RingPlace(q_head, i + 1) # q_head
             /\ i + 1 \in 1..q_count
  <2>1. CASE q_head + 1 < m
    BY <1>0, <1>1, <1>2, <1>3, <2>1 DEF m, RingPlace
  <2>2. CASE ~(q_head + 1 < m)
    BY <1>0, <1>1, <1>2, <1>3, <2>2 DEF m, RingPlace
  <2> QED BY <2>1, <2>2
<1>8. slots' \in [0..(m - 1) -> Elements \cup {"NULL"}]
  BY <1>0, <1>1 DEF m
<1>9. /\ old \in Seq(Elements \cup {"NULL"}) /\ Len(old) = q_count
      /\ new \in Seq(Elements \cup {"NULL"}) /\ Len(new) = q_count - 1
  <2>1. \A i \in 1..(q_count - 1) : slots'[RingPlace(q_head', i)] \in Elements \cup {"NULL"}
    BY <1>6, <1>7, <1>8
  <2>2. \A i \in 1..q_count : slots[RingPlace(q_head, i)] \in Elements \cup {"NULL"}
    BY <1>1, <1>6 DEF m
  <2> QED BY <1>0, <1>2, <2>1, <2>2
<1>10. \A i \in 1..(q_count - 1) : new[i] = old[i + 1]
  BY <1>0, <1>1, <1>6, <1>7 DEF m
<1>11. old[1] = slots[q_head]
  BY <1>0, <1>1, <1>2 DEF m, RingPlace
<1> HIDE DEF old, new
<1>12. new = Tail(old) /\ Head(old) = old[1] /\ old # <<>>
  BY <1>0, <1>2, <1>9, <1>10
<1>13. QueueInv'
  <2>1. Queue!WellLinked'
    <3>1. q_tail' = (q_head' + q_count') % m
      <4>1. q_head' + q_count' \in 0..(2 * m - 1) /\ m \in Nat \ {0}
        BY <1>0, <1>1, <1>2, <1>3 DEF m
      <4>0. \A x \in 0..(2 * m - 1) : x % m = IF x < m THEN x ELSE x - m
        BY <4>1, Wrapped
      <4>2. (q_head' + q_count') % m
               = IF q_head' + q_count' < m THEN q_head' + q_count' ELSE (q_head' + q_count') - m
        BY <4>0, <4>1
      <4> QED BY <1>0, <1>1, <1>2, <1>3, <4>2 DEF m, RingPlace
    <3> QED BY <1>0, <1>1, <1>3, <3>1 DEF Queue!WellLinked, Queue!Indexes, Queue!Size, m
  <2>2. Queue!TypeOK'
    BY <1>0, <1>1, <1>2, <1>3, <1>8 DEF QueueInv, Queue!TypeOK, Queue!Limit, m
  <2> QED BY <2>1, <2>2 DEF QueueInv
<1> QED BY <1>0, <1>4, <1>5, <1>11, <1>12, <1>13 DEF Queue!Promise!Pop

\* The calls that move no element.
LEMMA RingOthers ==
    ASSUME Queue!QueueAssumption, QueueInv, Queue!RingFull \/ Queue!RingClear \/ Queue!PopEmpty
    PROVE  /\ QueueInv' /\ q_kind' = q_kind
           /\ Queue!RingFull => \A d \in Elements : Queue!Promise!Push(d)
           /\ Queue!RingClear => Queue!Promise!Clear
           /\ Queue!PopEmpty => Queue!Promise!Pop
<1>1. CASE Queue!RingFull
  <2>1. /\ q_kind = "ring" /\ q_count >= Queue!Size /\ q_result' = "OVERFLOW"
        /\ UNCHANGED <<q_kind, q_head, q_tail, q_count, q_next, q_data, slots>>
    BY <1>1 DEF Queue!RingFull
  <2>2. Queue!Contents' = Queue!Contents
    BY <2>1 DEF Queue!Contents, Queue!Size
  <2>3. Len(Queue!Contents) = q_count /\ Queue!Limit = Queue!Size
    BY <2>1, RingFacts DEF Queue!Contents
  <2>4. QueueInv'
    BY <2>1 DEF QueueInv, Queue!TypeOK, Queue!WellLinked, Queue!IsChain, Queue!Limit
  <2>5. Queue!Size \in Nat /\ q_count \in Nat /\ ~(q_count < Queue!Size)
    BY <2>1, RingFacts
  <2>6. ~Queue!RingClear /\ ~Queue!PopEmpty
    BY <2>1 DEF Queue!RingClear, Queue!PopEmpty
  <2> QED BY <2>1, <2>2, <2>3, <2>4, <2>5, <2>6 DEF Queue!Promise!Push
<1>2. CASE Queue!RingClear
  <2>1. /\ q_kind = "ring" /\ q_kind' = q_kind /\ slots' = [i \in Queue!Indexes |-> "NULL"]
        /\ q_head' = 0 /\ q_tail' = 0 /\ q_count' = 0 /\ q_result' = "none"
        /\ UNCHANGED <<q_next, q_data>>
    BY <1>2 DEF Queue!RingClear
  <2>2. Queue!Contents' = <<>>
    <3>1. Queue!Contents' = [i \in 1..q_count' |-> slots'[(q_head' + i - 1) % Queue!Size]]
      BY <2>1 DEF Queue!Contents, Queue!Size
    <3>2. [i \in 1..q_count' |-> slots'[(q_head' + i - 1) % Queue!Size]] = <<>>
      BY <2>1
    <3> QED BY <3>1, <3>2
  <2>3. QueueInv'
    <3>1. Queue!Size \in Nat \ {0} /\ Queue!Indexes = 0..(Queue!Size - 1)
      BY <2>1, RingFacts
    <3>2. 0 \in Queue!Indexes /\ 0 % Queue!Size = 0 /\ 0 + 0 = 0
      <4> DEFINE m == Queue!Size
      <4> HIDE DEF m
      <4>1. m \in Nat \ {0}
        BY <3>1 DEF m
      <4>2. 0 % m = 0 /\ 0 \in 0..(m - 1)
        BY <4>1
      <4> QED BY <3>1, <4>2 DEF m
    <3>3. Queue!WellLinked'
      BY <2>1, <3>2 DEF Queue!WellLinked, Queue!Indexes, Queue!Size
    <3>4. Queue!TypeOK'
      BY <2>1, <3>1, <3>2 DEF QueueInv, Queue!TypeOK, Queue!Limit, Queue!Indexes
    <3> QED BY <3>3, <3>4 DEF QueueInv
  <2>4. ~Queue!RingFull /\ ~Queue!PopEmpty
    BY <2>1 DEF Queue!RingFull, Queue!PopEmpty
  <2> QED BY <2>1, <2>2, <2>3, <2>4 DEF Queue!Promise!Clear
<1>3. CASE Queue!PopEmpty
  <2>1. /\ q_count = 0 /\ q_result' = "NULL"
        /\ UNCHANGED <<q_kind, q_head, q_tail, q_count, q_next, q_data, slots>>
    BY <1>3 DEF Queue!PopEmpty
  <2>2. Queue!Contents' = Queue!Contents
    BY <2>1 DEF Queue!Contents, Queue!Chain, Queue!IsChain
  <2>3. Queue!Contents = <<>>
    BY <2>1 DEF Queue!Contents
  <2>4. QueueInv'
    BY <2>1 DEF QueueInv, Queue!TypeOK, Queue!WellLinked, Queue!IsChain, Queue!Limit
  <2>5. ~Queue!RingFull /\ ~Queue!RingClear
    BY <2>1 DEF Queue!RingFull, Queue!RingClear
  <2> QED BY <2>1, <2>2, <2>3, <2>4, <2>5 DEF Queue!Promise!Pop
<1> QED BY <1>1, <1>2, <1>3

LEMMA QueueStep ==
    ASSUME Queue!QueueAssumption, QueueInv, Queue!Next
    PROVE  QueueInv' /\ Queue!Promise!Next
<1> DEFINE Done == /\ QueueInv' /\ q_kind' = q_kind
                   /\ \/ \E d \in Elements : Queue!Promise!Push(d)
                      \/ Queue!Promise!Pop \/ Queue!Promise!Clear
<1>1. ASSUME NEW d \in Elements, Queue!QueuePush(d) PROVE Done
  <2>1. q_kind' = q_kind
    BY <1>1 DEF Queue!QueuePush
  <2> QED BY <1>1, <2>1, QueuePushed
<1>2. ASSUME NEW d \in Elements, Queue!RingPush(d) PROVE Done
  BY <1>2, RingPushed
<1>3. ASSUME Queue!QueuePop PROVE Done
  BY <1>3, QueuePopped
<1>4. ASSUME Queue!QueueClear PROVE Done
  BY <1>4, QueueCleared
<1>5. ASSUME Queue!RingPop PROVE Done
  BY <1>5, RingPopped
<1>6. ASSUME Queue!RingFull PROVE Done
  <2>1. PICK d \in Elements : TRUE
    BY DEF Queue!QueueAssumption
  <2> QED BY <1>6, <2>1, RingOthers
<1>7. ASSUME Queue!RingClear \/ Queue!PopEmpty PROVE Done
  BY <1>7, RingOthers
<1> HIDE DEF Done
<1>8. Done
  BY <1>1, <1>2, <1>3, <1>4, <1>5, <1>6, <1>7 DEF Queue!Next
<1> QED BY <1>8 DEF Done, Queue!Promise!Next, Queue!Limit, Queue!Size

\* Queues (queue.c): for any mix of pushes, pops and clears, a queue's pointers lead
\* through its nodes and a ring's indexes stay count apart, through wraps and at the
\* capacity, and both implement the abstract queue: first in, first out.
THEOREM QueuesImplement ==
    ASSUME Queue!QueueAssumption
    PROVE  Queue!Spec => [](Queue!TypeOK /\ Queue!WellLinked) /\ Queue!Implements
<1>1. Queue!Init => QueueInv /\ Queue!Promise!Init
  <2> SUFFICES ASSUME Queue!Init PROVE QueueInv /\ Queue!Promise!Init
    OBVIOUS
  <2>1. /\ q_kind \in {"queue", "ring"} /\ q_head = 0 /\ q_tail = 0 /\ q_count = 0
        /\ q_next = [n \in Queue!Nodes |-> 0] /\ q_data = [n \in Queue!Nodes |-> "free"]
        /\ slots = [i \in Queue!Indexes |-> "NULL"] /\ q_result = "none"
        /\ MaxItems \in Nat \ {0} /\ Queue!Size \in Nat \ {0}
    BY DEF Queue!Init, Queue!QueueAssumption
  <2>2. 0 \in Queue!Indexes /\ 0 % Queue!Size = 0 /\ 0 + 0 = 0
    <3> DEFINE m == Queue!Size
    <3> HIDE DEF m
    <3>1. m \in Nat \ {0}
      BY <2>1 DEF m
    <3>2. 0 % m = 0 /\ 0 \in 0..(m - 1)
      BY <3>1
    <3> QED BY <3>2 DEF m, Queue!Indexes
  <2>3. Queue!WellLinked
    <3>1. PICK t : t = [j \in 1..0 |-> 1]
      OBVIOUS
    <3>2. t \in [1..q_count -> Queue!Nodes] /\ Queue!IsChain(t)
      BY <2>1, <3>1 DEF Queue!IsChain
    <3> QED BY <2>1, <2>2, <3>2 DEF Queue!WellLinked
  <2>4. Queue!TypeOK
    BY <2>1, <2>2 DEF Queue!TypeOK, Queue!Limit
  <2>5. Queue!Contents = <<>>
    BY <2>1 DEF Queue!Contents
  <2> QED BY <2>1, <2>3, <2>4, <2>5 DEF QueueInv, Queue!Promise!Init
<1>2. QueueInv /\ [Queue!Next]_(Queue!vars)
        => QueueInv' /\ [Queue!Promise!Next]_<<Queue!Contents, q_result, Queue!Limit>>
  <2>1. ASSUME QueueInv, Queue!Next PROVE QueueInv' /\ Queue!Promise!Next
    BY <2>1, QueueStep
  <2>2. ASSUME QueueInv, UNCHANGED Queue!vars
        PROVE  QueueInv' /\ UNCHANGED <<Queue!Contents, q_result, Queue!Limit>>
    <3>1. UNCHANGED <<q_kind, q_head, q_tail, q_count, q_next, q_data, slots, q_result>>
      BY <2>2 DEF Queue!vars
    <3>2. QueueInv'
      BY <2>2, <3>1 DEF QueueInv, Queue!TypeOK, Queue!WellLinked, Queue!IsChain, Queue!Limit
    <3>3. Queue!Contents' = Queue!Contents /\ Queue!Limit' = Queue!Limit
      BY <3>1 DEF Queue!Contents, Queue!Chain, Queue!IsChain, Queue!Limit, Queue!Size
    <3> QED BY <3>1, <3>2, <3>3
  <2> QED BY <2>1, <2>2
<1>3. QueueInv => Queue!TypeOK /\ Queue!WellLinked
  BY DEF QueueInv
<1> QED BY <1>1, <1>2, <1>3, PTL DEF Queue!Spec, Queue!Implements, Queue!Promise!Spec

-----------------------------------------------------------------------------
(* Hash maps.  A map is described by the set of its entries: the chains    *)
(* are that set spread over the capacity by the hash, and rehashing only   *)
(* spreads it anew.                                                        *)

Spread(E, c) == [i \in 0..(c - 1) |-> {e \in E : Map!Index(e.key, c) = i}]

\* n entries, one per key and one per value, whose values are the ones the map owns
Held(E, o, n) ==
    /\ E \in SUBSET Map!EntrySet /\ IsFiniteSet(E) /\ n = Cardinality(E)
    /\ \A e, f \in E : e.key = f.key \/ e.value = f.value => e = f
    /\ o \in [Vals -> {"caller", "map", "freed"}]
    /\ {v \in Vals : o[v] = "map"} = {e.value : e \in E}

MapInv ==
    /\ m_capacity \in StartCapacity..MapCapacity
    /\ buckets = Spread(Map!Entries, m_capacity)
    /\ Held(Map!Entries, m_owner, m_count)

LEMMA MapCount == \A S : Map!Cardinality(S) = Cardinality(S)
BY DEF Cardinality, Map!Cardinality

LEMMA IndexIn ==
    ASSUME Map!MapAssumption, NEW k \in Keys, NEW c \in Nat \ {0}
    PROVE  Map!Index(k, c) \in 0..(c - 1)
<1>1. Hash[k] \in Nat
  BY DEF Map!MapAssumption
<1> DEFINE h == Hash[k]
<1>2. h \in Nat
  BY <1>1
<1> HIDE DEF h
<1>3. h % c \in 0..(c - 1)
  BY <1>2
<1> QED BY <1>3 DEF h, Map!Index

LEMMA SpreadIs ==
    ASSUME Map!MapAssumption, NEW E \in SUBSET Map!EntrySet, NEW c \in Nat \ {0}
    PROVE  /\ Spread(E, c) \in [0..(c - 1) -> SUBSET E] /\ DOMAIN Spread(E, c) = 0..(c - 1)
           /\ UNION {Spread(E, c)[i] : i \in 0..(c - 1)} = E
           /\ \A i \in 0..(c - 1) : Spread(E, c)[i] = {e \in E : Map!Index(e.key, c) = i}
<1>1. /\ Spread(E, c) \in [0..(c - 1) -> SUBSET E] /\ DOMAIN Spread(E, c) = 0..(c - 1)
      /\ \A i \in 0..(c - 1) : Spread(E, c)[i] = {e \in E : Map!Index(e.key, c) = i}
  BY DEF Spread
<1> DEFINE B == Spread(E, c)
<1> HIDE DEF B
<1>2. /\ B \in [0..(c - 1) -> SUBSET E]
      /\ \A i \in 0..(c - 1) : B[i] = {e \in E : Map!Index(e.key, c) = i}
  BY <1>1 DEF B
<1>3. ASSUME NEW e \in E PROVE e \in UNION {B[i] : i \in 0..(c - 1)}
  <2>1. Map!Index(e.key, c) \in 0..(c - 1)
    <3>1. e.key \in Keys
      BY DEF Map!EntrySet
    <3> QED BY <3>1, IndexIn
  <2>2. e \in B[Map!Index(e.key, c)]
    BY <1>2, <2>1
  <2> QED BY <2>1, <2>2
<1>4. UNION {B[i] : i \in 0..(c - 1)} = E
  BY <1>2, <1>3
<1> QED BY <1>1, <1>4 DEF B

LEMMA Put ==
    ASSUME NEW E \in SUBSET Map!EntrySet, NEW c \in Nat \ {0}, NEW e \in Map!EntrySet
    PROVE  [Spread(E, c) EXCEPT ![Map!Index(e.key, c)] = @ \cup {e}] = Spread(E \cup {e}, c)
BY DEF Spread

LEMMA Struck ==
    ASSUME NEW E \in SUBSET Map!EntrySet, NEW c \in Nat \ {0}, NEW e \in Map!EntrySet
    PROVE  [Spread(E, c) EXCEPT ![Map!Index(e.key, c)] = @ \ {e}] = Spread(E \ {e}, c)
BY DEF Spread

LEMMA Swapped ==
    ASSUME NEW E \in SUBSET Map!EntrySet, NEW c \in Nat \ {0}, NEW e \in Map!EntrySet,
           NEW f \in Map!EntrySet, e.key = f.key
    PROVE  [Spread(E, c) EXCEPT ![Map!Index(e.key, c)] = (@ \ {f}) \cup {e}]
             = Spread((E \ {f}) \cup {e}, c)
BY DEF Spread

LEMMA HeldMore ==
    ASSUME NEW E, NEW o, NEW n, Held(E, o, n), NEW k \in Keys, NEW v \in Vals, o[v] = "caller",
           \A e \in E : e.key # k
    PROVE  Held(E \cup {Map!Entry(k, v)}, [o EXCEPT ![v] = "map"], n + 1)
<1> DEFINE x == Map!Entry(k, v)
           F == E \cup {x}
           p == [o EXCEPT ![v] = "map"]
<1>1. x \in Map!EntrySet /\ x.key = k /\ x.value = v
  BY DEF Map!Entry, Map!EntrySet
<1> HIDE DEF x
<1>2. x \notin E /\ \A e \in E : e.value # v
  BY <1>1 DEF Held
<1>3. F \in SUBSET Map!EntrySet
  BY <1>1 DEF Held
<1>4. IsFiniteSet(F) /\ Cardinality(F) = n + 1
  BY <1>2, FS_AddElement DEF Held
<1>5. \A e, f \in F : e.key = f.key \/ e.value = f.value => e = f
  BY <1>1, <1>2 DEF Held
<1>6. p \in [Vals -> {"caller", "map", "freed"}]
  BY DEF Held
<1>7. {w \in Vals : p[w] = "map"} = {e.value : e \in F}
  BY <1>1 DEF Held
<1> HIDE DEF F, p
<1>8. Held(F, p, n + 1)
  BY <1>3, <1>4, <1>5, <1>6, <1>7 DEF Held
<1> QED BY <1>8 DEF F, p, x

LEMMA HeldLess ==
    ASSUME NEW E, NEW o, NEW n, Held(E, o, n), NEW f \in E, NEW x \in {"caller", "freed"}
    PROVE  Held(E \ {f}, [o EXCEPT ![f.value] = x], n - 1)
<1> DEFINE F == E \ {f}
           p == [o EXCEPT ![f.value] = x]
<1>1. f.value \in Vals /\ F \in SUBSET Map!EntrySet
  BY DEF Held, Map!EntrySet
<1>2. IsFiniteSet(F) /\ Cardinality(F) = n - 1
  BY FS_RemoveElement DEF Held
<1>3. \A e, g \in F : e.key = g.key \/ e.value = g.value => e = g
  BY DEF Held
<1>4. p \in [Vals -> {"caller", "map", "freed"}]
  BY <1>1 DEF Held
<1>5. {w \in Vals : p[w] = "map"} = {e.value : e \in F}
  <2>1. \A w \in Vals : p[w] = "map" <=> o[w] = "map" /\ w # f.value
    BY <1>1 DEF Held
  <2>2. \A e \in E : e.value = f.value => e = f
    BY DEF Held
  <2>3. {w \in Vals : o[w] = "map"} = {e.value : e \in E}
    BY DEF Held
  <2> HIDE DEF p
  <2> QED BY <2>1, <2>2, <2>3
<1> HIDE DEF F, p
<1>6. Held(F, p, n - 1)
  BY <1>1, <1>2, <1>3, <1>4, <1>5 DEF Held
<1> QED BY <1>6 DEF F, p

\* What the invariant says of one state, and that it says what is checked.
LEMMA MapFacts ==
    ASSUME Map!MapAssumption, MapInv
    PROVE  /\ m_capacity \in Nat \ {0} /\ Map!Entries \in SUBSET Map!EntrySet
           /\ \A k \in Keys : /\ Map!Index(k, m_capacity) \in 0..(m_capacity - 1)
                              /\ Map!Chain(k) = {e \in Map!Entries :
                                   Map!Index(e.key, m_capacity) = Map!Index(k, m_capacity)}
                              /\ Map!Has(k) <=> \E e \in Map!Entries : e.key = k
                              /\ Map!Has(k) => Map!Found(k) \in Map!Entries /\ Map!Found(k).key = k
           /\ Map!TypeOK /\ Map!Consistent
<1>1. m_capacity \in Nat \ {0} /\ Map!Entries \in SUBSET Map!EntrySet
  BY DEF MapInv, Map!MapAssumption, Held
<1> DEFINE E == Map!Entries
           c == m_capacity
<1>2. E \in SUBSET Map!EntrySet /\ c \in Nat \ {0} /\ buckets = Spread(E, c)
  BY <1>1 DEF MapInv
<1> HIDE DEF E, c
<1>3. /\ buckets \in [0..(c - 1) -> SUBSET E]
      /\ \A i \in 0..(c - 1) : buckets[i] = {e \in E : Map!Index(e.key, c) = i}
  BY <1>2, SpreadIs
<1>4. ASSUME NEW k \in Keys
      PROVE  /\ Map!Index(k, c) \in 0..(c - 1)
             /\ Map!Chain(k) = {e \in E : Map!Index(e.key, c) = Map!Index(k, c)}
             /\ Map!Has(k) <=> \E e \in E : e.key = k
             /\ Map!Has(k) => Map!Found(k) \in E /\ Map!Found(k).key = k
  <2>1. Map!Index(k, c) \in 0..(c - 1)
    BY <1>2, IndexIn
  <2>2. Map!Chain(k) = {e \in E : Map!Index(e.key, c) = Map!Index(k, c)}
    BY <1>3, <2>1 DEF Map!Chain, c
  <2>3. Map!Has(k) <=> \E e \in E : e.key = k
    BY <2>2 DEF Map!Has
  <2>4. Map!Has(k) => Map!Found(k) \in Map!Chain(k) /\ Map!Found(k).key = k
    BY DEF Map!Has, Map!Found
  <2> QED BY <2>1, <2>2, <2>3, <2>4
<1>5. Map!TypeOK
  <2>1. buckets \in [0..(c - 1) -> SUBSET Map!EntrySet]
    BY <1>2, <1>3
  <2>2. m_count \in Nat /\ m_owner \in [Vals -> {"caller", "map", "freed"}]
    BY FS_CardinalityType DEF MapInv, Held
  <2>3. m_capacity \in StartCapacity..MapCapacity
    BY DEF MapInv
  <2> QED BY <2>1, <2>2, <2>3 DEF Map!TypeOK, c
<1>6. Map!Consistent
  <2>1. \A e \in E : e.key \in Keys
    BY <1>2 DEF Map!EntrySet
  <2>2. \A e \in E : Map!Has(e.key)
    BY <1>4, <2>1
  <2> QED BY <2>2, MapCount DEF Map!Consistent, MapInv, Held, E
<1> QED BY <1>1, <1>4, <1>5, <1>6 DEF E, c

\* It is enough that the chains are some set, spread, and that this set is held.
LEMMA MapThen ==
    ASSUME Map!MapAssumption, NEW F, m_capacity' \in StartCapacity..MapCapacity,
           buckets' = Spread(F, m_capacity'), Held(F, m_owner', m_count')
    PROVE  MapInv'
<1>1. PICK d : d = m_capacity'
  OBVIOUS
<1>2. d \in Nat \ {0} /\ F \in SUBSET Map!EntrySet
  BY <1>1 DEF Map!MapAssumption, Held
<1>3. UNION {buckets'[i] : i \in DOMAIN buckets'} = F
  <2>1. buckets' = Spread(F, d)
    BY <1>1
  <2>2. DOMAIN Spread(F, d) = 0..(d - 1) /\ UNION {Spread(F, d)[i] : i \in 0..(d - 1)} = F
    BY <1>2, SpreadIs
  <2> QED BY <2>1, <2>2
<1>4. Map!Entries' = F
  BY <1>3 DEF Map!Entries
<1> QED BY <1>4 DEF MapInv

LEMMA MapStep ==
    ASSUME Map!MapAssumption, MapInv, Map!Next
    PROVE  MapInv'
<1> DEFINE E == Map!Entries
           c == m_capacity
<1>0. /\ c \in Nat \ {0} /\ E \in SUBSET Map!EntrySet
      /\ \A k \in Keys : /\ Map!Index(k, c) \in 0..(c - 1)
                         /\ Map!Has(k) <=> \E e \in E : e.key = k
                         /\ Map!Has(k) => Map!Found(k) \in E /\ Map!Found(k).key = k
  BY MapFacts
<1>b. /\ m_capacity = c /\ c \in StartCapacity..MapCapacity /\ buckets = Spread(E, c)
      /\ Held(E, m_owner, m_count)
  BY DEF MapInv
<1>g. Map!Grown = Spread(E, 2 * c)
  BY DEF Map!Grown, Spread
<1> HIDE DEF E, c
<1>1. ASSUME NEW k \in Keys, NEW v \in Vals, Map!Set(k, v), Map!Replace(k, v) PROVE MapInv'
  <2>1. PICK f : f = Map!Found(k)
    OBVIOUS
  <2>2. PICK x : x = Map!Entry(k, v)
    OBVIOUS
  <2>3. /\ Map!Has(k) /\ m_owner[v] = "caller"
        /\ buckets' = [buckets EXCEPT ![Map!Index(k, c)] = (@ \ {f}) \cup {x}]
        /\ m_owner' = [m_owner EXCEPT ![f.value] = "freed", ![v] = "map"]
        /\ m_capacity' = c /\ m_count' = m_count
    BY <1>1, <1>b, <2>1, <2>2 DEF Map!Set, Map!Replace
  <2>4. f \in E /\ f.key = k /\ f \in Map!EntrySet /\ f.value \in Vals
    BY <1>0, <2>1, <2>3 DEF Map!EntrySet
  <2>5. x \in Map!EntrySet /\ x.key = k
    BY <2>2 DEF Map!Entry, Map!EntrySet
  <2>6. buckets' = Spread((E \ {f}) \cup {x}, c)
    <3>1. buckets' = [Spread(E, c) EXCEPT ![Map!Index(x.key, c)] = (@ \ {f}) \cup {x}]
      BY <1>b, <2>3, <2>5
    <3>2. /\ E \in SUBSET Map!EntrySet /\ c \in Nat \ {0} /\ x \in Map!EntrySet
          /\ f \in Map!EntrySet /\ x.key = f.key
      BY <1>0, <2>4, <2>5
    <3>3. [Spread(E, c) EXCEPT ![Map!Index(x.key, c)] = (@ \ {f}) \cup {x}]
            = Spread((E \ {f}) \cup {x}, c)
      BY <3>2, Swapped
    <3> QED BY <3>1, <3>3
  <2> DEFINE F == E \ {f}
             p == [m_owner EXCEPT ![f.value] = "freed"]
  <2>7. Held(F, p, m_count - 1)
    BY <1>b, <2>4, HeldLess
  <2>8. p[v] = "caller" /\ \A e \in F : e.key # k
    BY <1>b, <2>3, <2>4 DEF Held
  <2>9. m_owner' = [p EXCEPT ![v] = "map"]
    BY <2>3
  <2>10. m_count \in Nat
    BY <1>b, FS_CardinalityType DEF Held
  <2> HIDE DEF F, p
  <2>11. Held(F \cup {x}, m_owner', (m_count - 1) + 1)
    BY <2>2, <2>7, <2>8, <2>9, HeldMore
  <2>12. (m_count - 1) + 1 = m_count'
    BY <2>3, <2>10
  <2>13. Held(F \cup {x}, m_owner', m_count') /\ buckets' = Spread(F \cup {x}, m_capacity')
    BY <2>3, <2>6, <2>11, <2>12 DEF F
  <2> QED BY <1>b, <2>3, <2>13, MapThen
<1>2. ASSUME NEW k \in Keys, NEW v \in Vals, Map!Set(k, v), Map!Insert(k, v) PROVE MapInv'
  <2>1. PICK x : x = Map!Entry(k, v)
    OBVIOUS
  <2>2. PICK d : d = IF Map!NeedsGrow THEN 2 * c ELSE c
    OBVIOUS
  <2>3. /\ ~Map!Has(k) /\ m_owner[v] = "caller" /\ (Map!NeedsGrow => 2 * c <= MapCapacity)
        /\ m_capacity' = d
        /\ buckets' = [(IF Map!NeedsGrow THEN Map!Grown ELSE buckets)
                          EXCEPT ![Map!Index(k, d)] = @ \cup {x}]
        /\ m_owner' = [m_owner EXCEPT ![v] = "map"] /\ m_count' = m_count + 1
    BY <1>2, <1>b, <2>1, <2>2 DEF Map!Set, Map!Insert
  <2>4. d \in Nat \ {0} /\ d \in StartCapacity..MapCapacity
    BY <1>0, <1>b, <2>2, <2>3 DEF Map!MapAssumption
  <2>5. (IF Map!NeedsGrow THEN Map!Grown ELSE buckets) = Spread(E, d)
    BY <1>b, <1>g, <2>2
  <2>6. x \in Map!EntrySet /\ x.key = k
    BY <2>1 DEF Map!Entry, Map!EntrySet
  <2>7. buckets' = [Spread(E, d) EXCEPT ![Map!Index(x.key, d)] = @ \cup {x}]
    BY <2>3, <2>5, <2>6
  <2>8. buckets' = Spread(E \cup {x}, m_capacity')
    BY <1>0, <2>3, <2>4, <2>6, <2>7, Put
  <2>9. Held(E \cup {x}, m_owner', m_count')
    BY <1>0, <1>b, <2>1, <2>3, HeldMore
  <2> QED BY <2>3, <2>4, <2>8, <2>9, MapThen
<1>3. ASSUME NEW k \in Keys, Map!RemoveKey(k) PROVE MapInv'
  <2>1. PICK f : f = Map!Found(k)
    OBVIOUS
  <2>3. /\ Map!Has(k) /\ buckets' = [buckets EXCEPT ![Map!Index(k, c)] = @ \ {f}]
        /\ m_owner' = [m_owner EXCEPT ![f.value] = "caller"]
        /\ m_capacity' = c /\ m_count' = m_count - 1
    BY <1>3, <1>b, <2>1 DEF Map!RemoveKey
  <2>4. f \in E /\ f.key = k /\ f \in Map!EntrySet
    BY <1>0, <2>1, <2>3
  <2>5. buckets' = Spread(E \ {f}, m_capacity')
    BY <1>0, <1>b, <2>3, <2>4, Struck
  <2>6. Held(E \ {f}, m_owner', m_count')
    BY <1>b, <2>3, <2>4, HeldLess
  <2> QED BY <1>b, <2>3, <2>5, <2>6, MapThen
<1>4. ASSUME Map!Clear PROVE MapInv'
  <2>1. /\ m_owner' = [v \in Vals |-> IF m_owner[v] = "map" THEN "freed" ELSE m_owner[v]]
        /\ buckets' = [i \in DOMAIN buckets |-> {}] /\ m_count' = 0 /\ m_capacity' = c
    BY <1>4, <1>b DEF Map!Clear
  <2>2. DOMAIN buckets = 0..(c - 1)
    BY <1>0, <1>b, SpreadIs
  <2>3. buckets' = Spread({}, m_capacity')
    BY <2>1, <2>2 DEF Spread
  <2>4. Held({}, m_owner', m_count')
    <3>1. m_owner' \in [Vals -> {"caller", "map", "freed"}] /\ \A v \in Vals : m_owner'[v] # "map"
      BY <1>b, <2>1 DEF Held
    <3> QED BY <2>1, <3>1, FS_EmptySet DEF Held
  <2> QED BY <1>b, <2>1, <2>3, <2>4, MapThen
<1> QED BY <1>1, <1>2, <1>3, <1>4 DEF Map!Next, Map!Set

\* Hash maps (hashmap.c): whatever was inserted, replaced, removed, cleared and rehashed
\* before, every entry is found under its key, there is one per key and one per value,
\* count is their number, and the map owns exactly the values it holds.
THEOREM MapConsistent ==
    ASSUME Map!MapAssumption
    PROVE  Map!Spec => [](Map!TypeOK /\ Map!Consistent)
<1>1. Map!Init => MapInv
  <2> SUFFICES ASSUME Map!Init PROVE MapInv
    OBVIOUS
  <2>1. /\ m_capacity = StartCapacity /\ m_count = 0
        /\ buckets = [i \in 0..(StartCapacity - 1) |-> {}]
        /\ m_owner = [v \in Vals |-> "caller"]
    BY DEF Map!Init
  <2>2. Map!Entries = {}
    BY <2>1 DEF Map!Entries
  <2>3. buckets = Spread(Map!Entries, m_capacity)
    BY <2>1, <2>2 DEF Spread
  <2>4. Held(Map!Entries, m_owner, m_count)
    BY <2>1, <2>2, FS_EmptySet DEF Held
  <2>5. m_capacity \in StartCapacity..MapCapacity
    BY <2>1 DEF Map!MapAssumption
  <2> QED BY <2>3, <2>4, <2>5 DEF MapInv
<1>2. MapInv /\ [Map!Next]_(Map!vars) => MapInv'
  <2>1. CASE UNCHANGED Map!vars
    BY <2>1 DEF Map!vars, MapInv, Map!Entries
  <2>2. CASE Map!Next
    BY <2>2, MapStep
  <2> QED BY <2>1, <2>2
<1>3. MapInv => Map!TypeOK /\ Map!Consistent
  BY MapFacts
<1> QED BY <1>1, <1>2, <1>3, PTL DEF Map!Spec

-----------------------------------------------------------------------------
(* Buffers.  Every call inserts bytes at a place, or removes some from it; *)
(* WidenedSides and NarrowedSides say what that does on either side of a   *)
(* cursor.                                                                 *)

LEMMA CutsOut == \A s, t : CutOut(s, t) => Buf!CutFrom(s, t)
BY DEF CutOut, Buf!CutFrom

LEMMA ChunkIs ==
    ASSUME Buf!BufferAssumption, NEW s \in Buf!Chunks
    PROVE  s \in Seq(Octet) /\ Len(s) \in Nat \ {0}
<1>1. PICK n \in 1..MaxChunk : s \in [1..n -> Octet]
  BY DEF Buf!Chunks
<1>2. n \in Nat \ {0}
  BY DEF Buf!BufferAssumption
<1> QED BY <1>1, <1>2

\* A call that fits leaves room for what it adds.
LEMMA Enough ==
    ASSUME Buf!BufferAssumption, Buf!TypeOK, NEW n \in Nat, Buf!Fits(n)
    PROVE  Buf!Ensured(n) \in 0..BufCapacity /\ Len(bytes) + n <= Buf!Ensured(n)
BY DEF Buf!BufferAssumption, Buf!TypeOK, Buf!Fits, Buf!Ensured, Buf!NextCapacity, Buf!Least,
       Buf!Most

LEMMA Grows ==
    ASSUME Buf!TypeOK, Buf!TypeOK', NEW n \in Nat \ {0}, NEW p \in 0..Len(bytes),
           Widened(bytes, bytes', p, n),
           (b_read' = b_read /\ b_read <= p) \/ (b_read' = b_read + n /\ p <= b_read)
    PROVE  Buf!CursorStep
<1>1. /\ bytes \in Seq(Octet) /\ bytes' \in Seq(Octet) /\ n \in Nat
      /\ b_read \in 0..Len(bytes) /\ b_read' \in Nat
  BY DEF Buf!TypeOK
<1>2. Len(bytes') > Len(bytes)
  BY <1>1 DEF Widened
<1>3. \/ /\ SubSeq(bytes', 1, b_read') = SubSeq(bytes, 1, b_read)
         /\ CutOut(SubSeq(bytes, b_read + 1, Len(bytes)),
                   SubSeq(bytes', b_read' + 1, Len(bytes')))
      \/ /\ SubSeq(bytes', b_read' + 1, Len(bytes')) = SubSeq(bytes, b_read + 1, Len(bytes))
         /\ CutOut(SubSeq(bytes, 1, b_read), SubSeq(bytes', 1, b_read'))
  BY <1>1, WidenedSides
<1>4. \/ /\ Buf!Consumed' = Buf!Consumed
         /\ CutOut(Buf!Unread, Buf!Unread')
      \/ /\ Buf!Unread' = Buf!Unread
         /\ CutOut(Buf!Consumed, Buf!Consumed')
  BY <1>3 DEF Buf!Consumed, Buf!Unread
<1> QED BY <1>2, <1>4, CutsOut DEF Buf!CursorStep

LEMMA Shrinks ==
    ASSUME Buf!TypeOK, bytes' \in Seq(Octet), NEW n \in Nat \ {0}, NEW p \in Nat,
           Narrowed(bytes, bytes', p, n), cap' \in 0..BufCapacity, Len(bytes') <= cap',
           b_read' = IF b_read > p + n THEN b_read - n ELSE IF b_read > p THEN p ELSE b_read
    PROVE  Buf!CursorStep /\ Buf!TypeOK'
<1>1. /\ bytes \in Seq(Octet) /\ bytes' \in Seq(Octet) /\ n \in Nat
      /\ b_read \in 0..Len(bytes) /\ b_read' \in Nat
  BY DEF Buf!TypeOK
<1>2. Len(bytes') < Len(bytes)
  BY <1>1 DEF Narrowed
<1>3. /\ b_read' <= Len(bytes')
      /\ CutOut(SubSeq(bytes', 1, b_read'), SubSeq(bytes, 1, b_read))
      /\ CutOut(SubSeq(bytes', b_read' + 1, Len(bytes')),
                SubSeq(bytes, b_read + 1, Len(bytes)))
  BY <1>1, NarrowedSides
<1>4. b_read' \in 0..Len(bytes')
  BY <1>1, <1>3
<1>5. CutOut(Buf!Consumed', Buf!Consumed) /\ CutOut(Buf!Unread', Buf!Unread)
  BY <1>3 DEF Buf!Consumed, Buf!Unread
<1>6. Buf!CursorStep
  BY <1>2, <1>5, CutsOut DEF Buf!CursorStep
<1>7. Buf!TypeOK'
  BY <1>4 DEF Buf!TypeOK
<1> QED BY <1>6, <1>7

LEMMA BufferStep ==
    ASSUME Buf!BufferAssumption, Buf!TypeOK, Buf!Next
    PROVE  Buf!TypeOK' /\ (Buf!CursorStep \/ UNCHANGED Buf!vars)
<1>0. /\ bytes \in Seq(Octet) /\ Len(bytes) \in Nat /\ Len(bytes) <= cap
      /\ cap \in 0..BufCapacity /\ cap \in Nat /\ b_read \in 0..Len(bytes) /\ b_read \in Nat
      /\ BufCapacity \in Nat
  BY DEF Buf!TypeOK, Buf!BufferAssumption
<1>1. ASSUME NEW s \in Buf!Chunks, Buf!AppendBytes(s) \/ Buf!AppendPrintf(s)
      PROVE  Buf!TypeOK' /\ Buf!CursorStep
  <2>1. s \in Seq(Octet) /\ Len(s) \in Nat \ {0}
    BY ChunkIs
  <2>2. PICK n \in {Len(s), Len(s) + 1} : Buf!Fits(n) /\ cap' = Buf!Ensured(n)
    BY <1>1 DEF Buf!AppendBytes, Buf!AppendPrintf
  <2>3. bytes' = bytes \o s /\ b_read' = b_read
    BY <1>1 DEF Buf!AppendBytes, Buf!AppendPrintf
  <2>4. n \in Nat /\ Len(s) <= n /\ cap' \in 0..BufCapacity /\ Len(bytes) + n <= cap'
    BY <2>1, <2>2, Enough
  <2>5. bytes' \in Seq(Octet) /\ Len(bytes') = Len(bytes) + Len(s)
        /\ \A k \in 1..Len(bytes) : bytes'[k] = bytes[k]
    BY <1>0, <2>1, <2>3
  <2>6. Buf!TypeOK'
    <3>1. Len(bytes') <= cap' /\ b_read' \in 0..Len(bytes')
      BY <1>0, <2>1, <2>3, <2>4, <2>5
    <3> QED BY <2>4, <2>5, <3>1 DEF Buf!TypeOK
  <2>7. Widened(bytes, bytes', Len(bytes), Len(s)) /\ Len(bytes) \in 0..Len(bytes)
    BY <1>0, <2>1, <2>5 DEF Widened
  <2>8. b_read <= Len(bytes)
    BY <1>0
  <2> QED BY <2>1, <2>3, <2>6, <2>7, <2>8, Grows
<1>2. ASSUME NEW s \in Buf!Chunks, Buf!Prepend(s)
      PROVE  Buf!TypeOK' /\ Buf!CursorStep
  <2>1. s \in Seq(Octet) /\ Len(s) \in Nat \ {0}
    BY ChunkIs
  <2>2. /\ Buf!Fits(Len(s)) /\ cap' = Buf!Ensured(Len(s)) /\ bytes' = s \o bytes
        /\ b_read' = IF b_read > 0 THEN b_read + Len(s) ELSE b_read
    BY <1>2 DEF Buf!Prepend
  <2>4. cap' \in 0..BufCapacity /\ Len(bytes) + Len(s) <= cap'
    BY <2>1, <2>2, Enough
  <2>5. bytes' \in Seq(Octet) /\ Len(bytes') = Len(bytes) + Len(s)
        /\ \A k \in (Len(s) + 1)..(Len(s) + Len(bytes)) : bytes'[k] = bytes[k - Len(s)]
    BY <1>0, <2>1, <2>2
  <2>6. Buf!TypeOK'
    <3>1. Len(bytes') <= cap' /\ b_read' \in 0..Len(bytes')
      BY <1>0, <2>1, <2>2, <2>4, <2>5
    <3> QED BY <2>4, <2>5, <3>1 DEF Buf!TypeOK
  <2>7. Widened(bytes, bytes', 0, Len(s)) /\ 0 \in 0..Len(bytes)
    <3>1. ASSUME NEW k \in 1..Len(bytes) PROVE bytes'[k + Len(s)] = bytes[k]
      <4>1. k + Len(s) \in (Len(s) + 1)..(Len(s) + Len(bytes)) /\ (k + Len(s)) - Len(s) = k
        BY <1>0, <2>1
      <4> QED BY <2>5, <4>1
    <3> QED BY <1>0, <2>5, <3>1 DEF Widened
  <2>8. (b_read' = b_read /\ b_read <= 0) \/ (b_read' = b_read + Len(s) /\ 0 <= b_read)
    BY <1>0, <2>1, <2>2
  <2> QED BY <2>1, <2>6, <2>7, <2>8, Grows
<1>3. ASSUME NEW s \in Buf!Chunks, NEW pos \in 0..BufCapacity, Buf!Insert(pos, s)
      PROVE  Buf!TypeOK' /\ Buf!CursorStep
  <2>1. s \in Seq(Octet) /\ Len(s) \in Nat \ {0}
    BY ChunkIs
  <2>2. /\ pos <= Len(bytes) /\ Buf!Fits(Len(s)) /\ cap' = Buf!Ensured(Len(s))
        /\ bytes' = SubSeq(bytes, 1, pos) \o s \o SubSeq(bytes, pos + 1, Len(bytes))
        /\ b_read' = IF b_read > pos THEN b_read + Len(s) ELSE b_read
    BY <1>3 DEF Buf!Insert
  <2>3. pos \in 0..Len(bytes) /\ pos \in Nat
    BY <1>0, <2>2
  <2>4. cap' \in 0..BufCapacity /\ Len(bytes) + Len(s) <= cap'
    BY <2>1, <2>2, Enough
  <2>5. /\ bytes' \in Seq(Octet) /\ Len(bytes') = Len(bytes) + Len(s)
        /\ Widened(bytes, bytes', pos, Len(s))
    BY <1>0, <2>1, <2>2, <2>3, PutIn
  <2>6. Buf!TypeOK'
    <3>0. Len(bytes) \in Nat /\ Len(s) \in Nat /\ Len(bytes') = Len(bytes) + Len(s)
          /\ b_read' = IF b_read > pos THEN b_read + Len(s) ELSE b_read
      BY <1>0, <2>1, <2>2, <2>5
    <3>1. Len(bytes') <= cap'
      BY <2>4, <2>5
    <3>2. b_read' \in 0..Len(bytes')
      BY <1>0, <2>3, <3>0
    <3> QED BY <2>4, <2>5, <3>1, <3>2 DEF Buf!TypeOK
  <2>8. (b_read' = b_read /\ b_read <= pos) \/ (b_read' = b_read + Len(s) /\ pos <= b_read)
    BY <1>0, <2>1, <2>2, <2>3
  <2> QED BY <2>1, <2>3, <2>5, <2>6, <2>8, Grows
<1>4. ASSUME NEW pos \in 0..BufCapacity, NEW n \in 1..BufCapacity, Buf!RemoveBytes(pos, n)
      PROVE  Buf!TypeOK' /\ Buf!CursorStep
  <2>1. PICK m : m = Buf!Least(n, Len(bytes) - pos)
    OBVIOUS
  <2>2. /\ pos <= Len(bytes) /\ m > 0
        /\ bytes' = SubSeq(bytes, 1, pos) \o SubSeq(bytes, pos + m + 1, Len(bytes))
        /\ b_read' = IF b_read > pos + m THEN b_read - m ELSE IF b_read > pos THEN pos ELSE b_read
        /\ cap' = cap
    BY <1>4, <2>1 DEF Buf!RemoveBytes
  <2>3. m \in Nat \ {0} /\ m \in Nat /\ pos \in Nat /\ pos + m <= Len(bytes)
    BY <1>0, <2>1, <2>2 DEF Buf!Least
  <2>4. /\ bytes' \in Seq(Octet) /\ Len(bytes') = Len(bytes) - m
        /\ Narrowed(bytes, bytes', pos, m)
    BY <1>0, <2>2, <2>3, Taken
  <2>a. cap' = cap
    BY <2>2
  <2>5. cap' \in 0..BufCapacity /\ Len(bytes') <= cap'
    BY <1>0, <2>3, <2>4, <2>a
  <2> QED BY <2>2, <2>3, <2>4, <2>5, Shrinks
<1>5. ASSUME NEW c \in 0..BufCapacity, Buf!Resize(c)
      PROVE  Buf!TypeOK' /\ Buf!CursorStep
  <2>1. /\ cap' = c /\ bytes' = SubSeq(bytes, 1, Buf!Least(c, Len(bytes)))
        /\ b_read' = Buf!Least(c, b_read) /\ c \in Nat
    BY <1>5 DEF Buf!Resize
  <2>2. CASE c < Len(bytes)
    <3>1. bytes' = SubSeq(bytes, 1, c) /\ c \in 0..Len(bytes)
      BY <1>0, <2>1, <2>2 DEF Buf!Least
    <3>2. bytes' \in Seq(Octet) /\ Len(bytes') = c /\ \A k \in 1..c : bytes'[k] = bytes[k]
      BY <1>0, <3>1, Sides
    <3> DEFINE n == Len(bytes) - c
    <3>3. n \in Nat \ {0} /\ c + n = Len(bytes)
      BY <1>0, <2>1, <2>2
    <3> HIDE DEF n
    <3>4. Narrowed(bytes, bytes', c, n)
      BY <1>0, <2>1, <3>2, <3>3 DEF Narrowed
    <3>5. b_read' = IF b_read > c + n THEN b_read - n ELSE IF b_read > c THEN c ELSE b_read
      BY <1>0, <2>1, <3>3 DEF Buf!Least
    <3>6. cap' \in 0..BufCapacity /\ Len(bytes') <= cap'
      BY <2>1, <3>2
    <3> QED BY <2>1, <3>2, <3>3, <3>4, <3>5, <3>6, Shrinks
  <2>3. CASE ~(c < Len(bytes))
    <3>1. bytes' = SubSeq(bytes, 1, Len(bytes)) /\ b_read' = b_read
      BY <1>0, <2>1, <2>3 DEF Buf!Least
    <3>2. bytes' \in Seq(Octet) /\ Len(bytes') = Len(bytes)
          /\ \A k \in 1..Len(bytes) : bytes'[k] = bytes[k]
      BY <1>0, <3>1
    <3>3. bytes' = bytes
      BY <1>0, <3>2, SameSeq
    <3>4. Buf!TypeOK'
      <4>1. cap' = c /\ c \in Nat /\ Len(bytes) <= c
        BY <1>0, <2>1, <2>3
      <4>2. Len(bytes') <= cap' /\ cap' \in 0..BufCapacity /\ b_read' \in 0..Len(bytes')
        BY <1>0, <3>1, <3>3, <4>1
      <4> QED BY <1>0, <3>3, <4>2 DEF Buf!TypeOK
    <3> QED BY <1>0, <3>1, <3>3, <3>4 DEF Buf!CursorStep
  <2> QED BY <2>2, <2>3
<1>6. ASSUME NEW n \in 1..MaxChunk, Buf!Read(n)
      PROVE  Buf!TypeOK' /\ Buf!CursorStep
  BY <1>0, <1>6 DEF Buf!Read, Buf!Least, Buf!TypeOK, Buf!CursorStep, Buf!BufferAssumption
<1>7. ASSUME Buf!Reset PROVE Buf!TypeOK' /\ Buf!CursorStep
  <2>1. bytes' = <<>> /\ b_read' = 0 /\ cap' = cap
    BY <1>7 DEF Buf!Reset
  <2>2. bytes' \in Seq(Octet) /\ Len(bytes') = 0 /\ cap' \in 0..BufCapacity /\ Len(bytes') <= cap'
    BY <1>0, <2>1
  <2>3. CASE Len(bytes) = 0
    <3>1. bytes' = bytes /\ b_read' >= b_read
      BY <1>0, <2>1, <2>3
    <3> QED BY <1>0, <2>1, <2>2, <3>1 DEF Buf!TypeOK, Buf!CursorStep
  <2>4. CASE Len(bytes) # 0
    <3>1. Len(bytes) \in Nat \ {0} /\ 0 \in Nat
      BY <1>0, <2>4
    <3>2. Narrowed(bytes, bytes', 0, Len(bytes))
      BY <1>0, <2>2 DEF Narrowed
    <3>3. b_read' = IF b_read > 0 + Len(bytes) THEN b_read - Len(bytes)
                    ELSE IF b_read > 0 THEN 0 ELSE b_read
      BY <1>0, <2>1
    <3> QED BY <2>2, <3>1, <3>2, <3>3, Shrinks
  <2> QED BY <2>3, <2>4
<1> QED BY <1>1, <1>2, <1>3, <1>4, <1>5, <1>6, <1>7 DEF Buf!Next, Buf!Reserve

\* Buffers (buffer.c): the length stays within the capacity and the cursor within the
\* length, through growth, shrinking and removal across the cursor, and no call makes
\* a reader see a byte twice or miss one.
THEOREM BufferKept ==
    ASSUME Buf!BufferAssumption
    PROVE  Buf!Spec => [](Buf!TypeOK) /\ Buf!CursorKept
<1>1. Buf!Init => Buf!TypeOK
  BY DEF Buf!Init, Buf!TypeOK, Buf!BufferAssumption
<1>2. Buf!TypeOK /\ [Buf!Next]_(Buf!vars) => Buf!TypeOK' /\ [Buf!CursorStep]_(Buf!vars)
  <2>1. CASE UNCHANGED Buf!vars
    BY <2>1 DEF Buf!vars, Buf!TypeOK
  <2>2. CASE Buf!Next
    BY <2>2, BufferStep
  <2> QED BY <2>1, <2>2
<1> QED BY <1>1, <1>2, PTL DEF Buf!Spec, Buf!CursorKept

\* Containers (queue.c, hashmap.c, buffer.c): the three together, as the run checks them:
\* queues and rings are first-in, first-out whatever their links and indexes went through,
\* maps find every key and own what they hold, and no reader of a buffer loses a byte.
THEOREM PartsContainersKept ==
    ASSUME Queue!QueueAssumption, Map!MapAssumption, Buf!BufferAssumption
    PROVE  Queue!Spec /\ Map!Spec /\ Buf!Spec => ContainersKept
<1>1. Queue!Spec => [](Queue!TypeOK /\ Queue!WellLinked) /\ Queue!Implements
  BY QueuesImplement
<1>2. Map!Spec => [](Map!TypeOK /\ Map!Consistent)
  BY MapConsistent
<1>3. Buf!Spec => [](Buf!TypeOK) /\ Buf!CursorKept
  BY BufferKept
<1> QED BY <1>1, <1>2, <1>3 DEF ContainersKept
=============================================================================
