------------------------------ MODULE Sockets ------------------------------
(***************************************************************************)
(* The life of sockets (socket.c): the structure wingo_sock_t beside the   *)
(* kernel's socket behind its descriptor.  The wrapper keeps its own state *)
(* (OPEN, BOUND, LISTEN, CONNECT, CLOSED), addresses and blocking mode;    *)
(* `kern' is what the kernel has, as connect(2), bind(2), accept(2) and    *)
(* poll(2) document it for Linux.  wingo_sock_connect_timeout changes the  *)
(* blocking mode, waits and restores it: `call' is the call in progress.   *)
(*                                                                         *)
(* Left out: options that only configure the kernel, error codes, and data *)
(* (module SockStream).                                                    *)
(***************************************************************************)
EXTENDS Integers, FiniteSets, FiniteSetsExt

CONSTANTS
    Handles,   \* wingo_sock_t structures, each with its descriptor, numbered
    Peers,     \* addresses to bind, connect to and accept from
    None

SocketsAssumption == Handles \subseteq Nat /\ None \notin Peers

VARIABLES
    sock,      \* the structures, Free once freed
    kern,      \* the kernel's sockets
    call       \* the call of wingo_sock_connect_timeout in progress, or Idle

vars == <<sock, kern, call>>

Kinds == {"UDP", "TCP"}
States == {"OPEN", "BOUND", "LISTEN", "CONNECT", "CLOSED"}

Free == [live |-> FALSE]
Idle == [on |-> 0]
Gone == [status |-> "none", bound |-> FALSE, peer |-> None, nonblock |-> FALSE]
Fresh == [Gone EXCEPT !.status = "unconnected"]

\* The kernel's connection: asked for, made but not yet reported by connect(2), or
\* failed and not yet reported.
Statuses == {"none", "unconnected", "connecting", "made", "failed", "connected", "listening"}

HasFd(h) == sock[h].live /\ sock[h].state # "CLOSED"

NewSock(kind, state, remote, blocking) ==
    [live |-> TRUE, kind |-> kind, state |-> state, local |-> None, remote |-> remote,
     blocking |-> blocking]

\* The thread that calls is not inside another call.
Ready == call = Idle

-----------------------------------------------------------------------------
(* The kernel: external.                                                   *)

\* connect(2) on k to address a: the sockets it may leave, and whether it succeeded,
\* failed, or is in progress.  A connection made since the last call is reported as
\* success whatever a is.
KConnect(k, kind, a) ==
    LET made == [k EXCEPT !.status = "connected", !.bound = TRUE]
        undone == [k EXCEPT !.status = "unconnected", !.peer = None]
    IN
    IF kind = "UDP" THEN {[k |-> [made EXCEPT !.peer = a], res |-> "ok"]} ELSE
    CASE k.status = "unconnected" ->
            {[k |-> [made EXCEPT !.peer = a], res |-> "ok"], [k |-> undone, res |-> "error"],
             [k |-> [k EXCEPT !.status = "connecting", !.bound = TRUE, !.peer = a],
              res |-> "pending"]}
      [] k.status = "connecting" /\ k.nonblock -> {[k |-> k, res |-> "error"]}
      [] k.status = "connecting" /\ ~k.nonblock ->
            {[k |-> made, res |-> "ok"], [k |-> undone, res |-> "error"]}
      [] k.status = "made" -> {[k |-> made, res |-> "ok"]}
      [] k.status = "failed" -> {[k |-> undone, res |-> "error"]}
      [] OTHER -> {[k |-> k, res |-> "error"]}

\* The handshake ends.
Established(h) ==
    /\ kern[h].status = "connecting"
    /\ \E s \in {"made", "failed"} : kern' = [kern EXCEPT ![h].status = s]
    /\ UNCHANGED <<sock, call>>

-----------------------------------------------------------------------------
(* Creating and closing.                                                   *)

Init ==
    /\ sock = [h \in Handles |-> Free]
    /\ kern = [h \in Handles |-> Gone]
    /\ call = Idle

\* wingo_sock_new, _udp, _tcp.
New(h, kind) ==
    /\ Ready /\ h = Min({g \in Handles : ~sock[g].live})
    /\ sock' = [sock EXCEPT ![h] = NewSock(kind, "OPEN", None, TRUE)]
    /\ kern' = [kern EXCEPT ![h] = Fresh]
    /\ UNCHANGED call

\* wingo_sock_close: a second close finds no descriptor.
Close(h) ==
    /\ Ready /\ sock[h].live
    /\ kern' = [kern EXCEPT ![h] = Gone]
    /\ sock' = [sock EXCEPT ![h].state = "CLOSED", ![h].local = None, ![h].remote = None]
    /\ UNCHANGED call

\* wingo_sock_free: closes first.
FreeSock(h) ==
    /\ Ready /\ sock[h].live
    /\ kern' = [kern EXCEPT ![h] = Gone]
    /\ sock' = [sock EXCEPT ![h] = Free]
    /\ UNCHANGED call

-----------------------------------------------------------------------------
(* Binding, listening, accepting.                                          *)

\* wingo_sock_bind, _bind_port, _bind_any; bind(2) refuses a socket that has a port.
Bind(h, a) ==
    /\ Ready /\ HasFd(h) /\ sock[h].state = "OPEN"
    /\ ~kern[h].bound
    /\ kern' = [kern EXCEPT ![h].bound = TRUE]
    /\ sock' = [sock EXCEPT ![h].local = a, ![h].state = "BOUND"]
    /\ UNCHANGED call

\* wingo_sock_listen; listen(2) refuses a socket that connects.
Listen(h) ==
    /\ Ready /\ HasFd(h) /\ sock[h].kind = "TCP" /\ sock[h].state = "BOUND"
    /\ kern[h].status = "unconnected"
    /\ kern' = [kern EXCEPT ![h].status = "listening"]
    /\ sock' = [sock EXCEPT ![h].state = "LISTEN"]
    /\ UNCHANGED call

\* wingo_sock_accept: accept(2) gives a blocking descriptor, made non-blocking like
\* its parent's.
Accept(h, c, a) ==
    /\ Ready /\ HasFd(h) /\ sock[h].state = "LISTEN"
    /\ c = Min({g \in Handles : ~sock[g].live})
    /\ sock' = [sock EXCEPT ![c] = NewSock("TCP", "CONNECT", a, sock[h].blocking)]
    /\ kern' = [kern EXCEPT ![c] = [status |-> "connected", bound |-> TRUE, peer |-> a,
                                    nonblock |-> ~sock[h].blocking]]
    /\ UNCHANGED call

-----------------------------------------------------------------------------
(* Connecting.                                                             *)

MarkConnected(h, a) == [sock EXCEPT ![h].remote = a, ![h].state = "CONNECT"]

\* wingo_sock_connect: a connection in progress is an error, and the state stays.
Connect(h, a) ==
    /\ Ready /\ HasFd(h) /\ sock[h].state \in {"OPEN", "BOUND"}
    /\ \E o \in KConnect(kern[h], sock[h].kind, a) :
        /\ kern' = [kern EXCEPT ![h] = o.k]
        /\ sock' = IF o.res = "ok" THEN MarkConnected(h, a) ELSE sock
    /\ UNCHANGED call

\* The end of wingo_sock_connect_timeout, by any of its returns: the descriptor is
\* blocking again if it was.
Restored(k, blocking) == IF blocking THEN [k EXCEPT !.nonblock = FALSE] ELSE k

\* wingo_sock_connect_timeout up to its poll: it looks at no state.
ConnectTimeout(h, a) ==
    /\ Ready /\ HasFd(h) /\ sock[h].kind = "TCP"
    /\ \E o \in KConnect([kern[h] EXCEPT !.nonblock = TRUE], "TCP", a) :
        IF o.res = "pending"
        THEN /\ kern' = [kern EXCEPT ![h] = o.k]
             /\ call' = [on |-> h, addr |-> a, was_blocking |-> sock[h].blocking]
             /\ UNCHANGED sock
        ELSE /\ kern' = [kern EXCEPT ![h] = Restored(o.k, sock[h].blocking)]
             /\ sock' = IF o.res = "ok" THEN MarkConnected(h, a) ELSE sock
             /\ UNCHANGED call

\* Its poll ends: connected; failed, SO_ERROR now read; or timed out, the handshake
\* still going on.
PollEnds ==
    /\ ~Ready
    /\ LET h == call.on
           k == kern[h] IN
       /\ kern' = [kern EXCEPT ![h] = Restored(k, call.was_blocking)]
       /\ sock' = IF k.status = "made" THEN MarkConnected(h, call.addr) ELSE sock
    /\ call' = Idle

\* wingo_sock_disconnect: the wrapper forgets, the kernel is not told.
Disconnect(h) ==
    /\ Ready /\ HasFd(h) /\ sock[h].state = "CONNECT"
    /\ sock' = [sock EXCEPT ![h].remote = None, ![h].state = "OPEN"]
    /\ UNCHANGED <<kern, call>>

\* wingo_sock_set_blocking.
SetBlocking(h, b) ==
    /\ Ready /\ HasFd(h)
    /\ sock' = [sock EXCEPT ![h].blocking = b]
    /\ kern' = [kern EXCEPT ![h].nonblock = ~b]
    /\ UNCHANGED call

Next ==
    \/ \E h \in Handles : \/ Close(h) \/ FreeSock(h) \/ Listen(h) \/ Disconnect(h)
                          \/ Established(h)
    \/ \E h \in {g \in Handles : ~sock[g].live}, kind \in Kinds : New(h, kind)
    \/ \E h \in Handles, a \in Peers : Bind(h, a) \/ Connect(h, a) \/ ConnectTimeout(h, a)
    \/ \E h \in Handles, a \in Peers, c \in {g \in Handles : ~sock[g].live} : Accept(h, c, a)
    \/ \E h \in Handles, b \in BOOLEAN : SetBlocking(h, b)
    \/ PollEnds

Spec == Init /\ [][Next]_vars

-----------------------------------------------------------------------------
(* Properties.                                                             *)

\* Types (socket.c:75-84).
TypeOK ==
    /\ \A h \in Handles :
        /\ sock[h] = Free \/
              /\ sock[h].kind \in Kinds /\ sock[h].state \in States
              /\ {sock[h].local, sock[h].remote} \subseteq Peers \cup {None}
              /\ sock[h].blocking \in BOOLEAN
        /\ kern[h].status \in Statuses /\ kern[h].peer \in Peers \cup {None}
        /\ {kern[h].bound, kern[h].nonblock} \subseteq BOOLEAN
    /\ call = Idle \/ (call.on \in Handles /\ call.addr \in Peers)

\* The kernel holds a socket exactly for the structures that are neither closed nor
\* freed: none leaks through failed connects, accepts and repeated closes.
FdsOwned == \A h \in Handles : kern[h].status # "none" <=> HasFd(h)

\* Outside wingo_sock_connect_timeout the descriptor's mode is the one the structure
\* records, by whichever of its returns the call ended (socket.c:1040).
BlockingTruthful ==
    \A h \in Handles : HasFd(h) /\ call.on # h => kern[h].nonblock = ~sock[h].blocking

\* What the structure claims, the kernel confirms: a connected one has a connection
\* and a remote address, a listening one listens, a bound one has its port.
StateTruthful ==
    \A h \in Handles : HasFd(h) =>
        /\ sock[h].state = "CONNECT" => kern[h].status \in {"made", "connected"}
        /\ sock[h].state = "CONNECT" <=> sock[h].remote # None
        /\ sock[h].state = "LISTEN" => kern[h].status = "listening"
        /\ sock[h].state = "BOUND" \/ sock[h].local # None => kern[h].bound
=============================================================================
