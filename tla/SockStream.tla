----------------------------- MODULE SockStream -----------------------------
(***************************************************************************)
(* Data over a connected TCP socket (socket.c): wingo_sock_sendall, which  *)
(* loops over send and poll, against a peer that receives.  The kernel's   *)
(* part is external: a buffer of limited room between them that a call     *)
(* fills or drains by as much as it likes.  The i-th byte written is i.    *)
(***************************************************************************)
EXTENDS Integers, Sequences

CONSTANTS
    MaxBytes,   \* bound: bytes handed to sendall in a behaviour
    MaxLen,     \* bound: bytes of one call
    Room        \* the kernel's buffer

SockStreamAssumption == {MaxBytes, MaxLen, Room} \subseteq Nat \ {0}

VARIABLES
    wpc,        \* "idle", "send", "poll"
    ptr,        \* bytes sent, over all calls
    remaining,
    asked,      \* bytes handed over, over all calls
    wire,       \* the kernel's buffer
    received,
    outcome     \* what the last sendall returned

vars == <<wpc, ptr, remaining, asked, wire, received, outcome>>

Init ==
    /\ wpc = "idle" /\ ptr = 0 /\ remaining = 0 /\ asked = 0
    /\ wire = <<>> /\ received = <<>> /\ outcome = "none"

\* wingo_sock_sendall begins.
SendAll(len) ==
    /\ wpc = "idle" /\ asked + len <= MaxBytes
    /\ outcome \in {"none", "SUCCESS"}
    /\ wpc' = "send" /\ remaining' = len /\ asked' = asked + len
    /\ UNCHANGED <<ptr, wire, received, outcome>>

\* send takes n of the bytes that remain.
Send_Bug(n) ==
    /\ wpc = "send" /\ n <= remaining /\ Len(wire) + n <= Room
    /\ wire' = wire \o [i \in 1..n |-> asked - remaining + i]
    /\ ptr' = ptr + n
    /\ remaining' = 0
    /\ UNCHANGED <<wpc, asked, received, outcome>>
Send(n) ==
    /\ wpc = "send" /\ n <= remaining /\ Len(wire) + n <= Room
    /\ wire' = wire \o [i \in 1..n |-> ptr + i]
    /\ ptr' = ptr + n
    /\ remaining' = remaining - n
    /\ UNCHANGED <<wpc, asked, received, outcome>>

\* send answers EAGAIN, of a non-blocking socket or after SO_SNDTIMEO: poll.
WouldBlock ==
    /\ wpc = "send" /\ remaining > 0 /\ Len(wire) = Room
    /\ wpc' = "poll"
    /\ UNCHANGED <<ptr, remaining, asked, wire, received, outcome>>

Writable ==
    /\ wpc = "poll" /\ Len(wire) < Room
    /\ wpc' = "send"
    /\ UNCHANGED <<ptr, remaining, asked, wire, received, outcome>>

Return(result) ==
    /\ wpc' = "idle" /\ remaining' = 0 /\ outcome' = result
    /\ UNCHANGED <<ptr, asked, wire, received>>

Done == wpc = "send" /\ remaining = 0 /\ Return("SUCCESS")

\* poll gives up, or send or poll meet an error; how much was sent is not told.
Fails ==
    \/ wpc = "poll" /\ Return("TIMEOUT")
    \/ wpc \in {"send", "poll"} /\ remaining > 0 /\ Return("ERROR")

\* wingo_sock_recv, wingo_sock_recv_timeout, wingo_peer_recv at the other end.
Recv(n) ==
    /\ n <= Len(wire)
    /\ received' = received \o SubSeq(wire, 1, n)
    /\ wire' = SubSeq(wire, n + 1, Len(wire))
    /\ UNCHANGED <<wpc, ptr, remaining, asked, outcome>>

Next ==
    \/ \E n \in 1..MaxLen : SendAll(n) \/ Send(n)
    \/ \E n \in 1..Room : Recv(n)
    \/ WouldBlock \/ Writable \/ Done \/ Fails

\* The thread in sendall runs, and the peer reads what arrives.
Fair ==
    /\ WF_vars(WouldBlock \/ Writable \/ Done \/ \E n \in 1..MaxLen : Send(n))
    /\ WF_vars(\E n \in 1..Room : Recv(n))

Spec == Init /\ [][Next]_vars /\ Fair

-----------------------------------------------------------------------------
(* Properties.                                                             *)

\* Types (socket.c:1348).
TypeOK ==
    /\ wpc \in {"idle", "send", "poll"} /\ outcome \in {"none", "SUCCESS", "TIMEOUT", "ERROR"}
    /\ {ptr, asked} \subseteq 0..MaxBytes /\ remaining \in 0..MaxLen
    /\ wire \in Seq(1..MaxBytes) /\ received \in Seq(1..MaxBytes)

\* However the kernel splits the writes, the peer reads the bytes once each and in
\* order, and a call that reports success left none behind (socket.c:1348).
InOrder ==
    /\ received \o wire = [i \in 1..ptr |-> i]
    /\ wpc = "idle" /\ outcome = "SUCCESS" => ptr = asked
    /\ wpc # "idle" => ptr + remaining = asked

\* A call returns if the peer reads, with or without a timeout.
SendEnds == wpc # "idle" ~> wpc = "idle"
=============================================================================
