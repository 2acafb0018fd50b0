-------------------------------- MODULE Parts --------------------------------
(***************************************************************************)
(* The building blocks that the proofs are about, as instances over one    *)
(* set of constants and variables: the state machine, thread objects and   *)
(* once controls, queues, hash maps and buffers, peers, sockets with the    *)
(* data over them, and addresses.  They do not interact.  MCParts gives    *)
(* them values and adds the others.                                        *)
(***************************************************************************)
EXTENDS Integers, Sequences

CONSTANTS
    StateValues, max_transitions, max_callbacks, max_history, MaxAge,  \* StateMachine
    MaxStarts, Stubborn,                                               \* ThreadObject
    Callers, Controls,                                                 \* Once
    PeerIds, ZeroId, Cells, Socks, NULL, StartCapacity, max_peers, Timeout,  \* Peers
    Descriptors, Remotes,                                              \* Sockets
    MaxBytes, MaxLen, Room,                                            \* SockStream
    AllAddrs,                                                          \* Addresses
    Elements, MaxItems, Asked,                                         \* Queues
    Keys, Vals, Hash, MapCapacity,                                     \* HashMap
    Octet, MaxChunk, DefaultCapacity, BufCapacity,                     \* Buffer
    None

VARIABLES
    current, strict, transitions, callbacks, history, history_head, num_history,
    time_in_state, last_state_change, clock, recent, spent,
    state, running, stop_requested, handle_valid, wrapper, owner, detached, misused, starts,
    flag, mutex, place, control, calls,
    peers, p_capacity, peer, id_map, blacklist, opened,
    sock, kern, call,
    wpc, ptr, remaining, asked, wire, received, outcome,
    q_kind, q_head, q_tail, q_count, q_next, q_data, slots, q_result,
    m_capacity, m_count, buckets, m_owner,
    bytes, cap, b_read

State == INSTANCE StateMachine WITH Values <- StateValues, MaxTime <- MaxAge
Thread == INSTANCE ThreadObject
Once == INSTANCE Once
PeerSet == INSTANCE Peers WITH Ids <- PeerIds, Zero <- ZeroId, capacity <- p_capacity
Sock == INSTANCE Sockets WITH Handles <- Descriptors, Peers <- Remotes
Stream == INSTANCE SockStream
Addr == INSTANCE Addresses WITH Addrs <- AllAddrs
Queue == INSTANCE Queues WITH Data <- Elements, kind <- q_kind, head <- q_head,
             tail <- q_tail, count <- q_count, next <- q_next, data <- q_data, result <- q_result
Map == INSTANCE HashMap WITH MaxCapacity <- MapCapacity, capacity <- m_capacity,
           count <- m_count, owner <- m_owner
Buf == INSTANCE Buffer WITH Byte <- Octet, MaxCapacity <- BufCapacity, data <- bytes,
           read <- b_read

-----------------------------------------------------------------------------
(* What is checked and proved.                                             *)

\* State machine (state.c): after any mix of transitions, forced changes, failing
\* callbacks, clears and wraps of the ring, the history is the latest records in
\* order and agrees with the current state, and no time is lost or counted twice.
\* It does not say that an error of a callback rejects the transition, as
\* state.h:127 does: the code keeps the new state when ON_ENTER fails.
MachineSound == State!TypeOK /\ State!HistoryIsRecent /\ State!TimeAccounted

\* Thread objects and once controls (thread.c): only a detached thread outlives its
\* object, a joined one is over, and racing callers run a function exactly once,
\* none of them returning before it ran.
ThreadsSafe ==
    /\ Thread!TypeOK /\ Thread!OnlyDetachedOutlives /\ Thread!JoinedIsOver
    /\ Once!TypeOK /\ Once!ExactlyOnce

\* Containers (queue.c, hashmap.c, buffer.c): whatever mix of calls, the links, indexes
\* and counters of queues and rings lead through the elements in the order they came,
\* and pop returns them in it; a map finds every key through rehashing and owns exactly
\* the values it holds; no call makes a buffer's reader see a byte twice or miss one.
ContainersKept ==
    /\ [](Queue!TypeOK /\ Queue!WellLinked) /\ Queue!Implements
    /\ [](Map!TypeOK /\ Map!Consistent)
    /\ [](Buf!TypeOK) /\ Buf!CursorKept

\* Peers (peer.c): no array entry or index names a freed peer, no socket leaks or is
\* closed twice, a peer's state agrees with its socket, and expiry spares the active.
PeersSound ==
    /\ [](PeerSet!TypeOK /\ PeerSet!NoDangling /\ PeerSet!SocketsOwned /\ PeerSet!StatesTruthful)
    /\ PeerSet!ActiveKept

\* Sockets (socket.c): a structure's fields tell the truth about its descriptor on
\* every return path, sendall delivers bytes once and in order, and addresses are
\* compared by a total order and classified alike in either family.
SocketsSound ==
    /\ Sock!TypeOK /\ Sock!FdsOwned /\ Sock!BlockingTruthful /\ Sock!StateTruthful
    /\ Stream!TypeOK /\ Stream!InOrder
    /\ Addr!Ordered /\ Addr!ClassesAgree
=============================================================================
