------------------------------- MODULE Peers -------------------------------
(***************************************************************************)
(* The peer manager (peer.c): an array of peers, a map from ids to peers,  *)
(* a blacklist of ids, and per peer a state and at most one TCP socket.    *)
(*                                                                         *)
(* A peer is a cell of `peer', Free once freed; `peers' is the array, as   *)
(* the sequence of its cells; `id_map' sends each id to a cell or to NULL. *)
(* A socket is its descriptor, in `opened' from wingo_sock_new_tcp to      *)
(* wingo_sock_free.  A peer added without an id has the zero id, which is  *)
(* never mapped and which no caller passes: Zero is not in Ids.  Cells and *)
(* descriptors are reused, the lowest free one first.  Of the clock and    *)
(* the last_activity of a peer only the difference is kept, `silent'.      *)
(*                                                                         *)
(* Left out: names, roles, trust and counters of bytes, which no operation *)
(* reads, and allocation failures.                                         *)
(***************************************************************************)
EXTENDS Integers, Sequences, FiniteSets, FiniteSetsExt

CONSTANTS
    Ids,            \* identifiers of peers
    Zero,           \* the identifier of a peer added without one
    Cells,          \* memory for peers, numbered
    Socks,          \* descriptors, numbered
    NULL,
    StartCapacity,  \* PEER_INIT_CAPACITY
    max_peers,      \* the limit given to wingo_peer_mgr_new
    Timeout         \* timeout_s given to wingo_peer_mgr_expire

PeersAssumption ==
    /\ Zero \notin Ids
    /\ Cells \cup Socks \subseteq Int /\ NULL \in Int \ (Cells \cup Socks)
    /\ {StartCapacity, max_peers, Timeout} \subseteq Nat \ {0}

VARIABLES
    peers,       \* the array, its first `count' entries
    capacity,    \* entries allocated for it
    peer,        \* the cells
    id_map,
    blacklist,
    opened       \* sockets open in the process

vars == <<peers, capacity, peer, id_map, blacklist, opened>>

States == {"DISCOVERED", "CONNECTING", "CONNECTED", "ACTIVE", "IDLE",
           "DISCONNECT", "ERROR", "BLACKLIST"}

Free == [live |-> FALSE]
Live == {p \in Cells : peer[p].live}

-----------------------------------------------------------------------------
(* Helpers.                                                                *)

\* mgr_grow_peers: doubles, but never past the limit.
Grown(c) == LET twice == 2 * c IN IF twice > max_peers THEN max_peers ELSE twice

\* peer_alloc.
NewPeer(id, addr) ==
    [live |-> TRUE, id |-> id, addr |-> addr, state |-> "DISCOVERED", sock |-> NULL,
     silent |-> 0, blacklisted |-> FALSE]

\* peer_free: the peer's own socket is closed with it.
SocketsOf(ps) == {peer[p].sock : p \in ps} \ {NULL}
Release(ps) ==
    /\ peer' = [p \in Cells |-> IF p \in ps THEN Free ELSE peer[p]]
    /\ opened' = opened \ SocketsOf(ps)

IsConnected(p) == peer[p].state \in {"CONNECTED", "ACTIVE"}

\* wingo_peer_is_timed_out, for a positive timeout.
IsTimedOut(p) == peer[p].silent >= Timeout

\* The clock advances by n: every peer has been silent for longer.  Times past the
\* timeout are not told apart.
Later(ps, n) ==
    [p \in Cells |-> IF ps[p].live
                     THEN [ps[p] EXCEPT !.silent = IF @ + n > Timeout THEN Timeout ELSE @ + n]
                     ELSE ps[p]]

-----------------------------------------------------------------------------
(* The manager.                                                            *)

\* wingo_peer_mgr_new.
Init ==
    /\ peers = <<>>
    /\ capacity = IF StartCapacity > max_peers THEN max_peers ELSE StartCapacity
    /\ peer = [p \in Cells |-> Free]
    /\ id_map = [i \in Ids |-> NULL]
    /\ blacklist = {}
    /\ opened = {}

\* wingo_peer_mgr_add of an id it has: with an address it is rediscovered, its
\* socket and the address it had staying as they are.
AddKnown(id) ==
    /\ id_map[id] # NULL
    /\ peer' = [peer EXCEPT ![id_map[id]].state = "DISCOVERED",
                            ![id_map[id]].silent = 0]
    /\ UNCHANGED <<peers, capacity, id_map, blacklist, opened>>

\* wingo_peer_mgr_add of a new peer: its flag is clear even if its id is on the
\* blacklist.
AddNew(id, addr, p) ==
    /\ id \in Ids => id_map[id] = NULL
    /\ Len(peers) < max_peers
    /\ p = Min(Cells \ Live)
    /\ capacity' = IF Len(peers) >= capacity THEN Grown(capacity) ELSE capacity
    /\ peer' = [peer EXCEPT ![p] = NewPeer(id, addr)]
    /\ peers' = Append(peers, p)
    /\ id_map' = IF id \in Ids THEN [id_map EXCEPT ![id] = p] ELSE id_map
    /\ UNCHANGED <<blacklist, opened>>

\* mgr_remove_at, applied to every peer in D: those that stay keep their order.
Removed(D) ==
    LET kept == {i \in DOMAIN peers : peers[i] \notin D} IN
    \E n \in 0..Len(peers) : \E place \in [1..n -> kept] :
        /\ kept = {place[k] : k \in 1..n}
        /\ \A j, k \in 1..n : j < k => place[j] < place[k]
        /\ peers' = [k \in 1..n |-> peers[place[k]]]

\* wingo_peer_mgr_remove.
RemoveId(id) ==
    /\ id_map[id] # NULL
    /\ id_map' = [id_map EXCEPT ![id] = NULL]
    /\ Removed({id_map[id]})
    /\ Release({id_map[id]})
    /\ UNCHANGED <<capacity, blacklist>>

\* wingo_peer_mgr_expire: in one walk, every peer without activity for a while,
\* connected or not.
Expire ==
    LET gone == {p \in Live : IsTimedOut(p)} IN
    /\ gone # {}
    /\ id_map' = [i \in Ids |-> IF \E p \in gone : peer[p].id = i THEN NULL ELSE id_map[i]]
    /\ Removed(gone)
    /\ Release(gone)
    /\ UNCHANGED <<capacity, blacklist>>

\* wingo_peer_mgr_clear.
Clear ==
    /\ peers # <<>>
    /\ Release(Range(peers))
    /\ peers' = <<>>
    /\ id_map' = [i \in Ids |-> NULL]
    /\ UNCHANGED <<capacity, blacklist>>

-----------------------------------------------------------------------------
(* One peer.                                                               *)

\* wingo_peer_connect: fails, at socket() or after up to the connect timeout; the
\* socket it opened is closed, one the peer had stays.
ConnectFails(p) ==
    /\ p \in Live /\ peer[p].addr /\ ~IsConnected(p)
    /\ \E n \in 0..1 : peer' = Later([peer EXCEPT ![p].state = "ERROR"], n)
    /\ UNCHANGED <<peers, capacity, id_map, blacklist, opened>>

\* wingo_peer_connect: succeeds; a socket the peer had is closed now.
ConnectSucceeds_Bug(p, s) ==
    /\ p \in Live /\ peer[p].addr /\ ~IsConnected(p)
    /\ s = Min(Socks \ opened)
    /\ opened' = opened \cup {s}
    /\ \E n \in 0..1 : peer' = [Later(peer, n) EXCEPT ![p].sock = s, ![p].state = "CONNECTED",
                                                      ![p].silent = 0]
    /\ UNCHANGED <<peers, capacity, id_map, blacklist>>
ConnectSucceeds(p, s) ==
    /\ p \in Live /\ peer[p].addr /\ ~IsConnected(p)
    /\ s = Min(Socks \ opened)
    /\ opened' = (opened \ SocketsOf({p})) \cup {s}
    /\ \E n \in 0..1 : peer' = [Later(peer, n) EXCEPT ![p].sock = s, ![p].state = "CONNECTED",
                                                      ![p].silent = 0]
    /\ UNCHANGED <<peers, capacity, id_map, blacklist>>

\* wingo_peer_disconnect, as a function of the peer's record.
Disconnected(r) == [r EXCEPT !.sock = NULL, !.state = "DISCONNECT", !.silent = 0]

Disconnect(p) ==
    /\ p \in Live
    /\ opened' = opened \ SocketsOf({p})
    /\ peer' = [peer EXCEPT ![p] = Disconnected(@)]
    /\ UNCHANGED <<peers, capacity, id_map, blacklist>>

\* wingo_peer_set_state, as an application may use it: a connected peer is active
\* or idle.
SetState(p, s) ==
    /\ p \in Live /\ peer[p].sock # NULL
    /\ peer[p].state \in {"CONNECTED", "ACTIVE", "IDLE"}
    /\ s \in {"ACTIVE", "IDLE"}
    /\ peer' = [peer EXCEPT ![p].state = s]
    /\ UNCHANGED <<peers, capacity, id_map, blacklist, opened>>

\* wingo_peer_send, wingo_peer_recv that moved data; wingo_peer_update_activity.
Transfer(p) ==
    /\ p \in Live /\ peer[p].sock # NULL
    /\ peer' = [peer EXCEPT ![p].silent = 0]
    /\ UNCHANGED <<peers, capacity, id_map, blacklist, opened>>

-----------------------------------------------------------------------------
(* The blacklist.                                                          *)

\* mgr_is_blacklisted, mgr_blacklist_add, mgr_blacklist_remove.
Listed(id) == id \in blacklist

\* wingo_peer_mgr_blacklist: a peer with a socket is disconnected, and its state is
\* then DISCONNECT and not BLACKLIST.
Blacklist(id) ==
    LET p == id_map[id] IN
    /\ blacklist' = blacklist \cup {id}
    /\ IF p = NULL
       THEN UNCHANGED <<peer, opened>>
       ELSE /\ opened' = opened \ SocketsOf({p})
            /\ peer' = [peer EXCEPT ![p] =
                            LET r == [@ EXCEPT !.blacklisted = TRUE, !.state = "BLACKLIST"]
                            IN  IF r.sock # NULL THEN Disconnected(r) ELSE r]
    /\ UNCHANGED <<peers, capacity, id_map>>

\* wingo_peer_mgr_unblacklist.
Unblacklist(id) ==
    LET p == id_map[id] IN
    /\ Listed(id)
    /\ blacklist' = blacklist \ {id}
    /\ peer' = IF p = NULL THEN peer
               ELSE [peer EXCEPT ![p].blacklisted = FALSE,
                                 ![p].state = IF @ = "BLACKLIST" THEN "DISCOVERED" ELSE @]
    /\ UNCHANGED <<peers, capacity, id_map, opened>>

Tick ==
    /\ peer' = Later(peer, 1)
    /\ UNCHANGED <<peers, capacity, id_map, blacklist, opened>>

Next ==
    \/ \E id \in Ids : AddKnown(id) \/ RemoveId(id) \/ Blacklist(id) \/ Unblacklist(id)
    \/ \E id \in Ids \cup {Zero}, addr \in BOOLEAN, p \in Cells \ Live : AddNew(id, addr, p)
    \/ Expire \/ Clear \/ Tick
    \/ \E p \in Cells : ConnectFails(p) \/ Disconnect(p) \/ Transfer(p)
    \/ \E p \in Cells, s \in Socks \ opened : ConnectSucceeds(p, s)
    \/ \E p \in Cells, s \in States : SetState(p, s)

Spec == Init /\ [][Next]_vars

-----------------------------------------------------------------------------
(* Properties.                                                             *)

\* Types (peer.c:90-136).
TypeOK ==
    /\ peers \in Seq(Cells) /\ capacity \in 1..max_peers
    /\ \A p \in Cells : peer[p] = Free \/
          /\ peer[p].id \in Ids \cup {Zero} /\ peer[p].addr \in BOOLEAN
          /\ peer[p].state \in States /\ peer[p].sock \in Socks \cup {NULL}
          /\ peer[p].silent \in 0..Timeout
          /\ peer[p].blacklisted \in BOOLEAN
    /\ id_map \in [Ids -> Cells \cup {NULL}]
    /\ blacklist \subseteq Ids /\ opened \subseteq Socks

\* The array holds each live peer once, within what was allocated, and the map
\* exactly the peers with an id: no pointer to a freed peer survives in either
\* (peer.c: add, remove, expire, clear).
NoDangling ==
    /\ Range(peers) = Live /\ IsInjective(peers)
    /\ Len(peers) <= capacity
    /\ \A i \in Ids : id_map[i] # NULL => id_map[i] \in Live /\ peer[id_map[i]].id = i
    /\ \A p \in Live : peer[p].id \in Ids => id_map[peer[p].id] = p

\* Every open socket belongs to exactly one live peer, through reconnections after
\* errors and rediscoveries, blacklisting and expiry: none leaks, none is closed
\* twice (peer.c: connect, disconnect, peer_free).
SocketsOwned ==
    /\ opened = SocketsOf(Live)
    /\ \A p, q \in Live : peer[p].sock = peer[q].sock /\ p # q => peer[p].sock = NULL

\* A peer said to be connected has a socket; a flagged peer's id is on the list.
StatesTruthful ==
    \A p \in Live :
        /\ IsConnected(p) => peer[p].sock # NULL
        /\ peer[p].blacklisted => Listed(peer[p].id)

\* Expiry takes every silent peer and only those: a peer heard of within the timeout
\* keeps its place and its socket (peer.c, wingo_peer_mgr_expire).
ActiveKept ==
    [][Expire => /\ \A p \in Live' : ~IsTimedOut(p)
                 /\ \A p \in Live : ~IsTimedOut(p) => peer'[p] = peer[p]]_vars
=============================================================================
