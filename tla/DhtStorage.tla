----------------------------- MODULE DhtStorage -----------------------------
(***************************************************************************)
(* The announced peers of net/dht/dht_storage.c: for each info hash a list *)
(* of addresses with the time they were announced, limits on both, expiry, *)
(* and a text file to save to and load from.                               *)
(*                                                                         *)
(* The chained table finds an entry by its hash and is abstracted, and so  *)
(* is the order of a list: which expired peer makes place is left open.    *)
(* A peer's expires_at is always announced_at + peer_ttl_s.                *)
(***************************************************************************)
EXTENDS Integers, FiniteSets

CONSTANTS
    Hashes, Addrs,
    max_hashes, max_peers_per_hash,
    peer_ttl_s, hash_ttl_s      \* dht.c makes the second twice the first

StorageAssumption ==
    /\ max_hashes \in Nat /\ max_peers_per_hash \in Nat \ {0}
    /\ peer_ttl_s \in Nat \ {0} /\ hash_ttl_s \in Nat /\ peer_ttl_s <= hash_ttl_s

VARIABLES
    entries,            \* the hashes with an entry
    peers,              \* the list of each hash
    announced_at,       \* of each hash and peer
    last_update,        \* of each hash
    lines,              \* what load has still to announce
    promised,           \* history: the last call that was accepted, or Never
    file,               \* what was saved last
    now                 \* wingo_time_now

storageVars == <<entries, peers, announced_at, last_update, lines, promised, file>>

Never == -1
Times == Nat \cup {Never}

TypeOK ==
    /\ entries \subseteq Hashes /\ peers \in [Hashes -> SUBSET Addrs]
    /\ announced_at \in [Hashes -> [Addrs -> Nat]] /\ last_update \in [Hashes -> Nat]
    /\ lines \subseteq Hashes \X Addrs /\ file \subseteq Hashes \X Addrs
    /\ promised \in [Hashes -> [Addrs -> Times]]
    /\ now \in Nat

NoPeers == [h \in Hashes |-> {}]
NoTimes == [h \in Hashes |-> [a \in Addrs |-> 0]]
NoPromises == [h \in Hashes |-> [a \in Addrs |-> Never]]

\* wingo_dht_storage_new
Init ==
    /\ entries = {} /\ peers = NoPeers /\ lines = {} /\ file = {}
    /\ announced_at = NoTimes /\ last_update = [h \in Hashes |-> 0]
    /\ promised = NoPromises

\* wingo_dht_storage_clear; also _free and _new of another process, which finds
\* nothing but the file.
Clear ==
    /\ entries' = {} /\ peers' = NoPeers
    /\ promised' = NoPromises
    /\ UNCHANGED <<announced_at, last_update, lines, file>>

-----------------------------------------------------------------------------
Expired(h, a) == now >= announced_at[h][a] + peer_ttl_s

\* wingo_dht_storage_has_peer, which an expired peer does not fail
HasPeer(h, a) == h \in entries /\ a \in peers[h]

\* wingo_dht_storage_get_peers, _foreach_peer and _peer_count
Listed(h) == {a \in peers[h] : ~Expired(h, a)}

\* What peer_add removes for a newcomer: an expired peer, when the list is full.
MakesPlace_Bug(h, a) ==
    IF a \in peers[h] \/ Cardinality(peers[h]) < max_peers_per_hash THEN {{}}
    ELSE {{v} : v \in peers[h]}

MakesPlace(h, a) ==
    IF a \in peers[h] \/ Cardinality(peers[h]) < max_peers_per_hash THEN {{}}
    ELSE {{v} : v \in peers[h] \ Listed(h)}

\* wingo_dht_storage_announce is refused when the table or the list is full.
CanAnnounce(h, a) ==
    /\ h \in entries \/ Cardinality(entries) < max_hashes
    /\ MakesPlace(h, a) # {}

Stored(h, a) ==
    /\ \E out \in MakesPlace(h, a) : peers' = [peers EXCEPT ![h] = (@ \ out) \cup {a}]
    /\ entries' = entries \cup {h}
    /\ announced_at' = [announced_at EXCEPT ![h][a] = now]
    /\ last_update' = [last_update EXCEPT ![h] = now]
    /\ promised' = [promised EXCEPT ![h][a] = now]

Announce(h, a) == CanAnnounce(h, a) /\ Stored(h, a) /\ UNCHANGED <<lines, file>>

\* wingo_dht_storage_refresh_peer, which leaves last_update alone
RefreshPeer(h, a) ==
    /\ HasPeer(h, a)
    /\ announced_at' = [announced_at EXCEPT ![h][a] = now]
    /\ promised' = [promised EXCEPT ![h][a] = now]
    /\ UNCHANGED <<entries, peers, last_update, lines, file>>

\* An entry without peers does not stay.
RemovePeer(h, a) ==
    /\ HasPeer(h, a)
    /\ peers' = [peers EXCEPT ![h] = @ \ {a}]
    /\ entries' = IF peers[h] = {a} THEN entries \ {h} ELSE entries
    /\ promised' = [promised EXCEPT ![h][a] = Never]
    /\ UNCHANGED <<announced_at, last_update, lines, file>>

RemoveHash(h) ==
    /\ h \in entries
    /\ entries' = entries \ {h}
    /\ peers' = [peers EXCEPT ![h] = {}]
    /\ promised' = [promised EXCEPT ![h] = [a \in Addrs |-> Never]]
    /\ UNCHANGED <<announced_at, last_update, lines, file>>

\* wingo_dht_storage_expire: an entry goes with its last peer, and also when it
\* had no announcement for hash_ttl_s and no peer was refreshed since.
TooOld(h) ==
    /\ now - last_update[h] >= hash_ttl_s
    /\ \A a \in Listed(h) : announced_at[h][a] <= last_update[h]

Expire ==
    LET gone == {h \in entries : Listed(h) = {} \/ TooOld(h)} IN
    /\ entries' = entries \ gone
    /\ peers' = [h \in Hashes |-> IF h \in gone THEN {} ELSE Listed(h)]
    /\ UNCHANGED <<announced_at, last_update, lines, promised, file>>

\* wingo_dht_storage_save writes every peer, an expired one too, and no times.
Save ==
    /\ file' = {x \in Hashes \X Addrs : x[2] \in peers[x[1]]}
    /\ UNCHANGED <<entries, peers, announced_at, last_update, lines, promised>>

\* wingo_dht_storage_load announces line after line and ignores what is refused.
Load ==
    /\ lines' = file
    /\ UNCHANGED <<entries, peers, announced_at, last_update, promised, file>>

LoadLine(h, a) ==
    /\ <<h, a>> \in lines /\ lines' = lines \ {<<h, a>>}
    /\ IF CanAnnounce(h, a)
       THEN Stored(h, a)
       ELSE UNCHANGED <<entries, peers, announced_at, last_update, promised>>
    /\ UNCHANGED file

Call ==
    \/ \E h \in Hashes, a \in Addrs : Announce(h, a) \/ RefreshPeer(h, a) \/ RemovePeer(h, a)
    \/ \E h \in Hashes : RemoveHash(h)
    \/ Clear \/ Expire \/ Save \/ Load

\* A call of load runs to its end before any other.
Step ==
    /\ UNCHANGED now
    /\ IF lines = {} THEN Call ELSE \E h \in Hashes, a \in Addrs : LoadLine(h, a)

Tick == lines = {} /\ now' = now + 1 /\ UNCHANGED storageVars

Next == Step \/ Tick

Spec == Init /\ now = 0 /\ [][Next]_<<storageVars, now>>

-----------------------------------------------------------------------------
\* A peer whose announcement or refresh was accepted is handed out for peer_ttl_s:
\* no expiry, no full list and no other peer's call drops it earlier.
LiveListed ==
    \A h \in Hashes, a \in Addrs :
        promised[h][a] # Never /\ now < promised[h][a] + peer_ttl_s => h \in entries /\ a \in Listed(h)

\* And only such a peer is handed out; the limits hold, and no entry is empty.
OnlyLiveListed ==
    /\ \A h \in Hashes : \A a \in Listed(h) : promised[h][a] # Never /\ now < promised[h][a] + peer_ttl_s
    /\ Cardinality(entries) <= max_hashes
    /\ \A h \in Hashes : /\ Cardinality(peers[h]) <= max_peers_per_hash
                         /\ (h \in entries) = (peers[h] # {})
=============================================================================
