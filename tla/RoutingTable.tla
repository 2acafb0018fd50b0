---------------------------- MODULE RoutingTable ----------------------------
(***************************************************************************)
(* The routing table of the DHT: what net/dht/dht_routing.c keeps of other *)
(* nodes, how it finds and removes one, and what it promises.  DhtRouting  *)
(* has the operations.                                                     *)
(*                                                                         *)
(* An identifier is a number.  A bucket is its first identifier and the    *)
(* nodes it holds; the order of the nodes in a bucket is left out, and     *)
(* bucket->next is the next bucket of the array, since the array and the   *)
(* list are only ever changed together, by a split.  bucket->cached is     *)
(* left out: a cached node replaces a bad one only in maintenance, which   *)
(* has expired every bad node before it looks for one.                     *)
(***************************************************************************)
EXTENDS Integers, Sequences, FiniteSets

CONSTANTS
    Weights,    \* the place values of an identifier's bits
    Half,       \* the greatest of them
    Peers,      \* the identifiers other nodes come with
    MyIds,      \* the identifiers our own node may have
    K,          \* bucket->max_count
    MaxBuckets, \* WINGO_DHT_MAX_BUCKETS
    MaxPing     \* WINGO_DHT_NODE_MAX_PING

Ids == 0..(2 * Half - 1)

ASSUME WeightsAssumption ==
    Weights \subseteq Nat \ {0} /\ Half \in Weights /\ \A w \in Weights : w <= Half
ASSUME PeersAssumption ==
    Peers \subseteq Ids /\ IsFiniteSet(Peers) /\ MyIds \subseteq Ids
ASSUME LimitsAssumption ==
    K \in Nat \ {0} /\ MaxBuckets \in Nat \ {0} /\ MaxPing \in Nat \ {0}

VARIABLES
    my_id,      \* rt->my_id
    buckets,    \* rt->buckets
    node        \* the node of each identifier, Fresh while the table has none

tableVars == <<my_id, buckets, node>>

NodeState == [state : {"unknown", "good", "dubious", "bad"},
              ping_count : 0..MaxPing,
              stale : BOOLEAN]  \* not seen for 2 * WINGO_DHT_NODE_GOOD_TIMEOUT

\* wingo_dht_node_new
Fresh == [state |-> "unknown", ping_count |-> 0, stale |-> FALSE]

-----------------------------------------------------------------------------
\* wingo_dht_bucket_contains
InRange(bs, i, id) ==
    /\ id >= bs[i].first
    /\ i < Len(bs) => id < bs[i + 1].first

\* wingo_dht_routing_find_bucket returns bucket i for id
Finds(bs, i, id) ==
    InRange(bs, i, id) /\ \A j \in 1..(i - 1) : ~InRange(bs, j, id)

Held == UNION {buckets[i].nodes : i \in DOMAIN buckets}
Bad(p) == node[p].state = "bad"

Without(gone) ==
    /\ buckets' = [i \in DOMAIN buckets |->
                     [buckets[i] EXCEPT !.nodes = @ \ gone]]
    /\ node' = [p \in Peers |-> IF p \in gone THEN Fresh ELSE node[p]]

\* wingo_dht_routing_remove_node
RemoveNode(p) ==
    /\ \E i \in DOMAIN buckets : Finds(buckets, i, p) /\ p \in buckets[i].nodes
    /\ Without({p})
    /\ UNCHANGED my_id

-----------------------------------------------------------------------------
(* What the table promises.                                                *)

\* No bucket holds more than K nodes, there are at most MaxBuckets of them,
\* our own identifier is in none, and what is known of a node goes with it.
TableTypeOK ==
    /\ my_id \in MyIds
    /\ buckets \in Seq([first : Ids, nodes : SUBSET (Peers \ {my_id})])
    /\ Len(buckets) \in 1..MaxBuckets
    /\ node \in [Peers -> NodeState]
    /\ \A i \in DOMAIN buckets : Cardinality(buckets[i].nodes) <= K
    /\ \A p \in Peers \ Held : node[p] = Fresh

\* A node is where find_bucket looks for it, through every split and every
\* change of the ranges.  So no node is held twice, and none is out of reach
\* of find_node, add_node and remove_node.
Reachable ==
    \A i \in DOMAIN buckets : \A p \in buckets[i].nodes : Finds(buckets, i, p)

\* "assuming next bucket has higher first" (dht_bucket.c:497): the buckets cut
\* the identifiers into ranges in ascending order.
NextIsHigher ==
    \A i \in DOMAIN buckets :
        i < Len(buckets) => buckets[i].first < buckets[i + 1].first

\* They do while our own identifier is in the lower half: the sum of two
\* bounds then never loses a carry, and no range of one identifier is split.
LowerHalfOrdered == my_id < Half => NextIsHigher

\* A node leaves the table only when it is bad, was not seen for too long, or
\* is removed: a split or a newcomer never costs a node that still answers.
OnlyTheLostLeave ==
    [][\A p \in Held \ Held' : Bad(p) \/ node[p].stale \/ RemoveNode(p)]_tableVars
=============================================================================
