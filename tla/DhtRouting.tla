----------------------------- MODULE DhtRouting -----------------------------
(***************************************************************************)
(* The routing table of the DHT: net/dht/dht_routing.c with the buckets of *)
(* dht_bucket.c and the node states of dht_node.c.  The DHT's thread adds  *)
(* a node for every message it accepts, expires nodes from time to time,   *)
(* and splits the bucket of its own identifier when it is full.            *)
(***************************************************************************)
EXTENDS RoutingTable, SequencesExt

\* wingo_dht_routing_new
Init ==
    /\ my_id \in MyIds
    /\ buckets = << [first |-> 0, nodes |-> {}] >>
    /\ node = [p \in Peers |-> Fresh]

-----------------------------------------------------------------------------
(* Splits.  The operators whose names end in _Bug are faults the checks    *)
(* must notice; nothing below uses them.                                   *)

\* The bits of id that are not set.
Unset(id) == {w \in Weights : (id \div w) % 2 = 0}

\* wingo_dht_bucket_middle returns mid for bucket i.  With a next bucket it
\* is the average, whose last carry is lost; without, the highest unset bit is
\* set and the bits below are cleared, and there is none if every bit is set.
Middle(bs, i, mid) ==
    IF i < Len(bs)
    THEN mid = ((bs[i].first + bs[i + 1].first) % (2 * Half)) \div 2
    ELSE \E w \in Unset(bs[i].first) :
            /\ \A v \in Unset(bs[i].first) : v <= w
            /\ mid = bs[i].first - (bs[i].first % w) + w

Split_Bug(bs, i, mid) ==
    LET moved == {p \in bs[i].nodes : p > mid}
    IN InsertAt([bs EXCEPT ![i].nodes = @ \ moved], i + 1,
                [first |-> mid, nodes |-> moved])

\* wingo_dht_bucket_split
Split(bs, i, mid) ==
    LET moved == {p \in bs[i].nodes : p >= mid}
    IN InsertAt([bs EXCEPT ![i].nodes = @ \ moved], i + 1,
                [first |-> mid, nodes |-> moved])

-----------------------------------------------------------------------------
(* Nodes.                                                                  *)

\* wingo_dht_node_pinged.  The count matters up to MaxPing.
Pinged(n) ==
    LET count == IF n.ping_count < MaxPing THEN n.ping_count + 1 ELSE MaxPing
    IN [n EXCEPT !.ping_count = count,
                 !.state = IF @ \in {"unknown", "good"} THEN "dubious"
                           ELSE IF count = MaxPing THEN "bad" ELSE @]

\* wingo_dht_node_update_seen, then what add_node's parameter confirm says:
\* 2, it replied; 1, it was pinged; 0, it was only heard of
Confirm(n, confirm) ==
    LET seen == [n EXCEPT !.stale = FALSE]
    IN IF confirm = 2 THEN [seen EXCEPT !.state = "good", !.ping_count = 0]
       ELSE IF confirm = 1 THEN Pinged(seen) ELSE seen

-----------------------------------------------------------------------------
(* The table.                                                              *)

Full_Bug(bs, i) == Cardinality(bs[i].nodes) > K

Full(bs, i) == Cardinality(bs[i].nodes) >= K

\* Node p is in bucket i of bs, and the nodes in gone are freed.
Stored(bs, i, p, confirm, gone) ==
    /\ buckets' = [bs EXCEPT ![i].nodes = (@ \ gone) \cup {p}]
    /\ node' = [q \in Peers |->
                  IF q = p THEN Confirm(node[p], confirm)
                  ELSE IF q \in gone THEN Fresh ELSE node[q]]

\* wingo_dht_routing_add_node, for a node the table has
AddKnown(p, confirm) ==
    /\ \E i \in DOMAIN buckets : Finds(buckets, i, p) /\ p \in buckets[i].nodes
    /\ node' = [node EXCEPT ![p] = Confirm(@, confirm)]
    /\ UNCHANGED <<my_id, buckets>>

\* The bucket add_node finds for a node it has not; it refuses our own.
New(p, i) == p # my_id /\ Finds(buckets, i, p) /\ p \notin buckets[i].nodes

\* wingo_dht_bucket_add_node with room, with a bad node to replace, and
\* neither: the node is dropped unless the bucket holds our own identifier
AddRoom(p, confirm) ==
    /\ \E i \in DOMAIN buckets :
          New(p, i) /\ ~Full(buckets, i) /\ Stored(buckets, i, p, confirm, {})
    /\ UNCHANGED my_id

AddReplace_Bug(p, confirm) ==
    /\ \E i \in DOMAIN buckets :
          /\ New(p, i) /\ Full(buckets, i)
          /\ \E b \in buckets[i].nodes :
                node[b].state # "good" /\ Stored(buckets, i, p, confirm, {b})
    /\ UNCHANGED my_id

AddReplace(p, confirm) ==
    /\ \E i \in DOMAIN buckets :
          /\ New(p, i) /\ Full(buckets, i)
          /\ \E b \in buckets[i].nodes :
                Bad(b) /\ Stored(buckets, i, p, confirm, {b})
    /\ UNCHANGED my_id

Splits_Bug(p, i, mid) ==
    /\ New(p, i) /\ Full(buckets, i) /\ \A b \in buckets[i].nodes : ~Bad(b)
    /\ Len(buckets) < MaxBuckets
    /\ Middle(buckets, i, mid)

\* wingo_dht_routing_split_bucket may split bucket i at mid for p
Splits(p, i, mid) ==
    /\ New(p, i) /\ Full(buckets, i) /\ \A b \in buckets[i].nodes : ~Bad(b)
    /\ InRange(buckets, i, my_id)
    /\ Len(buckets) < MaxBuckets
    /\ Middle(buckets, i, mid)

\* The bucket is split, and the node is tried once more: it is stored, or
\* dropped when the bucket it now belongs to is full.
AddSplit(p, confirm) ==
    /\ \E i \in DOMAIN buckets, mid \in Ids :
          /\ Splits(p, i, mid)
          /\ LET bs == Split(buckets, i, mid)
             IN \E j \in DOMAIN bs :
                   /\ Finds(bs, j, p)
                   /\ \/ ~Full(bs, j) /\ Stored(bs, j, p, confirm, {})
                      \/ Full(bs, j) /\ buckets' = bs /\ UNCHANGED node
    /\ UNCHANGED my_id

\* wingo_dht_node_is_expired
Expired == {p \in Held : Bad(p) \/ node[p].stale}

\* wingo_dht_routing_expire, and maintenance, which does no more.
\* wingo_dht_bucket_expire frees a node and bucket_remove_at frees it again.
\* Either the allocator does not notice, as here, or it aborts the process:
\* no step follows, and Spec, which has no fairness, allows that at any time.
Expire == Expired # {} /\ Without(Expired) /\ UNCHANGED my_id

\* Time passes: a node was not seen for too long.
Age(p) ==
    /\ p \in Held /\ ~node[p].stale
    /\ node' = [node EXCEPT ![p].stale = TRUE]
    /\ UNCHANGED <<my_id, buckets>>

Next ==
    \/ \E p \in Peers :
          \/ \E confirm \in 0..2 :
                \/ AddKnown(p, confirm) \/ AddRoom(p, confirm)
                \/ AddReplace(p, confirm) \/ AddSplit(p, confirm)
          \/ RemoveNode(p)
          \/ Age(p)
    \/ Expire

Spec == Init /\ [][Next]_tableVars
=============================================================================
