----------------------------- MODULE DhtSearch -----------------------------
(***************************************************************************)
(* One search of net/dht/dht_search.c.  It does no I/O: its caller steps   *)
(* it, sends the queries it is told to send and feeds back what arrives,   *)
(* at any time and in any order: replies come late, twice or never, from   *)
(* nodes that were asked and from nodes that were not.  The manager steps  *)
(* and expires it from wingo_dht_periodic.                                 *)
(*                                                                         *)
(* A node stands for its identifier, and is the number of its place in the *)
(* order of distance from the target.  Addresses and tokens are left out,  *)
(* and so are node->acked, node->replied_at, search->result and the        *)
(* counters, which nothing in the search reads.                            *)
(***************************************************************************)
EXTENDS Integers, Sequences, FiniteSets, SequencesExt

CONSTANTS
    Nodes,      \* the nodes of the network, as distances
    MaxNodes,   \* WINGO_DHT_SEARCH_MAX_NODES
    Inflight,   \* WINGO_DHT_SEARCH_INFLIGHT
    Retransmit, \* WINGO_DHT_SEARCH_RETRANSMIT
    Expire,     \* WINGO_DHT_SEARCH_EXPIRE
    MaxTime     \* bound: the clock's last value, which stands for all later

ASSUME SearchNodesAssumption == Nodes \subseteq Nat
ASSUME SearchLimitsAssumption ==
    /\ MaxNodes \in Nat \ {0} /\ Inflight \in Nat \ {0}
    /\ Retransmit \in Nat \ {0} /\ Expire \in Nat /\ MaxTime \in Nat

VARIABLES
    state,          \* search->state; done and started follow from it
    nodes,          \* search->nodes, the first search->count
    queried,        \* the nodes in the array with the flag queried
    replied,        \* the nodes in the array with the flag replied
    queried_at,     \* node->queried_at
    started_at,     \* search->started_at
    next_step_at,   \* search->next_step_at
    now,            \* wingo_time_now
    verdicts        \* history: what done_cb was called with

nodeVars == <<nodes, queried, replied, queried_at>>
vars == <<state, nodeVars, started_at, next_step_at, now, verdicts>>

Done == state \in {"done", "timeout", "canceled"}

\* wingo_dht_search_new
Init ==
    /\ state = "init"
    /\ nodes = <<>>
    /\ queried = {} /\ replied = {}
    /\ queried_at = [n \in Nodes |-> 0]
    /\ now = 0 /\ started_at = 0 /\ next_step_at = 0
    /\ verdicts = <<>>

-----------------------------------------------------------------------------
(* The caller.  The operators whose names end in _Bug are faults the       *)
(* checks must notice; nothing below uses them.                            *)

\* wingo_dht_search_start
Start ==
    /\ state = "init" /\ now + Expire <= MaxTime
    /\ state' = "running"
    /\ started_at' = now /\ next_step_at' = now
    /\ UNCHANGED <<nodeVars, now, verdicts>>

\* The end of a search calls done_cb.
Finish(s) == state' = s /\ verdicts' = Append(verdicts, s)

Cancel ==
    /\ ~Done
    /\ Finish("canceled")
    /\ UNCHANGED <<nodeVars, started_at, next_step_at, now>>

\* A node is appended and the array is not sorted.
Place_Bug(i, n) == i = Len(nodes) + 1

\* search_sort_nodes puts a node that was appended in its place.
Place(i, n) ==
    /\ \A j \in 1..(i - 1) : nodes[j] < n
    /\ \A j \in i..Len(nodes) : n < nodes[j]

\* Only a search that is full to the brim and one more refuses a node.
InsertNode_Bug(n, has_replied) ==
    /\ ~Done
    /\ \/ /\ Contains(nodes, n)
          /\ UNCHANGED nodes
       \/ /\ ~Contains(nodes, n) /\ Len(nodes) <= MaxNodes
          /\ \E i \in 1..(Len(nodes) + 1) :
               Place(i, n) /\ nodes' = InsertAt(nodes, i, n)
    /\ replied' = IF has_replied THEN replied \cup {n} ELSE replied
    /\ UNCHANGED <<state, queried, queried_at, started_at, next_step_at, now,
                   verdicts>>

\* wingo_dht_search_insert_node.  A full array refuses a new node, be it
\* nearer than those it holds.
InsertNode(n, has_replied) ==
    /\ ~Done
    /\ \/ /\ Contains(nodes, n)
          /\ UNCHANGED nodes
       \/ /\ ~Contains(nodes, n) /\ Len(nodes) < MaxNodes
          /\ \E i \in 1..(Len(nodes) + 1) :
               Place(i, n) /\ nodes' = InsertAt(nodes, i, n)
    /\ replied' = IF has_replied THEN replied \cup {n} ELSE replied
    /\ UNCHANGED <<state, queried, queried_at, started_at, next_step_at, now,
                   verdicts>>

\* wingo_dht_search_remove_node, which works on a finished search too
RemoveNode(n) ==
    /\ \E i \in DOMAIN nodes : nodes[i] = n /\ nodes' = RemoveAt(nodes, i)
    /\ queried' = queried \ {n} /\ replied' = replied \ {n}
    /\ queried_at' = [queried_at EXCEPT ![n] = 0]
    /\ UNCHANGED <<state, started_at, next_step_at, now, verdicts>>

\* wingo_dht_search_node_replied: nobody asks whether n was queried.
NodeReplied(n) ==
    /\ Contains(nodes, n)
    /\ replied' = replied \cup {n}
    /\ UNCHANGED <<state, nodes, queried, queried_at, started_at, next_step_at,
                   now, verdicts>>

-----------------------------------------------------------------------------
(* wingo_dht_search_step                                                   *)

\* A query that was not answered, and whose time is not over.
Pending(n) == n \in queried \ replied /\ now - queried_at[n] < Retransmit

\* A node that does not answer is waited for.
HasConverged_Bug ==
    \A i \in DOMAIN nodes : i <= Inflight => nodes[i] \in queried \cap replied

\* search_has_converged: the nearest nodes were asked and have answered or
\* had the time to.  It holds of an empty array.
HasConverged ==
    \A i \in DOMAIN nodes :
      i <= Inflight => nodes[i] \in queried /\ ~Pending(nodes[i])

MayQuery == Cardinality({n \in queried : Pending(n)}) < Inflight

\* The last node that is left to ask.
Fresh_Bug(i) ==
    /\ i \in DOMAIN nodes /\ nodes[i] \notin queried \cup replied
    /\ \A j \in (i + 1)..Len(nodes) : nodes[j] \in queried \cup replied

\* The first node in the array that is left to ask.
Fresh(i) ==
    /\ i \in DOMAIN nodes /\ nodes[i] \notin queried \cup replied
    /\ \A j \in 1..(i - 1) : nodes[j] \in queried \cup replied

\* The time without progress, not the time since the start.
Late_Bug == now - next_step_at >= Expire

Late == now - started_at >= Expire

StepTimeout ==
    /\ state = "running" /\ Late
    /\ Finish("timeout")
    /\ UNCHANGED <<nodeVars, started_at, next_step_at, now>>

StepDone ==
    /\ state = "running" /\ ~Late /\ HasConverged
    /\ Finish("done")
    /\ UNCHANGED <<nodeVars, started_at, next_step_at, now>>

StepQuery ==
    /\ state = "running" /\ ~Late /\ ~HasConverged
    /\ MayQuery
    /\ \E i \in DOMAIN nodes :
         /\ Fresh(i)
         /\ queried' = queried \cup {nodes[i]}
         /\ queried_at' = [queried_at EXCEPT ![nodes[i]] = now]
    /\ next_step_at' = now + Retransmit
    /\ UNCHANGED <<state, nodes, replied, started_at, now, verdicts>>

StepWait ==
    /\ state = "running" /\ ~Late /\ ~HasConverged
    /\ ~(MayQuery /\ \E i \in DOMAIN nodes : Fresh(i))
    /\ next_step_at' = now + 1
    /\ UNCHANGED <<state, nodeVars, started_at, now, verdicts>>

Step == StepTimeout \/ StepDone \/ StepQuery \/ StepWait

\* wingo_dht_search_mgr_step steps a search when it says so.
MgrStep == now >= next_step_at /\ Step

\* wingo_dht_search_mgr_expire ends a search that never started, too.
MgrExpire ==
    /\ ~Done /\ Late
    /\ Finish("timeout")
    /\ UNCHANGED <<nodeVars, started_at, next_step_at, now>>

Tick ==
    /\ now < MaxTime
    /\ now' = now + 1
    /\ UNCHANGED <<state, nodeVars, started_at, next_step_at, verdicts>>

Next ==
    \/ Start \/ Cancel
    \/ \E n \in Nodes, has_replied \in BOOLEAN : InsertNode(n, has_replied)
    \/ \E n \in Nodes : RemoveNode(n) \/ NodeReplied(n)
    \/ Step \/ MgrExpire
    \/ Tick

Spec == Init /\ [][Next]_vars

\* wingo_dht_periodic calls the manager again and again, and time passes.
Fairness == WF_vars(MgrStep) /\ WF_vars(MgrExpire) /\ WF_vars(Tick)

FairSpec == Spec /\ Fairness

-----------------------------------------------------------------------------
(* Properties.                                                             *)

\* The range of every variable; the array never outgrows its limit, and a
\* node that is not in it has no flags.
TypeOK ==
    /\ state \in {"init", "running", "done", "timeout", "canceled"}
    /\ nodes \in Seq(Nodes) /\ Len(nodes) <= MaxNodes
    /\ queried \subseteq ToSet(nodes) /\ replied \subseteq ToSet(nodes)
    /\ queried_at \in [Nodes -> 0..now]
    /\ started_at \in 0..now /\ next_step_at \in Nat
    /\ now \in 0..MaxTime
    /\ verdicts \in Seq({"done", "timeout", "canceled"})

\* The nodes are kept in the order of distance and none is there twice,
\* whatever is inserted and removed: search_has_converged and
\* search_find_next_query rely on it.
NearestFirst ==
    \A i, j \in DOMAIN nodes : i < j => nodes[i] < nodes[j]

\* No more queries are in flight than WINGO_DHT_SEARCH_INFLIGHT, although
\* answers that never come free their places by the passing of time alone.
InflightBound == Cardinality({n \in queried : Pending(n)}) <= Inflight

\* The array keeps its order and the queries their bound under any insertions,
\* removals and losses (dht_search.c:329-340, 871-913).
OrderAndBound == NearestFirst /\ InflightBound

\* A search whose caller reports replies of queried nodes only is never
\* idle: while it has not converged, there is a node to ask or an answer to
\* wait for, also after losses and removals.
NeverIdle ==
    state = "running" /\ replied \subseteq queried =>
      \/ HasConverged
      \/ MayQuery /\ \E i \in DOMAIN nodes : Fresh(i)
      \/ \E n \in queried : Pending(n)

\* done_cb is called once, with the state the search ends in, whichever of
\* step, expire and cancel came first.
OneVerdict == verdicts = IF Done THEN <<state>> ELSE <<>>

\* The search does what Lookup promises.
Promise == INSTANCE Lookup WITH known <- ToSet(nodes), asked <- queried,
                                heard <- replied
PromiseSpec == Promise!Spec

\* What its caller may rely on: the steps of Lookup, and one verdict.
KeepsPromise == []OneVerdict /\ PromiseSpec

\* Every search that was started ends, whatever the caller reports and
\* whatever is lost.
SearchEnds == state = "running" ~> Done
=============================================================================
