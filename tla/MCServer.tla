------------------------------ MODULE MCServer ------------------------------
(***************************************************************************)
(* The DHT node for TLC, and the parts of it whose interface has calls the *)
(* node never makes: `which' says whether a behaviour is one of the node   *)
(* (its calls without messages, or messages without searches and with a    *)
(* table that keeps whom it may) or of one part called directly, among     *)
(* them the routing table itself, and the rest keeps its initial state.    *)
(***************************************************************************)
EXTENDS DhtServer, RoutingTable

CONSTANTS MaxCalls      \* bound: messages of a sender, and tokens made by hand

VARIABLES which, allocated, array, capacity, phase, frees, began, walk

MCHosts == {"a", "x"}      \* one without IPv4
MCIPv4 == {"a"}
MCSenders == {[host |-> "a", port |-> 1], [host |-> "a", port |-> 2]}
MCTold == {[host |-> "a", port |-> 2]}
MCSubnet == [s \in MCSenders |-> IF s.host \in MCIPv4 THEN 1 ELSE 0]

\* The node's own rate limit is left off: its states say nothing of the rest.
Gate == INSTANCE DhtSecurity WITH
    Addrs <- Senders, Ids <- {}, enable_sybil <- TRUE, enable_rate_limit <- TRUE

Manager == INSTANCE SearchManager WITH
    Searches <- 1..3, StartCapacity <- 1, Expire <- 1, MaxTime <- 1, searches <- array

Routing == INSTANCE DhtRouting

ASSUME ServerPartsAssumption ==
    /\ ServerAssumption /\ Gate!SecurityAssumption /\ Manager!ManagerAssumption

managerVars == <<allocated, array, capacity, phase, frees, began, walk>>
mcVars == <<which, vars, managerVars, tableVars>>

MCInit ==
    /\ which \in {"life", "node", "storage", "security", "token", "searches", "routing"}
    /\ Init /\ Manager!Init
    /\ Routing!Init /\ (which # "routing" => my_id = CHOOSE id \in MyIds : TRUE)

StorageCall ==
    /\ Storage!Next /\ now' <= MaxTime
    /\ \A h \in Hashes : peers'[h] \subseteq {Address("a", 1), Address("a", 2), Address("x", 1)}
    /\ UNCHANGED <<state, parts, nodeVars, netVars, seen, securityVars, tokenVars>>

SecurityCall ==
    /\ \/ Gate!Call({0, 2}) /\ UNCHANGED now
       \/ now + 1 < MaxTime /\ now' = now + 1 /\ UNCHANGED securityVars
    /\ \A a \in Senders : Len(granted'[a]) <= MaxCalls
    /\ \A s \in {1} : sybil'[s] <= 1
    /\ UNCHANGED <<state, parts, nodeVars, netVars, seen, storageVars, tokenVars>>

TokenCall ==
    /\ \/ UNCHANGED now /\ (Token!Rotate \/ Token!Reset \/ \E h \in Hosts : Token!Generate(h))
       \/ now < MaxTime /\ now' = now + 1 /\ UNCHANGED tokenVars
    /\ rotations' <= MaxCalls
    /\ UNCHANGED <<state, parts, nodeVars, netVars, seen, storageVars, securityVars>>

RoutingCall ==
    /\ Routing!Next
    /\ UNCHANGED <<state, parts, nodeVars, netVars, seen, storageVars, securityVars, tokenVars, now>>

SearchCall ==
    /\ Manager!Next
    /\ UNCHANGED <<state, parts, nodeVars, netVars, seen, storageVars, securityVars, tokenVars>>

MCNext ==
    /\ UNCHANGED which
    /\ which # "searches" => UNCHANGED managerVars
    /\ which # "routing" => UNCHANGED tableVars
    /\ \/ which = "life" /\ Next /\ received' = 0
       \/ which = "node" /\ Next /\ searches' = 0 /\ bootstrap_count' = 0
          /\ nodes' = seen' /\ now' < MaxTime
       \/ which = "storage" /\ StorageCall
       \/ which = "security" /\ SecurityCall
       \/ which = "token" /\ TokenCall
       \/ which = "searches" /\ SearchCall
       \/ which = "routing" /\ RoutingCall

MCSpec == MCInit /\ [][MCNext]_mcVars /\ Manager!Fair

-----------------------------------------------------------------------------
\* Searches (dht_search.c): no walk reads a freed search or forgets one that runs.
SearchesKept == [](Manager!TypeOK /\ Manager!NoneFreed /\ Manager!EachOnce) /\ Manager!SearchesEnd
=============================================================================
