----------------------------- MODULE DhtServer ------------------------------
(***************************************************************************)
(* The DHT node of net/dht/dht.c: it starts and stops its subsystems,      *)
(* checks and handles the messages that arrive in any order, and runs the  *)
(* periodic work.  Storage, security and tokens are the modules DhtStorage, *)
(* DhtSecurity and DhtToken, which share this one's variables; of the      *)
(* routing table only the addresses it holds are kept (DhtRouting models   *)
(* it), and of the searches their number (SearchManager and DhtSearch).    *)
(*                                                                         *)
(* A message is a record of the fields a handler reads.  dht.c never       *)
(* registers dht_socket_callback with an event loop, so the program that   *)
(* calls it for each datagram is the environment here.                     *)
(***************************************************************************)
EXTENDS Integers, Sequences, FiniteSets, FiniteSetsExt

CONSTANTS
    Hosts, IPv4, Ports,
    Senders,            \* the addresses messages come from
    Anywhere,           \* the host 0.0.0.0 of a local announcement
    Hashes, Martian, Subnet,
    max_hashes, max_peers, storage_timeout,
    max_blacklist, BlacklistTTL, RatePerIp, MaxRateEntries, MaxPerSubnet,
    enable_rate_limit,
    RotateMin, RotateMax,
    PeriodicInterval,   \* DHT_PERIODIC_INTERVAL
    BootstrapInterval,  \* DHT_BOOTSTRAP_INTERVAL
    AnnouncedPorts,     \* the ports announcements name, 0 for the sender's own
    Told,               \* the addresses responses tell of
    MaxValues,          \* WINGO_DHT_MSG_MAX_VALUES
    MaxTime,            \* bound: the clock's last value
    MaxRotations,       \* bound: no start when so many secrets were replaced
    MaxMessages,        \* bound: messages received in a behaviour
    MaxSearches         \* bound: searches created in a run of the node

VARIABLES
    state, parts,       \* the subsystems that are allocated
    nodes, searches,
    next_periodic, bootstrap_count, last_bootstrap,
    received, reply,    \* the messages so far, and what the last was answered
    held,               \* tokens the other nodes have got from this one
    seen,               \* history: addresses counted for their subnet
    entries, peers, announced_at, last_update, lines, promised, file,
    blacklist, expires_at, rated, tokens, last_refill, sybil, granted,
    secrets, active_secret, next_rotate, rotations, handed,
    now

nodeVars == <<nodes, searches, next_periodic, bootstrap_count, last_bootstrap>>
netVars == <<received, reply, held>>
storageVars == <<entries, peers, announced_at, last_update, lines, promised, file>>
securityVars == <<blacklist, expires_at, rated, tokens, last_refill, sybil, granted>>
tokenVars == <<secrets, active_secret, next_rotate, rotations, handed>>
vars == <<state, parts, nodeVars, netVars, seen, storageVars, securityVars, tokenVars, now>>

Address(h, p) == [host |-> h, port |-> p]
PeerAddrs == {Address(h, p) : h \in Hosts \cup {Anywhere}, p \in Ports}

Storage == INSTANCE DhtStorage WITH
    Addrs <- PeerAddrs, max_peers_per_hash <- max_peers,
    peer_ttl_s <- storage_timeout, hash_ttl_s <- 2 * storage_timeout
Security == INSTANCE DhtSecurity WITH
    Addrs <- Senders, Ids <- {}, enable_sybil <- TRUE
Token == INSTANCE DhtToken WITH Addrs <- Hosts

\* Messages come from known hosts and tell of known addresses, and an announcement
\* names a port or none.
ServerAssumption ==
    /\ Senders \subseteq [host : Hosts, port : Ports] /\ AnnouncedPorts \subseteq Ports \cup {0}
    /\ Told \subseteq Senders
    /\ {PeriodicInterval, MaxMessages, MaxSearches} \subseteq Nat
    /\ Token!TokenAssumption /\ Storage!StorageAssumption /\ Security!SecurityAssumption

\* What start creates, in this order; the security has the tokens.
Order == <<"routing", "storage", "security", "searches", "sock">>
Parts == {Order[i] : i \in 1..Len(Order)}

\* What a caller without a secret can come up with, and what is in the bytes of a
\* token that was never written.
Forged(h) == [addr |-> h, secret |-> -1]

None == [host |-> Anywhere, port |-> 0]
NoReply == [kind |-> "none", to |-> None, values |-> {}, token |-> Forged(Anywhere)]
Reply(k, to, values) == [NoReply EXCEPT !.kind = k, !.to = to, !.values = values]

TypeOK ==
    /\ state \in {"STOPPED", "RUNNING", "ERROR"} /\ parts \subseteq Parts
    /\ nodes \subseteq Senders /\ searches \in 0..MaxSearches
    /\ next_periodic \in Nat /\ bootstrap_count \in 0..1 /\ last_bootstrap \in Nat
    /\ received \in 0..MaxMessages /\ reply.values \subseteq PeerAddrs
    /\ held \subseteq [addr : Hosts, secret : Int] /\ seen \subseteq Senders
    /\ Storage!TypeOK /\ Security!TypeOK /\ Token!TypeOK

\* wingo_dht_new
Init ==
    /\ now = 0 /\ state = "STOPPED" /\ parts = {}
    /\ nodes = {} /\ searches = 0
    /\ next_periodic = 0 /\ bootstrap_count = 0 /\ last_bootstrap = 0
    /\ received = 0 /\ reply = NoReply /\ held = {} /\ seen = {}
    /\ Storage!Init /\ Security!Init /\ Token!Init

-----------------------------------------------------------------------------
(* Lifecycle                                                               *)

\* A start that succeeds: new subsystems, with nothing of an earlier run.
StartWorks ==
    /\ state \in {"STOPPED", "ERROR"} /\ rotations + 2 <= MaxRotations
    /\ state' = "RUNNING" /\ parts' = Parts
    /\ nodes' = {} /\ searches' = 0
    /\ next_periodic' = now + PeriodicInterval
    /\ Storage!Clear /\ Security!Reset /\ Token!Reset
    /\ seen' = {}
    /\ UNCHANGED <<bootstrap_count, last_bootstrap, netVars, now>>

\* Step i of wingo_dht_start fails, the last being to bind the socket, and it frees
\* what the steps before it allocated.
Created(i) == {Order[j] : j \in 1..(i - 1)}

Freed_Bug(i) == Created(i) \ (IF i > Len(Order) THEN {"searches"} ELSE {})
Freed(i) == Created(i)

StartFails(i) ==
    /\ state \in {"STOPPED", "ERROR"}
    /\ state' = "ERROR"
    /\ parts' = (parts \cup Created(i)) \ Freed(i)
    /\ UNCHANGED <<nodeVars, netVars, seen, storageVars, securityVars, tokenVars, now>>

\* wingo_dht_stop, and wingo_dht_free of a running node
Stop ==
    /\ state = "RUNNING"
    /\ state' = "STOPPED" /\ parts' = {}
    /\ nodes' = {} /\ searches' = 0 /\ seen' = {}
    /\ Storage!Clear /\ Security!Reset /\ handed' = {}
    /\ UNCHANGED <<next_periodic, bootstrap_count, last_bootstrap, netVars,
                   secrets, active_secret, next_rotate, rotations, now>>

-----------------------------------------------------------------------------
(* Messages                                                                *)

Takes(counts, a) ==
    /\ a \notin Martian /\ ~Security!IsBlacklisted(a)
    /\ Subnet[a] = 0 \/ counts[Subnet[a]] < MaxPerSubnet

\* dht_add_node_from_msg for some addresses, one after another: the routing table may
\* keep an address or not, its subnet is charged either way, up to its limit.
Charged(counts, addrs) ==
    [s \in Security!Subnets |->
        LET heard == {a \in addrs : Subnet[a] = s /\ Takes(counts, a)} IN
        IF heard = {} THEN counts[s]
        ELSE Security!Least(MaxPerSubnet, counts[s] + Cardinality(heard))]

AddNodes(from, told) ==
    LET before == Charged(sybil, {from})
        taken == {a \in {from} : Takes(sybil, a)} \cup {a \in told : Takes(before, a)}
    IN  /\ sybil' = Charged(before, told)
        /\ seen' = seen \cup taken
        /\ \E kept \in SUBSET (taken \ nodes) : nodes' = nodes \cup kept

\* dht_handle_ping, dht_handle_find_node: who answers knows the asker.
Ping(m) ==
    /\ reply' = Reply("pong", m.from, {})
    /\ UNCHANGED <<held, storageVars, tokenVars>>

FindNode(m) ==
    /\ reply' = Reply("nodes", m.from, {})
    /\ UNCHANGED <<held, storageVars, tokenVars>>

\* dht_handle_get_peers: all peers, or as many as a message holds.  The result of
\* token_generate is not looked at.
Values(h) ==
    LET listed == Storage!Listed(h) IN
    IF Cardinality(listed) <= MaxValues THEN {listed} ELSE kSubset(MaxValues, listed)

GetPeers(m) ==
    LET h == m.from.host
        token == IF h \in IPv4 THEN Token!Compute(h, secrets[active_secret]) ELSE Forged(h)
    IN  /\ \E v \in Values(m.hash) : reply' = Reply("peers", m.from, v)
        /\ held' = held \cup {token}
        /\ Token!Generate(h)
        /\ UNCHANGED storageVars

\* dht_handle_announce_peer: the sender's own port when the message has none.  The
\* result of storage_announce is not looked at.
AnnouncePeer(m) ==
    LET h == m.from.host
        peer == Address(h, IF m.port = 0 THEN m.from.port ELSE m.port)
    IN  /\ IF ~Token!Accepts(h, m.token)
           THEN /\ reply' = [Reply("bad_token", m.from, {}) EXCEPT !.token = m.token]
                /\ UNCHANGED storageVars
           ELSE /\ reply' = Reply("pong", m.from, {})
                /\ IF Storage!CanAnnounce(m.hash, peer)
                   THEN Storage!Announce(m.hash, peer)
                   ELSE UNCHANGED storageVars
        /\ UNCHANGED <<held, tokenVars>>

\* dht_handle_pong, dht_handle_nodes, dht_handle_peers_response
Response(m) ==
    /\ reply' = NoReply
    /\ UNCHANGED <<held, storageVars, tokenVars>>

\* The switch of dht_process_message.  A query that lacks its target or info_hash is
\* not answered, but its handler adds the sender first: it does what a response that
\* tells of no node does, and is one here.
Handles(m) ==
    CASE m.type = "ping" -> Ping(m)
      [] m.type = "find_node" -> FindNode(m)
      [] m.type = "get_peers" -> GetPeers(m)
      [] m.type = "announce_peer" -> AnnouncePeer(m)
      [] m.type = "response" -> Response(m)

\* An error, or a message of no known type or without its sender's identifier: only
\* the source was counted.
Ignored ==
    /\ reply' = NoReply
    /\ UNCHANGED <<nodes, sybil, seen, held, storageVars, tokenVars>>

\* dht_process_message
Process(m) ==
    /\ state = "RUNNING" /\ received < MaxMessages
    /\ received' = received + 1
    /\ IF Security!Verdict(m.from) \in {"MARTIAN", "BLOCKED"}
       THEN UNCHANGED <<rated, tokens, last_refill>>
       ELSE Security!CountMessage(m.from)
    /\ IF Security!Verdict(m.from) = "OK" /\ m.type # "other"
       THEN AddNodes(m.from, m.told) /\ Handles(m)
       ELSE Ignored
    /\ UNCHANGED <<state, parts, searches, next_periodic, bootstrap_count, last_bootstrap,
                   blacklist, expires_at, granted, now>>

Message == [type |-> "other", from |-> None, hash |-> CHOOSE h \in Hashes : TRUE,
            token |-> Forged(Anywhere), port |-> 0, told |-> {}]

Plain(from, t) == [Message EXCEPT !.from = from, !.type = t]
Telling(from, told) == [Plain(from, "response") EXCEPT !.told = told]
Asking(from, h) == [Plain(from, "get_peers") EXCEPT !.hash = h]
Announcing(from, h, t, p) ==
    [Plain(from, "announce_peer") EXCEPT !.hash = h, !.token = t, !.port = p]

Messages(from) ==
    {Plain(from, t) : t \in {"ping", "find_node", "other"}}
    \cup {Telling(from, told) : told \in {{}} \cup {{a} : a \in Told}}
    \cup {Asking(from, h) : h \in Hashes}
    \cup {Announcing(from, h, t, p) :
             h \in Hashes, t \in held \cup {Forged(from.host)}, p \in AnnouncedPorts}

-----------------------------------------------------------------------------
(* The program's calls and the periodic work                               *)

\* wingo_dht_announce: stored under no address, and sent to the nodes around the
\* hash with tokens this node's own secret makes for them.
Announce(h, p) ==
    LET local == Address(Anywhere, p)
        hosts == {a.host : a \in nodes} \cap IPv4
        own == {Token!Compute(x, secrets[active_secret]) : x \in hosts}
    IN  /\ state = "RUNNING"
        /\ IF Storage!CanAnnounce(h, local)
           THEN /\ Storage!Announce(h, local)
                /\ handed' = handed \cup {[token |-> t, at |-> now, rotation |-> rotations] : t \in own}
                /\ held' = held \cup own \cup {Forged(a.host) : a \in {n \in nodes : n.host \notin IPv4}}
           ELSE UNCHANGED <<storageVars, handed, held>>
        /\ UNCHANGED <<state, parts, nodeVars, received, reply, seen, securityVars,
                       secrets, active_secret, next_rotate, rotations, now>>

NewSearch ==
    /\ state = "RUNNING" /\ searches < MaxSearches
    /\ searches' = searches + 1
    /\ UNCHANGED <<state, parts, nodes, next_periodic, bootstrap_count, last_bootstrap,
                   netVars, seen, storageVars, securityVars, tokenVars, now>>

\* wingo_dht_get_peers, which first hands out what is stored, and wingo_dht_find_node:
\* nobody frees the search they create.
LookUpPeers == NewSearch
LookUpNode == NewSearch

\* wingo_dht_bootstrap of a name that resolves; the counter only tells zero apart.
Bootstrap ==
    /\ state = "RUNNING"
    /\ bootstrap_count' = 1
    /\ UNCHANGED <<state, parts, nodes, searches, next_periodic, last_bootstrap,
                   netVars, seen, storageVars, securityVars, tokenVars, now>>

\* wingo_dht_periodic: the searches step, and at its time each subsystem expires.
Due == now >= next_periodic

Periodic ==
    /\ state = "RUNNING"
    /\ IF Due
       THEN /\ \E gone \in SUBSET nodes : nodes' = nodes \ gone
            /\ Storage!Expire /\ Security!BlacklistExpire /\ Token!RotateIfDue
            /\ next_periodic' = now + PeriodicInterval
       ELSE UNCHANGED <<nodes, next_periodic, storageVars, securityVars, tokenVars>>
    /\ last_bootstrap' = IF bootstrap_count > 0 /\ now - last_bootstrap >= BootstrapInterval
                         THEN now ELSE last_bootstrap
    /\ UNCHANGED <<state, parts, searches, bootstrap_count, netVars, seen, now>>

Tick ==
    /\ now < MaxTime
    /\ now' = now + 1
    /\ UNCHANGED <<state, parts, nodeVars, netVars, seen, storageVars, securityVars, tokenVars>>

Next ==
    \/ StartWorks \/ Stop \/ \E i \in 1..(Len(Order) + 1) : StartFails(i)
    \/ \E from \in Senders : \E m \in Messages(from) : Process(m)
    \/ \E h \in Hashes, p \in AnnouncedPorts \ {0} : Announce(h, p)
    \/ LookUpPeers \/ LookUpNode \/ Bootstrap \/ Periodic \/ Tick

Spec == Init /\ [][Next]_vars

-----------------------------------------------------------------------------
(* Properties                                                              *)

\* A start that fails at any step leaves nothing allocated, so that a node holds its
\* subsystems exactly while it runs, however starts, failures and stops mix.
PartsOnlyWhileRunning == parts = (IF state = "RUNNING" THEN Parts ELSE {})
PartsSound == TypeOK /\ PartsOnlyWhileRunning

\* A node refuses an announcement only with a token it did not hand to that host in
\* this run during the last shortest period; a port that changed, a rotation
\* meanwhile or late periodic work does not matter.
RefusesToken ==
    reply'.kind = "bad_token" =>
        \A t \in handed : t.token = reply'.token /\ t.token.addr = reply'.to.host
            => now >= t.at + RotateMin

TokensHonoured ==
    /\ [](Token!TypeOK /\ Token!AcceptedOnce)
    /\ [][received' # received => RefusesToken]_vars

\* A reply to get_peers has every peer whose announcement was accepted less than
\* storage_timeout ago, unless they are more than fit, and no other.
Answers ==
    reply'.kind = "peers" =>
        \E h \in Hashes :
            LET live == {a \in PeerAddrs : promised[h][a] # Storage!Never
                                            /\ now < promised[h][a] + storage_timeout}
            IN  /\ reply'.values \subseteq live
                /\ reply'.values = live \/ Cardinality(reply'.values) = MaxValues

LiveServed ==
    /\ [](Storage!LiveListed /\ Storage!OnlyLiveListed)
    /\ [][received' # received => Answers]_vars

\* Rate limit (dht_security.c), of its direct calls: an address, a host and a port,
\* gets no more messages through than a full bucket and one a second.  This is what
\* the code keeps.  dht_security.h:69 says "messages per second per IP" of the size
\* of the bucket: the code lets RatePerIp through once and then one a second, and
\* gives every port of a host a bucket of its own.
RateBounded == Security!RateBounded

\* dht_security.h:84: "Maximum nodes per subnet".  An address is refused for its
\* subnet only if that many nodes of the subnet were counted.
SubnetLimitsNodes ==
    \A a \in Senders : state = "RUNNING" /\ Security!Verdict(a) = "SYBIL" =>
        Cardinality({b \in seen : Subnet[b] = Subnet[a]}) >= MaxPerSubnet
=============================================================================
