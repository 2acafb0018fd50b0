------------------------------ MODULE MCParts -------------------------------
(***************************************************************************)
(* The building blocks beneath the engine and the DHT node side by side,   *)
(* for TLC.  They do not interact: `which' says which of them a behaviour  *)
(* is about, and the others keep their initial state.                      *)
(***************************************************************************)
EXTENDS Parts, TLC

CONSTANTS m1, m2, m3

VARIABLES
    which,
    kind, head, tail, count, next, prev, data,
    items, capacity, popped,
    stack, input, chunks,
    query, heard, genuine, reply, answer

-----------------------------------------------------------------------------
(* The instances besides those of Parts.                                   *)

ListData == {"a1", "b1", "a2"}
ListKey == [d \in ListData |-> IF d = "a2" THEN 2 ELSE 1]
List == INSTANCE LinkedLists WITH Data <- ListData, Key <- ListKey, Cells <- 1..4

Heap == INSTANCE PriorityQueue WITH Items <- 1..3, StartCapacity <- 3, MaxCapacity <- 6

MCHash == [k \in Keys |-> CASE k = "x" -> 1 [] k = "y" -> 3 [] k = "z" -> 5 [] OTHER -> 0]

\* Both ends of every range the classes test, in both families.
IPv4Bytes ==
    {<<o, 1, 2, 3>> : o \in {0, 1, 9, 10, 11, 126, 127, 128, 223, 224, 239, 240, 255}}
    \cup {<<100, o, 0, 0>> : o \in {63, 64, 127, 128}} \cup {<<169, o, 0, 0>> : o \in {253, 254}}
    \cup {<<172, o, 0, 0>> : o \in {15, 16, 31, 32}} \cup {<<192, 168, 0, 1>>, <<192, 167, 0, 1>>}
    \cup {<<192, 0, o, 0>> : o \in 0..3} \cup {<<198, o, 100, 0>> : o \in {17, 18, 19, 20, 51}}
    \cup {<<203, 0, o, 0>> : o \in {112, 113}} \cup {<<0, 0, 0, 0>>}
IPv6Bytes ==
    {[i \in 1..16 |-> CASE i = 1 -> p [] i = 2 -> q [] i = 16 -> r [] OTHER -> 0] :
        p \in {0, 32, 252, 254, 255}, q \in {0, 127, 128, 192}, r \in {0, 1}}
MCAddrs ==
    {[family |-> "IPv4", ip |-> x, port |-> 1] : x \in IPv4Bytes}
    \cup {[family |-> "IPv4", ip |-> <<1, 1, 2, 3>>, port |-> p] : p \in {0, 65535}}
    \cup {[family |-> "IPv6", ip |-> x, port |-> 1] : x \in IPv6Bytes}

\* The widths are the program's, in digits 0 and 1: "10" is the largest integer, two
\* levels the deepest, one byte the longest string.
Benc == INSTANCE Bencode WITH
    Chunks <- {<<"i">>, <<"-">>, <<"0">>, <<"1">>, <<"e">>, <<"l">>, <<"d">>, <<"1", ":", "0">>,
               <<"0", ":">>, <<"i", "1", "e">>, <<"1", ":", "1", "0", ":">>,
               <<"1", ":", "0", "i", "1", "e">>},
    Starts <- {<<"i">>, <<"0">>, <<"1">>, <<"l">>, <<"d">>, <<"1", ":", "0">>},
    Strs <- {<<>>, <<"1">>, <<"0">>}, Ints <- {1, 10, -1, -11},
    MaxChunks <- 4, MaxNodes <- 4, MaxInt <- 10, MaxString <- 1, MaxDigits <- 3, MaxDepth <- 2

\* A stranger's datagrams: arguments of the wrong length or type, missing, out of
\* range, or of another query; too many nodes; no dictionary at all.
StrArg(key, x) == key :> [str |-> x]
Datagram(y, rest) == StrArg("y", y) @@ StrArg("t", "t1") @@ rest
Question(q, args) == Datagram("q", StrArg("q", q) @@ ("a" :> [dict |-> StrArg("id", "A") @@ args]))
Forgeries == {
    Question("find_node", StrArg("target", "short")),
    Question("find_node", "target" :> [int |-> 1]),
    Question("get_peers", StrArg("id", "short") @@ StrArg("info_hash", "B") @@ StrArg("token", "k")),
    Question("announce_peer", StrArg("info_hash", "B") @@ StrArg("token", "oversized")
                                  @@ ("port" :> [int |-> 5])),
    Question("announce_peer", StrArg("token", "k") @@ ("port" :> [int |-> -1])
                                  @@ ("implied_port" :> [int |-> 7])),
    Question("vote", StrArg("target", "A")),
    Datagram("q", StrArg("q", "ping")),
    Datagram("q", ("q" :> [int |-> 1]) @@ ("a" :> [dict |-> StrArg("id", "A")])),
    Datagram("r", "r" :> [dict |-> "nodes" :> [str |-> [i \in 1..3 |-> [id |-> "A", addr |-> "x4"]]]]),
    Datagram("r", "r" :> [list |-> <<1>>]),
    Datagram("e", "e" :> [list |-> <<>>]),
    Datagram("x", <<>>), <<>> }
Msg == INSTANCE Messages WITH
    Ids <- {"A", "B"}, Tids <- {"t1", "t2"}, LongTid <- "long", Tokens <- {"k"},
    IPv4 <- {"x4"}, IPv6 <- {"z6"}, MaxNodes <- 2, MaxValues <- 2, PortMod <- 4,
    Forged <- Forgeries, MaxAdded <- 2

ASSUME PartsAssumption ==
    /\ State!StateAssumption /\ Thread!ThreadAssumption /\ Once!OnceAssumption
    /\ List!ListAssumption /\ Queue!QueueAssumption /\ Heap!HeapAssumption
    /\ Map!MapAssumption /\ Buf!BufferAssumption /\ PeerSet!PeersAssumption
    /\ Sock!SocketsAssumption /\ Stream!SockStreamAssumption /\ Addr!AddressesAssumption
    /\ Benc!BencodeAssumption /\ Msg!MessagesAssumption

-----------------------------------------------------------------------------
(* Each steps alone.                                                       *)

stateVars == <<current, strict, transitions, callbacks, history, history_head, num_history,
               time_in_state, last_state_change, clock, recent, spent>>
threadVars == <<state, running, stop_requested, handle_valid, wrapper, owner, detached, misused, starts>>
onceVars == <<flag, mutex, place, control, calls>>
listVars == <<kind, head, tail, count, next, prev, data>>
queueVars == <<q_kind, q_head, q_tail, q_count, q_next, q_data, slots, q_result>>
heapVars == <<items, capacity, popped>>
mapVars == <<m_capacity, m_count, buckets, m_owner>>
bufferVars == <<bytes, cap, b_read>>
peerVars == <<peers, p_capacity, peer, id_map, blacklist, opened>>
sockVars == <<sock, kern, call>>
streamVars == <<wpc, ptr, remaining, asked, wire, received, outcome>>
bencodeVars == <<stack, input, chunks>>
messageVars == <<query, heard, genuine, reply, answer>>

Parts == {"state", "thread", "once", "list", "queue", "heap", "map", "buffer", "peers",
          "sockets", "stream", "addresses", "bencode", "messages"}

Init ==
    /\ which \in Parts
    /\ State!Init /\ Thread!Init /\ Once!Init /\ Heap!Init /\ Map!Init /\ Buf!Init
    /\ PeerSet!Init /\ Sock!Init /\ Stream!Init /\ Benc!Init /\ Msg!Init
    /\ List!Init /\ (which # "list" => kind = "list")
    /\ Queue!Init /\ (which # "queue" => q_kind = "queue")

Next ==
    /\ UNCHANGED which
    /\ which # "state" => UNCHANGED stateVars
    /\ which # "thread" => UNCHANGED threadVars
    /\ which # "once" => UNCHANGED onceVars
    /\ which # "list" => UNCHANGED listVars
    /\ which # "queue" => UNCHANGED queueVars
    /\ which # "heap" => UNCHANGED heapVars
    /\ which # "map" => UNCHANGED mapVars
    /\ which # "buffer" => UNCHANGED bufferVars
    /\ which # "peers" => UNCHANGED peerVars
    /\ which # "sockets" => UNCHANGED sockVars
    /\ which # "stream" => UNCHANGED streamVars
    /\ which # "bencode" => UNCHANGED bencodeVars
    /\ which # "messages" => UNCHANGED messageVars
    /\ \/ which = "state" /\ State!Next
       \/ which = "thread" /\ Thread!Next
       \/ which = "once" /\ Once!Next
       \/ which = "list" /\ List!Next
       \/ which = "queue" /\ Queue!Next
       \/ which = "heap" /\ Heap!Next
       \/ which = "map" /\ Map!Next
       \/ which = "buffer" /\ Buf!Next
       \/ which = "peers" /\ PeerSet!Next
       \/ which = "sockets" /\ Sock!Next
       \/ which = "stream" /\ Stream!Next
       \/ which = "bencode" /\ Benc!Next
       \/ which = "messages" /\ Msg!Next

vars == <<which, stateVars, threadVars, onceVars, listVars, queueVars, heapVars,
          mapVars, bufferVars, peerVars, sockVars, streamVars, bencodeVars, messageVars>>

Spec == Init /\ [][Next]_vars /\ Thread!Fair /\ Stream!Fair

-----------------------------------------------------------------------------
(* What is checked.                                                        *)

\* What was begun ends: a stop reaches the thread however early it is requested
\* (thread.c), and sendall returns while the other end reads (socket.c).
CallsEnd == Thread!StopEnds /\ Stream!SendEnds

\* The recursive algorithms.  Lists (list.c): whatever mix of insertions, removals and
\* sorts, the pointers in both directions represent the sequence its abstract
\* specification promises.  Heaps (queue.c): a pop takes a smallest element and no call
\* loses one.  Bencoding and messages (dht_bencode.c, dht_message.c): what is encoded
\* decodes to itself, what is accepted cannot be read in two ways, and a query and its
\* answer mean the same to both ends, whatever strangers send.
AlgorithmsRight ==
    /\ [](List!TypeOK /\ List!WellLinked) /\ List!Implements
    /\ [](Heap!TypeOK) /\ Heap!PopsSmallest
    /\ [](Benc!TypeOK /\ Benc!RoundTrip /\ Benc!Reencodes) /\ Benc!SelfDelimiting
    /\ [](Msg!TypeOK /\ Msg!QueryUnderstood /\ Msg!AnswerReachesAsker /\ Msg!NothingInvented)
=============================================================================
