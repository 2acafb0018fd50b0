------------------------------ MODULE Messages ------------------------------
(***************************************************************************)
(* DHT messages (dht_message.c) between a node that asks and one that      *)
(* answers: built, turned into a bencoded dictionary, sent, and read back. *)
(* A dictionary is a function from its keys; bytes are module Bencode's    *)
(* matter.  What a stranger may send instead is a set of dictionaries.     *)
(*                                                                         *)
(* A string is known by its contents: identifiers are those of 20 bytes,   *)
(* transaction ids and tokens those that fit their arrays.  A "nodes"      *)
(* string is the sequence of its whole entries.                            *)
(***************************************************************************)
EXTENDS Integers, SequencesExt

CONSTANTS
    Ids,          \* node ids, targets and info hashes
    Tids,         \* transaction ids of at most 16 bytes
    LongTid,      \* and one that is longer
    Tokens,       \* tokens of at most 128 bytes
    IPv4, IPv6,   \* addresses
    MaxNodes,     \* WINGO_DHT_MSG_MAX_NODES
    MaxValues,    \* WINGO_DHT_MSG_MAX_VALUES
    PortMod,      \* ports are taken modulo this, 2^16
    Forged,       \* dictionaries a stranger may send
    MaxAdded,     \* bound: nodes and values added to a reply
    None

MessagesAssumption ==
    /\ LongTid \notin Tids /\ None \notin Ids \cup Tids \cup Tokens
    /\ {MaxNodes, MaxValues, PortMod, MaxAdded} \subseteq Nat \ {0}

VARIABLES
    query,     \* the message the asker built, or None
    heard,     \* what the answerer made of the datagram, or None
    genuine,   \* heard came from the asker
    reply,     \* the message the answerer built, or None
    answer     \* what the asker made of it, or None

vars == <<query, heard, genuine, reply, answer>>

Queries == {"ping", "find_node", "get_peers", "announce_peer"}

Str(x) == [str |-> x]
Num(n) == [int |-> n]
ListOf(xs) == [list |-> xs]
Dict(f) == [dict |-> f]
Nothing == <<>>

-----------------------------------------------------------------------------
(* Building.                                                               *)

\* wingo_dht_msg_new.
NewMsg(type) ==
    [type |-> type, query |-> "UNKNOWN", tid |-> None, id |-> None, target |-> None,
     infohash |-> None, token |-> None, port |-> 0, implied |-> FALSE, want |-> {},
     nodes |-> <<>>, values |-> <<>>, code |-> 0]

\* wingo_dht_msg_set_tid: one that does not fit is refused, and the builders go on.
SetTid(m, tid) == IF tid \in Tids THEN [m EXCEPT !.tid = tid] ELSE m

\* The builders of queries; without a transaction id they draw one.
BuildQuery(q, id, tid) == SetTid([NewMsg("q") EXCEPT !.query = q, !.id = id], tid)
BuildPing(id, tid) == BuildQuery("ping", id, tid)
BuildFindNode(id, tid, target, want) ==
    [BuildQuery("find_node", id, tid) EXCEPT !.target = target, !.want = want]
BuildGetPeers(id, tid, hash, want) ==
    [BuildQuery("get_peers", id, tid) EXCEPT !.infohash = hash, !.want = want]
BuildAnnouncePeer(id, tid, hash, port, token) ==
    [BuildQuery("announce_peer", id, tid) EXCEPT !.infohash = hash, !.port = port,
                                                 !.token = token]

\* The builders of replies: pong and nodes, peers, error; they draw no id.
BuildNodes(id, tid) == SetTid([NewMsg("r") EXCEPT !.id = id], tid)
BuildPeers(id, tid, token) == [BuildNodes(id, tid) EXCEPT !.token = token]
BuildError(tid, code) == SetTid([NewMsg("e") EXCEPT !.code = code], tid)

-----------------------------------------------------------------------------
(* Encoding.                                                               *)

Opt(key, x) == IF x = None THEN Nothing ELSE key :> Str(x)

\* encode_query.
EncodeQuery(m) ==
    LET own == CASE m.query = "find_node" -> Opt("target", m.target)
                 [] m.query = "get_peers" -> Opt("info_hash", m.infohash)
                 [] m.query = "announce_peer" ->
                        Opt("info_hash", m.infohash) @@ Opt("token", m.token)
                            @@ (IF m.implied THEN "implied_port" :> Num(1)
                                ELSE "port" :> Num(m.port))
                 [] OTHER -> Nothing
        want == IF m.want = {} THEN Nothing ELSE "want" :> ListOf(SetToSeq(m.want))
    IN "q" :> Str(m.query) @@ "a" :> Dict(Opt("id", m.id) @@ own @@ want)

\* encode_compact_nodes: nodes with an IPv6 address are skipped.
CompactNodes(nodes) == SelectSeq(nodes, LAMBDA n : n.addr \in IPv4)

\* encode_response.
EncodeResponse(m) ==
    LET nodes == IF m.nodes = <<>> THEN Nothing ELSE "nodes" :> Str(CompactNodes(m.nodes))
        values == IF m.values = <<>> THEN Nothing
                  ELSE "values" :> ListOf(SelectSeq(m.values, LAMBDA a : a \in IPv4))
    IN "r" :> Dict(Opt("id", m.id) @@ Opt("token", m.token) @@ nodes @@ values)

\* wingo_dht_msg_encode, with encode_error: a query of no known kind is not sent.
Encode(m) ==
    "y" :> Str(m.type) @@ Opt("t", m.tid) @@
    (CASE m.type = "q" -> EncodeQuery(m)
       [] m.type = "r" -> EncodeResponse(m)
       [] OTHER -> "e" :> ListOf(<<m.code>>))

-----------------------------------------------------------------------------
(* Decoding.                                                               *)

\* wingo_bencode_dict_get_string, of a string that fits: None is "left as it was".
GetString(d, key, Fits) ==
    IF key \notin DOMAIN d THEN None
    ELSE IF "str" \notin DOMAIN d[key] THEN None
    ELSE IF d[key].str \in Fits THEN d[key].str ELSE None

\* wingo_bencode_dict_get_integer.
GetInteger(d, key, otherwise) ==
    IF key \notin DOMAIN d THEN otherwise
    ELSE IF "int" \in DOMAIN d[key] THEN d[key].int ELSE otherwise

HasDict(d, key) == key \in DOMAIN d /\ "dict" \in DOMAIN d[key]
HasList(d, key) == key \in DOMAIN d /\ "list" \in DOMAIN d[key]
HasStr(d, key) == key \in DOMAIN d /\ "str" \in DOMAIN d[key]

FirstOf(s, n) == SubSeq(s, 1, IF Len(s) < n THEN Len(s) ELSE n)

\* decode_query: the arguments its kind has; "want" is not read.
DecodeQuery(m, d) ==
    LET kind == IF d["q"].str \in Queries THEN d["q"].str ELSE "UNKNOWN"
        a == d["a"].dict
        named == [m EXCEPT !.query = kind, !.id = GetString(a, "id", Ids)]
    IN CASE kind = "find_node" -> [named EXCEPT !.target = GetString(a, "target", Ids)]
         [] kind = "get_peers" -> [named EXCEPT !.infohash = GetString(a, "info_hash", Ids)]
         [] kind = "announce_peer" ->
                [named EXCEPT !.infohash = GetString(a, "info_hash", Ids),
                              !.token = GetString(a, "token", Tokens),
                              !.port = GetInteger(a, "port", 0) % PortMod,
                              !.implied = GetInteger(a, "implied_port", 0) # 0]
         [] OTHER -> named

\* decode_response, with decode_compact_nodes: as many nodes and values as fit.
DecodeResponse(m, d) ==
    LET r == d["r"].dict IN
    [m EXCEPT !.id = GetString(r, "id", Ids),
              !.token = GetString(r, "token", Tokens),
              !.nodes = IF HasStr(r, "nodes") THEN FirstOf(r["nodes"].str, MaxNodes) ELSE <<>>,
              !.values = IF HasList(r, "values") THEN FirstOf(r["values"].list, MaxValues)
                         ELSE <<>>]

\* decode_error.
DecodeError(m, d) == [m EXCEPT !.code = IF d["e"].list = <<>> THEN 0 ELSE Head(d["e"].list)]

\* wingo_dht_msg_decode: None is NULL, the datagram ignored.
Decode(d) ==
    LET m(type) == [NewMsg(type) EXCEPT !.tid = GetString(d, "t", Tids)]
        is(type) == HasStr(d, "y") /\ d["y"].str = type
    IN CASE is("q") /\ HasStr(d, "q") /\ HasDict(d, "a") -> DecodeQuery(m("q"), d)
         [] is("r") /\ HasDict(d, "r") -> DecodeResponse(m("r"), d)
         [] is("e") /\ HasList(d, "e") -> DecodeError(m("e"), d)
         [] OTHER -> None

-----------------------------------------------------------------------------
(* The exchange.                                                           *)

Init == query = None /\ heard = None /\ genuine = FALSE /\ reply = None /\ answer = None

\* The asker builds a query; after a reply with a token it may announce.
Ask(m) ==
    /\ query' = m /\ heard' = None /\ genuine' = FALSE /\ reply' = None /\ answer' = None

AskAny ==
    /\ query = None
    /\ \E id, x \in Ids, tid \in Tids \cup {LongTid}, want \in {{}, {"n4", "n6"}} :
        \/ Ask(BuildPing(id, tid))
        \/ Ask(BuildFindNode(id, tid, x, want))
        \/ Ask(BuildGetPeers(id, tid, x, want))

Announce ==
    /\ answer # None
    /\ answer.token # None /\ query.query = "get_peers"
    /\ \E tid \in Tids, port \in 1..PortMod - 1, implied \in BOOLEAN :
        Ask([BuildAnnouncePeer(query.id, tid, query.infohash, port, answer.token)
                EXCEPT !.implied = implied])

\* The query arrives, or a stranger's datagram does.
Hear ==
    /\ query # None /\ heard = None
    /\ heard' = Decode(Encode(query)) /\ genuine' = TRUE
    /\ UNCHANGED <<query, reply, answer>>
HearForged(d) ==
    /\ heard = None
    /\ heard' = Decode(d) /\ genuine' = FALSE
    /\ UNCHANGED <<query, reply, answer>>

\* The answerer builds its reply, with the transaction id it read.
Reply ==
    /\ heard # None /\ heard.type = "q" /\ reply = None
    /\ reply' \in {BuildNodes(id, heard.tid) : id \in Ids}
                   \cup {BuildPeers(id, heard.tid, t) : id \in Ids, t \in Tokens}
                   \cup {BuildError(heard.tid, c) : c \in {201, 203}}
    /\ UNCHANGED <<query, heard, genuine, answer>>

\* wingo_dht_msg_add_node, wingo_dht_msg_add_value: refused when the array is full.
Growing == /\ reply # None /\ answer = None
           /\ reply.type = "r" /\ Len(reply.nodes) + Len(reply.values) < MaxAdded
AddNode(addr) ==
    /\ Growing /\ Len(reply.nodes) < MaxNodes
    /\ reply' = [reply EXCEPT !.nodes = Append(@, [id |-> reply.id, addr |-> addr])]
    /\ UNCHANGED <<query, heard, genuine, answer>>
AddValue(addr) ==
    /\ Growing /\ Len(reply.values) < MaxValues
    /\ reply' = [reply EXCEPT !.values = Append(@, addr)]
    /\ UNCHANGED <<query, heard, genuine, answer>>

\* The reply arrives.
HearReply ==
    /\ query # None /\ reply # None /\ answer = None
    /\ answer' = Decode(Encode(reply))
    /\ UNCHANGED <<query, heard, genuine, reply>>

Next ==
    \/ AskAny \/ Announce \/ Hear \/ Reply \/ HearReply
    \/ \E d \in Forged : HearForged(d)
    \/ \E a \in IPv4 \cup IPv6 : AddNode(a) \/ AddValue(a)

Spec == Init /\ [][Next]_vars

-----------------------------------------------------------------------------
(* Properties.                                                             *)

IsMsg(m) ==
    /\ m.type \in {"q", "r", "e"} /\ m.query \in Queries \cup {"UNKNOWN"}
    /\ m.tid \in Tids \cup {None} /\ {m.id, m.target, m.infohash} \subseteq Ids \cup {None}
    /\ m.token \in Tokens \cup {None} /\ m.port \in 0..PortMod - 1
    /\ Len(m.nodes) <= MaxNodes /\ Len(m.values) <= MaxValues

\* Types (dht_message.c:95-132): also of what strangers' datagrams become.
TypeOK == \A m \in {query, heard, reply, answer} : m = None \/ IsMsg(m)

\* A query arrives as it was built, whatever its kind; only "want" is lost, and the
\* port when it is implied (dht_message.c: encode_query, decode_query).
QueryUnderstood ==
    heard # None /\ genuine =>
        heard = [query EXCEPT !.want = {}, !.port = IF query.implied THEN 0 ELSE @]

\* Across both datagrams the asker gets back the transaction id it sent, with the
\* token and every node and peer that has an IPv4 address, in order.
AnswerReachesAsker ==
    answer # None =>
        /\ answer.token = reply.token /\ answer.type = reply.type /\ answer.code = reply.code
        /\ answer.nodes = CompactNodes(reply.nodes)
        /\ answer.values = SelectSeq(reply.values, LAMBDA a : a \in IPv4)
        /\ genuine => answer.tid = query.tid

\* A datagram of any origin yields only the arguments its kind of query has, so what
\* is built from it and sent on is read in the same way by the next node.
NothingInvented ==
    heard # None =>
        /\ heard.target # None => heard.query = "find_node"
        /\ heard.infohash # None => heard.query \in {"get_peers", "announce_peer"}
        /\ heard.type = "q" /\ heard.query # "UNKNOWN" => Decode(Encode(heard)) =
                [heard EXCEPT !.port = IF heard.implied THEN 0 ELSE @]
=============================================================================
