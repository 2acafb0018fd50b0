------------------------------ MODULE Bencode ------------------------------
(***************************************************************************)
(* Bencoding (dht_bencode.c): values built by calls, encoded and decoded.  *)
(* The decoder reads what any host sent, so it is modelled byte by byte;   *)
(* the alphabet has the bytes its branches tell apart and two digits.      *)
(*                                                                         *)
(* A value is [int |-> n], [str |-> s], [list |-> vs] or [dict |-> es],    *)
(* es a sequence of entries [key, val] in the order of the array.          *)
(* Allocation failures are left out: they make any of it return NULL.      *)
(***************************************************************************)
EXTENDS Integers, SequencesExt

CONSTANTS
    Chunks,      \* what arrives at a time: non-empty strings of bytes
    MaxChunks,   \* bound: chunks of an input
    Starts,      \* bound: the first bytes an input may have
    Ints,        \* integers a caller builds
    Strs,        \* strings a caller builds, as keys too
    MaxNodes,    \* bound: values alive in what a caller builds
    MaxInt,      \* INT64_MAX
    MaxString,   \* BENCODE_MAX_STRING_LEN
    MaxDigits,   \* BENCODE_MAX_INT_DIGITS
    MaxDepth     \* BENCODE_MAX_DEPTH

\* The bytes, in their order.
Alphabet == <<"-", "0", "1", ":", "d", "e", "i", "l">>
Code == [c \in ToSet(Alphabet) |-> CHOOSE i \in 1..8 : Alphabet[i] = c]
IsDigit(c) == c \in {"0", "1"}
Digit(c) == Code[c] - 2

BencodeAssumption ==
    /\ Chunks \cup Strs \subseteq Seq(ToSet(Alphabet))
    /\ Starts \subseteq Chunks
    /\ {MaxInt, MaxString, MaxDigits, MaxDepth, MaxChunks, MaxNodes} \subseteq Nat
    /\ \A n \in Ints : -MaxInt - 1 <= n /\ n <= MaxInt

VARIABLES
    stack,    \* values the caller owns, the latest first
    input,    \* bytes received so far
    chunks    \* how many chunks they came in

vars == <<stack, input, chunks>>

-----------------------------------------------------------------------------
(* Decoding.  A decoder returns Bad, or the value and the position after.  *)

Bad == [ok |-> FALSE]
Good(v, pos) == [ok |-> TRUE, val |-> v, pos |-> pos]

At(data, pos, c) == pos <= Len(data) /\ data[pos] = c

\* The digits of data from pos on: their end, and their number; -1 if they are more
\* than MaxDigits, or if the number would pass the limit.
DigitsEnd(data, pos) ==
    LET stops == {i \in pos..Len(data) : ~IsDigit(data[i])} IN
    IF stops = {} THEN Len(data) + 1 ELSE CHOOSE i \in stops : \A j \in stops : i <= j

RECURSIVE Number(_, _, _)
Number_Bug(data, pos, end) ==
    IF end = pos THEN 0
    ELSE LET r == Number(data, pos, end - 1)
             d == Digit(data[end - 1]) IN
         IF r < 0 \/ end - pos > MaxDigits \/ r >= (MaxInt - d) \div 10 THEN -1
         ELSE r * 10 + d
Number(data, pos, end) ==
    IF end = pos THEN 0
    ELSE LET r == Number(data, pos, end - 1)
             d == Digit(data[end - 1]) IN
         IF r < 0 \/ end - pos > MaxDigits \/ r > (MaxInt - d) \div 10 THEN -1
         ELSE r * 10 + d

\* bencode_decode_integer: the check of leading zeros looks at the byte after `i',
\* so it sees the sign and not the zero of -01.
DecodeInteger(data, pos) ==
    LET start == pos + 1
        negative == At(data, start, "-")
        first == IF negative THEN start + 1 ELSE start
        end == DigitsEnd(data, first)
        n == Number(data, first, end)
    IN
    IF \/ end <= first \/ n < 0 \/ ~At(data, end, "e")
       \/ end - first > 1 /\ data[start] = "0"
       \/ negative /\ n = 0
    THEN Bad
    ELSE Good([int |-> IF negative THEN -n ELSE n], end + 1)

\* bencode_decode_string: a length, with leading zeros or not, and that many bytes.
DecodeString(data, pos) ==
    LET end == DigitsEnd(data, pos)
        n == Number(data, pos, end)
    IN
    IF \/ end = pos \/ n < 0 \/ n > MaxString \/ ~At(data, end, ":")
       \/ n > Len(data) - end
    THEN Bad
    ELSE Good([str |-> SubSeq(data, end + 1, end + n)], end + n + 1)

\* bencode_decode_internal, with the loops of bencode_decode_list and
\* bencode_decode_dict: `got' is what they have collected.
RECURSIVE Decode(_, _, _), Items(_, _, _, _), Entries(_, _, _, _)
Items(data, pos, depth, got) ==
    IF pos > Len(data) THEN Bad
    ELSE IF data[pos] = "e" THEN Good([list |-> got], pos + 1)
    ELSE LET item == Decode(data, pos, depth + 1) IN
         IF item.ok THEN Items(data, item.pos, depth, Append(got, item.val)) ELSE Bad
Entries(data, pos, depth, got) ==
    IF pos > Len(data) THEN Bad
    ELSE IF data[pos] = "e" THEN Good([dict |-> got], pos + 1)
    ELSE LET key == Decode(data, pos, depth + 1) IN
         IF ~key.ok \/ (key.ok /\ "str" \notin DOMAIN key.val) THEN Bad
         ELSE LET item == Decode(data, key.pos, depth + 1) IN
              IF item.ok
              THEN Entries(data, item.pos, depth,
                           Append(got, [key |-> key.val.str, val |-> item.val]))
              ELSE Bad
Decode(data, pos, depth) ==
    IF depth > MaxDepth \/ pos > Len(data) THEN Bad
    ELSE CASE data[pos] = "i" -> DecodeInteger(data, pos)
           [] data[pos] = "l" -> Items(data, pos + 1, depth, <<>>)
           [] data[pos] = "d" -> Entries(data, pos + 1, depth, <<>>)
           [] IsDigit(data[pos]) -> DecodeString(data, pos)
           [] OTHER -> Bad

\* wingo_bencode_decode_at, and wingo_bencode_decode, which wants all the input used.
DecodeAt(data) == Decode(data, 1, 0)
DecodeAll(data) ==
    LET d == DecodeAt(data) IN IF d.ok /\ d.pos = Len(data) + 1 THEN d ELSE Bad

-----------------------------------------------------------------------------
(* Encoding.                                                               *)

\* The decimal digits of a natural number.
RECURSIVE Decimal(_)
Decimal(n) ==
    IF n < 10 THEN <<Alphabet[n + 2]>> ELSE Decimal(n \div 10) \o <<Alphabet[(n % 10) + 2]>>

EncodeInteger(n) ==
    <<"i">> \o (IF n < 0 THEN <<"-">> \o Decimal(-n) ELSE Decimal(n)) \o <<"e">>

EncodeString(s) == Decimal(Len(s)) \o <<":">> \o s

\* bencode_dict_entry_cmp, as an order of keys.
KeyBefore(s, t) ==
    LET differ == {i \in DOMAIN s \cap DOMAIN t : s[i] # t[i]} IN
    IF differ = {} THEN Len(s) < Len(t)
    ELSE LET i == CHOOSE i \in differ : \A j \in differ : i <= j IN Code[s[i]] < Code[t[i]]
SortedEntries(es) == SortSeq(es, LAMBDA x, y : KeyBefore(x.key, y.key))

\* bencode_encode_internal, with bencode_encode_list and bencode_encode_dict.
RECURSIVE Encode(_)
Encode(v) ==
    CASE "int" \in DOMAIN v -> EncodeInteger(v.int)
      [] "str" \in DOMAIN v -> EncodeString(v.str)
      [] "list" \in DOMAIN v ->
            <<"l">> \o FlattenSeq([i \in DOMAIN v.list |-> Encode(v.list[i])]) \o <<"e">>
      [] OTHER ->
            LET es == SortedEntries(v.dict) IN
            <<"d">> \o FlattenSeq([i \in DOMAIN es |->
                                     EncodeString(es[i].key) \o Encode(es[i].val)]) \o <<"e">>

\* The deepest nesting of a value, which the encoder holds against MaxDepth.
RECURSIVE Depth(_)
Depth(v) ==
    LET below == CASE "list" \in DOMAIN v -> {Depth(v.list[i]) : i \in DOMAIN v.list}
                   [] "dict" \in DOMAIN v -> {Depth(v.dict[i].val) : i \in DOMAIN v.dict}
                   [] OTHER -> {}
    IN IF below = {} THEN 0 ELSE 1 + Max(below)
Encodable(v) == Depth(v) <= MaxDepth

-----------------------------------------------------------------------------
(* Values.                                                                 *)

\* bencode_dict_find: the first entry with the key, as a set of at most one position.
Find(es, key) ==
    LET at == {i \in DOMAIN es : es[i].key = key} IN
    IF at = {} THEN {} ELSE {CHOOSE i \in at : \A j \in at : i <= j}
DictGet(es, key) == {es[i].val : i \in Find(es, key)}

\* wingo_bencode_dict_set: replaces the value of the first entry with the key.
DictSet(es, key, v) ==
    IF Find(es, key) = {} THEN Append(es, [key |-> key, val |-> v])
    ELSE [i \in DOMAIN es |-> IF i \in Find(es, key) THEN [es[i] EXCEPT !.val = v] ELSE es[i]]

\* wingo_bencode_dup: the copy of a dictionary is built by wingo_bencode_dict_set.
RECURSIVE Dup(_)
Dup(v) ==
    CASE "list" \in DOMAIN v -> [list |-> [i \in DOMAIN v.list |-> Dup(v.list[i])]]
      [] "dict" \in DOMAIN v ->
            [dict |-> FoldLeft(LAMBDA es, e : DictSet(es, e.key, Dup(e.val)), <<>>, v.dict)]
      [] OTHER -> v

\* wingo_bencode_eq: of dictionaries, by the keys of the first one.
RECURSIVE Eq(_, _)
Eq(v, w) ==
    /\ DOMAIN v = DOMAIN w
    /\ CASE "list" \in DOMAIN v ->
              /\ Len(v.list) = Len(w.list)
              /\ \A i \in DOMAIN v.list : Eq(v.list[i], w.list[i])
         [] "dict" \in DOMAIN v ->
              /\ Len(v.dict) = Len(w.dict)
              /\ \A i \in DOMAIN v.dict :
                    \A x \in DictGet(v.dict, v.dict[i].key) :
                        \E y \in DictGet(w.dict, v.dict[i].key) : Eq(x, y)
         [] OTHER -> v = w

\* The number of values in a value, itself included.
RECURSIVE Size(_)
Size(v) ==
    CASE "list" \in DOMAIN v -> FoldLeft(LAMBDA n, x : n + Size(x), 1, v.list)
      [] "dict" \in DOMAIN v -> FoldLeft(LAMBDA n, e : n + Size(e.val), 1, v.dict)
      [] OTHER -> 1

-----------------------------------------------------------------------------
(* The calls.                                                              *)

Init == stack = <<>> /\ input = <<>> /\ chunks = 0

Alive == FoldLeft(LAMBDA n, v : n + Size(v), 0, stack)

\* wingo_bencode_new_integer, _new_string, _new_list, _new_dict.
NewValue(v) ==
    /\ input = <<>> /\ Alive < MaxNodes
    /\ stack' = <<v>> \o stack
    /\ UNCHANGED <<input, chunks>>

\* wingo_bencode_list_append: the list below takes the value on top.
ListAppend ==
    /\ Len(stack) >= 2 /\ "list" \in DOMAIN stack[2]
    /\ stack' = <<[list |-> Append(stack[2].list, stack[1])]>> \o SubSeq(stack, 3, Len(stack))
    /\ UNCHANGED <<input, chunks>>

\* wingo_bencode_dict_set, _set_integer, _set_string.
SetInDict(key) ==
    /\ Len(stack) >= 2 /\ "dict" \in DOMAIN stack[2]
    /\ stack' = <<[dict |-> DictSet(stack[2].dict, key, stack[1])]>>
                    \o SubSeq(stack, 3, Len(stack))
    /\ UNCHANGED <<input, chunks>>

\* wingo_bencode_free of the value on top, with all it owns.
FreeTop ==
    /\ stack # <<>>
    /\ stack' = Tail(stack)
    /\ UNCHANGED <<input, chunks>>

\* Bytes arrive.
Receive(c) ==
    /\ stack = <<>> /\ chunks < MaxChunks
    /\ input = <<>> => c \in Starts
    /\ input' = input \o c /\ chunks' = chunks + 1
    /\ UNCHANGED stack

Next ==
    \/ \E n \in Ints : NewValue([int |-> n])
    \/ \E s \in Strs : NewValue([str |-> s]) \/ SetInDict(s)
    \/ NewValue([list |-> <<>>]) \/ NewValue([dict |-> <<>>])
    \/ ListAppend \/ FreeTop
    \/ \E c \in Chunks : Receive(c)

Spec == Init /\ [][Next]_vars

-----------------------------------------------------------------------------
(* Properties.                                                             *)

\* No dictionary in a value has a key twice; the smallest integer is in none.
RECURSIVE Plain(_)
Plain(v) ==
    CASE "int" \in DOMAIN v -> v.int # -MaxInt - 1
      [] "list" \in DOMAIN v -> \A i \in DOMAIN v.list : Plain(v.list[i])
      [] "dict" \in DOMAIN v ->
            \A i, j \in DOMAIN v.dict :
                Plain(v.dict[i].val) /\ (v.dict[i].key = v.dict[j].key => i = j)
      [] OTHER -> TRUE

\* Types (dht_bencode.c:64-94).
TypeOK ==
    /\ input \in Seq(ToSet(Alphabet)) /\ chunks \in 0..MaxChunks
    /\ \A i \in DOMAIN stack : DOMAIN stack[i] \in {{"int"}, {"str"}, {"list"}, {"dict"}}

\* What is built and encoded is decoded to an equal value by the receiver, whatever
\* its nesting and the order of its keys; a copy is equal too.  INT64_MIN is the one
\* integer that is encoded and not accepted back.
RoundTrip ==
    \A i \in DOMAIN stack :
        LET v == stack[i]
            d == DecodeAll(Encode(v))
        IN /\ Encodable(v) /\ Plain(v) => d.ok /\ Eq(v, d.val) /\ Eq(d.val, v)
           /\ Eq(v, Dup(v)) /\ Dup(v) = v

\* What is accepted from the wire can be sent on: it encodes to no more bytes than it
\* came in, and to the same bytes again when the result is decoded.
Reencodes ==
    LET d == DecodeAll(input) IN
    d.ok => LET again == DecodeAll(Encode(d.val)) IN
            /\ Len(Encode(d.val)) <= Len(input)
            /\ again.ok /\ (Plain(d.val) => Eq(again.val, d.val))
            /\ Encode(again.val) = Encode(d.val)

\* Values end by themselves: once the bytes hold one, no byte that follows changes
\* its extent or its contents (wingo_bencode_decode_at).
SelfDelimiting ==
    [][(input # <<>> /\ DecodeAt(input).ok) => DecodeAt(input') = DecodeAt(input)]_vars
=============================================================================
