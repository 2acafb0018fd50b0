---------------------------- MODULE LinkedLists -----------------------------
(***************************************************************************)
(* The two lists of core/src/util/list.c as cells and pointers: the singly *)
(* linked wingo_slist_t, which has no prev, and the doubly linked          *)
(* wingo_list_t.  A call is one step; Kind says which of the two is used.  *)
(***************************************************************************)
EXTENDS Integers, Sequences, SequencesExt, FiniteSetsExt

CONSTANTS
    Data,       \* what callers store
    Key,        \* what cmp compares, a number for each of Data
    Cells       \* nodes, 1, 2, ...: a bound on the length of the list

ListAssumption == Cells \subseteq Nat \ {0} /\ Key \in [Data -> Int] /\ "free" \notin Data

VARIABLES
    kind,               \* "slist" or "list"
    head, tail, count,
    next, prev, data    \* of the cells; 0 is the null pointer

vars == <<kind, head, tail, count, next, prev, data>>

Pointers == Cells \cup {0}

TypeOK ==
    /\ kind \in {"slist", "list"}
    /\ head \in Pointers /\ tail \in Pointers /\ count \in 0..Cardinality(Cells)
    /\ next \in [Cells -> Pointers] /\ prev \in [Cells -> Pointers]
    /\ data \in [Cells -> Data \cup {"free"}]

\* wingo_slist_new, wingo_list_new
Init ==
    /\ kind \in {"slist", "list"}
    /\ head = 0 /\ tail = 0 /\ count = 0
    /\ next = [c \in Cells |-> 0] /\ prev = [c \in Cells |-> 0]
    /\ data = [c \in Cells |-> "free"]

-----------------------------------------------------------------------------
\* The cells met from c along a field, at most one more than there are.
RECURSIVE Walk(_, _, _)
Walk(c, field, n) == IF c = 0 \/ n = 0 THEN <<>> ELSE <<c>> \o Walk(field[c], field, n - 1)

Forward == Walk(head, next, Cardinality(Cells) + 1)
Backward == Walk(tail, prev, Cardinality(Cells) + 1)

\* list_node_at starts from the nearer end.
NodeAt(pos) ==
    IF kind = "list" /\ pos > count \div 2 THEN Backward[count - pos] ELSE Forward[pos + 1]

Free == {c \in Cells : data[c] = "free"}
Fresh == Min(Free)      \* what calloc returns

DropPrev(f) == IF kind = "list" THEN f ELSE [c \in Cells |-> 0]

LinkLast(d) ==
    LET n == Fresh IN
    /\ data' = [data EXCEPT ![n] = d]
    /\ next' = [c \in Cells |-> IF c = n THEN 0 ELSE IF c = tail THEN n ELSE next[c]]
    /\ prev' = DropPrev([prev EXCEPT ![n] = tail])
    /\ head' = IF tail = 0 THEN n ELSE head
    /\ tail' = n /\ count' = count + 1

LinkFirst(d) ==
    LET n == Fresh IN
    /\ data' = [data EXCEPT ![n] = d]
    /\ next' = [next EXCEPT ![n] = head]
    /\ prev' = DropPrev([c \in Cells |-> IF c = n THEN 0 ELSE IF c = head THEN n ELSE prev[c]])
    /\ tail' = IF tail = 0 THEN n ELSE tail
    /\ head' = n /\ count' = count + 1

AppendItem == Free # {} /\ kind' = kind /\ \E d \in Data : LinkLast(d)
PrependItem == Free # {} /\ kind' = kind /\ \E d \in Data : LinkFirst(d)

\* wingo_slist_insert: behind the node before pos; a position past the end appends.
SInsert(pos, d) ==
    /\ kind = "slist" /\ Free # {} /\ kind' = kind
    /\ IF pos = 0 THEN LinkFirst(d)
       ELSE IF pos >= count THEN LinkLast(d)
       ELSE LET p == NodeAt(pos - 1)
                n == Fresh
            IN /\ data' = [data EXCEPT ![n] = d]
               /\ next' = [next EXCEPT ![n] = next[p], ![p] = n]
               /\ count' = count + 1
               /\ UNCHANGED <<head, tail, prev>>

InsertBefore(node, d) ==
    /\ kind = "list" /\ Free # {} /\ kind' = kind
    /\ IF node = head THEN LinkFirst(d)
       ELSE LET n == Fresh IN
            /\ data' = [data EXCEPT ![n] = d]
            /\ next' = [next EXCEPT ![n] = node, ![prev[node]] = n]
            /\ prev' = [prev EXCEPT ![n] = prev[node], ![node] = n]
            /\ count' = count + 1
            /\ UNCHANGED <<head, tail>>

InsertAfter(node, d) ==
    /\ kind = "list" /\ Free # {} /\ kind' = kind
    /\ IF node = tail THEN LinkLast(d)
       ELSE LET n == Fresh IN
            /\ data' = [data EXCEPT ![n] = d]
            /\ next' = [next EXCEPT ![n] = next[node], ![node] = n]
            /\ prev' = [prev EXCEPT ![n] = node, ![next[node]] = n]
            /\ count' = count + 1
            /\ UNCHANGED <<head, tail>>

-----------------------------------------------------------------------------
Release(cs) ==
    /\ data' = [c \in Cells |-> IF c \in cs THEN "free" ELSE data[c]]
    /\ count' = count - Cardinality(cs)

\* Unlinks one cell.  The slist is left with p, the cell before it, as its tail.
SUnlink_Bug(n, p) ==
    /\ head' = IF p = 0 THEN next[n] ELSE head
    /\ next' = [c \in Cells |-> IF c = n THEN 0 ELSE IF c = p THEN next[n] ELSE next[c]]
    /\ UNCHANGED <<tail, prev>>
    /\ Release({n})

SUnlink(n, p) ==
    /\ head' = IF p = 0 THEN next[n] ELSE head
    /\ tail' = IF n = tail THEN p ELSE tail
    /\ next' = [c \in Cells |-> IF c = n THEN 0 ELSE IF c = p THEN next[n] ELSE next[c]]
    /\ UNCHANGED prev
    /\ Release({n})

\* wingo_list_remove_node
RemoveNode(n) ==
    /\ head' = IF prev[n] = 0 THEN next[n] ELSE head
    /\ tail' = IF next[n] = 0 THEN prev[n] ELSE tail
    /\ next' = [c \in Cells |-> IF c = n THEN 0 ELSE IF c = prev[n] THEN next[n] ELSE next[c]]
    /\ prev' = [c \in Cells |-> IF c = n THEN 0 ELSE IF c = next[n] THEN prev[n] ELSE prev[c]]
    /\ Release({n})

\* wingo_slist_remove, wingo_list_remove
RemovePos(pos) ==
    /\ pos < count /\ kind' = kind
    /\ IF kind = "list" THEN RemoveNode(NodeAt(pos))
       ELSE SUnlink(NodeAt(pos), IF pos = 0 THEN 0 ELSE NodeAt(pos - 1))

\* The first cell whose data has the key, for _find, _find_node and _remove_data.
Matching(k) == SelectSeq(Forward, LAMBDA c : Key[data[c]] = k)

RemoveData(k) ==
    /\ Matching(k) # <<>> /\ kind' = kind
    /\ LET n == Head(Matching(k))
           before == {i \in DOMAIN Forward : Forward[i] = n}
           i == Min(before)
       IN IF kind = "list" THEN RemoveNode(n)
          ELSE SUnlink(n, IF i = 1 THEN 0 ELSE Forward[i - 1])

\* The cells of s linked in this order, and no others.
Relink(s) ==
    /\ head' = IF s = <<>> THEN 0 ELSE s[1]
    /\ tail' = IF s = <<>> THEN 0 ELSE s[Len(s)]
    /\ next' = [c \in Cells |-> IF \E i \in 1..(Len(s) - 1) : s[i] = c
                                THEN s[1 + (CHOOSE i \in DOMAIN s : s[i] = c)] ELSE 0]
    /\ prev' = DropPrev([c \in Cells |-> IF \E i \in 2..Len(s) : s[i] = c
                                THEN s[(CHOOSE i \in DOMAIN s : s[i] = c) - 1] ELSE 0])

\* wingo_slist_remove_all
RemoveAll(k) ==
    /\ kind = "slist" /\ Matching(k) # <<>> /\ kind' = kind
    /\ Relink(SelectSeq(Forward, LAMBDA c : Key[data[c]] # k))
    /\ Release(Range(Matching(k)))

Clear ==
    /\ kind' = kind
    /\ Relink(<<>>)
    /\ Release(Range(Forward))

-----------------------------------------------------------------------------
(* Sorting: a list is cut in the middle, halves are sorted and merged.     *)

\* slist_merge: of two cells that compare equal, that of a comes first.
RECURSIVE Merge(_, _)
Merge(a, b) ==
    IF a = <<>> THEN b ELSE IF b = <<>> THEN a
    ELSE IF Key[data[Head(a)]] <= Key[data[Head(b)]]
         THEN <<Head(a)>> \o Merge(Tail(a), b)
         ELSE <<Head(b)>> \o Merge(a, Tail(b))

\* slist_split: slow stops in the middle when fast runs off the end.
Middle(s) == Len(s) \div 2

RECURSIVE MergeSort(_)
MergeSort(s) ==
    IF Len(s) < 2 THEN s
    ELSE Merge(MergeSort(SubSeq(s, 1, Middle(s))), MergeSort(SubSeq(s, Middle(s) + 1, Len(s))))

Sort ==
    /\ count >= 2
    /\ Relink(MergeSort(Forward))
    /\ UNCHANGED <<kind, count, data>>

\* wingo_list_reverse swaps the two pointers of every cell.
ReverseList ==
    /\ kind = "list" /\ count >= 2
    /\ head' = tail /\ tail' = head
    /\ next' = [c \in Cells |-> IF data[c] = "free" THEN 0 ELSE prev[c]]
    /\ prev' = [c \in Cells |-> IF data[c] = "free" THEN 0 ELSE next[c]]
    /\ UNCHANGED <<kind, count, data>>

Next ==
    \/ AppendItem \/ PrependItem
    \/ \E pos \in 0..count, d \in Data : SInsert(pos, d)
    \/ \E i \in 1..count, d \in Data : InsertBefore(Forward[i], d) \/ InsertAfter(Forward[i], d)
    \/ \E pos \in 0..count : RemovePos(pos)
    \/ \E k \in Range(Key) : RemoveData(k) \/ RemoveAll(k)
    \/ Clear \/ Sort \/ ReverseList

Spec == Init /\ [][Next]_vars

-----------------------------------------------------------------------------
\* The pointers of both lists agree with each other after any calls: both
\* directions meet the same cells, tail is the last one, count is their number,
\* and a cell that is not met was freed.
WellLinked ==
    /\ count = Len(Forward)
    /\ tail = IF Forward = <<>> THEN 0 ELSE Forward[Len(Forward)]
    /\ Range(Forward) = Cells \ Free
    /\ kind = "list" => Backward = Reverse(Forward)

Promise == INSTANCE ListPromise WITH items <- [i \in DOMAIN Forward |-> data[Forward[i]]]
\* Seen from outside, each call inserts, removes, sorts stably or reverses a
\* sequence, and does nothing else.
Implements == Promise!Spec
=============================================================================
