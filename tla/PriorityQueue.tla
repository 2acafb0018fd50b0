--------------------------- MODULE PriorityQueue ----------------------------
(***************************************************************************)
(* The binary heap of core/src/util/queue.c, wingo_pqueue_t: an array      *)
(* that grows by doubling, ordered by a comparison function.               *)
(***************************************************************************)
EXTENDS Integers, Sequences, FiniteSets

CONSTANTS
    Items,          \* numbers, compared as such
    StartCapacity,  \* asked of wingo_pqueue_new
    MaxCapacity     \* PQUEUE_MAX_CAPACITY, 2^30 in the code

HeapAssumption ==
    Items \subseteq Int /\ StartCapacity \in Nat \ {0} /\ MaxCapacity \in Nat

VARIABLES
    items, capacity,
    popped              \* what the last pop returned, a sequence of one, or of none

vars == <<items, capacity, popped>>

\* Index 0 of the code is position 1 of the sequence items.
TypeOK ==
    /\ items \in Seq(Items) /\ Len(items) <= capacity
    /\ capacity \in StartCapacity..(2 * MaxCapacity)
    /\ popped \in {<<>>} \cup {<<d>> : d \in Items}

Init == items = <<>> /\ capacity = StartCapacity /\ popped = <<>>

Parent(i) == i \div 2
Left(i) == 2 * i
Right(i) == 2 * i + 1
Swap(s, i, j) == [s EXCEPT ![i] = s[j], ![j] = s[i]]

RECURSIVE SiftUp(_, _)
SiftUp(s, i) ==
    IF i = 1 \/ s[Parent(i)] <= s[i] THEN s
    ELSE SiftUp(Swap(s, i, Parent(i)), Parent(i))

\* The smallest of i and its children
Smallest(s, i) ==
    LET l == IF Left(i) <= Len(s) /\ s[Left(i)] < s[i] THEN Left(i) ELSE i
    IN IF Right(i) <= Len(s) /\ s[Right(i)] < s[l] THEN Right(i) ELSE l

RECURSIVE SiftDown(_, _)
SiftDown(s, i) ==
    IF Smallest(s, i) = i THEN s
    ELSE SiftDown(Swap(s, i, Smallest(s, i)), Smallest(s, i))

\* pqueue_grow, when the array is full
Full == Len(items) >= capacity
MayGrow == 2 * capacity <= MaxCapacity

Push(d) ==
    /\ Full => MayGrow
    /\ capacity' = IF Full THEN 2 * capacity ELSE capacity
    /\ items' = SiftUp(Append(items, d), Len(items) + 1)
    /\ popped' = <<>>

PushRefused ==
    /\ Full /\ ~MayGrow
    /\ popped' = <<>>
    /\ UNCHANGED <<items, capacity>>

\* The last element takes the place of the first and sinks.
Pop ==
    /\ items # <<>>
    /\ LET rest == SubSeq(items, 1, Len(items) - 1) IN
       items' = IF rest = <<>> THEN rest
                ELSE SiftDown([rest EXCEPT ![1] = items[Len(items)]], 1)
    /\ popped' = <<Head(items)>>
    /\ UNCHANGED capacity

Clear ==
    /\ items' = <<>> /\ popped' = <<>>
    /\ UNCHANGED capacity

Next == (\E d \in Items : Push(d)) \/ PushRefused \/ Pop \/ Clear

Spec == Init /\ [][Next]_vars

-----------------------------------------------------------------------------
Held(s) == [d \in Items |-> Cardinality({i \in DOMAIN s : s[i] = d})]

\* A pop takes one of the smallest elements and loses none; a push loses none
\* either, however often the array grew.
PopsSmallest ==
    [][ \/ /\ popped' # <<>>
           /\ \A i \in DOMAIN items : popped'[1] <= items[i]
           /\ Held(items) = [Held(items') EXCEPT ![popped'[1]] = @ + 1]
        \/ items' = <<>>
        \/ \E d \in Items : Held(items') = [Held(items) EXCEPT ![d] = @ + 1]
        \/ UNCHANGED items ]_vars
=============================================================================
