---------------------------- MODULE ListPromise -----------------------------
(***************************************************************************)
(* What a list promises: the sequence of its elements, under the calls of  *)
(* core/include/wingo/util/list.h.  Elements are compared by their key.    *)
(***************************************************************************)
EXTENDS Integers, Sequences, SequencesExt

CONSTANTS Data, Key     \* Key is a number for each of Data

VARIABLE items

\* A stable sort of s: a permutation p of its positions that orders the keys and
\* keeps the order of equal ones.
IsStablySorted(s, t) ==
    \E p \in [DOMAIN s -> DOMAIN s] :
        /\ t = [i \in DOMAIN s |-> s[p[i]]]
        /\ \A i, j \in DOMAIN s : i < j =>
              \/ Key[s[p[i]]] < Key[s[p[j]]]
              \/ Key[s[p[i]]] = Key[s[p[j]]] /\ p[i] < p[j]

Init == items = <<>>

Next ==
    \/ \E i \in 1..(Len(items) + 1), d \in Data : items' = InsertAt(items, i, d)
    \/ \E i \in DOMAIN items : items' = RemoveAt(items, i)
    \/ \E k \in {Key[d] : d \in Data} : items' = SelectSeq(items, LAMBDA d : Key[d] # k)
    \/ items' = <<>>
    \/ items' = Reverse(items)
    \/ Len(items') = Len(items) /\ IsStablySorted(items, items')

Spec == Init /\ [][Next]_items
=============================================================================
