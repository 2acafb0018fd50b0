-------------------------- MODULE DhtRoutingProofs --------------------------
(***************************************************************************)
(* Proofs about the routing table, for every width of the identifiers,     *)
(* every size of a bucket and every set of peers.                          *)
(*                                                                         *)
(* The argument is about ranges.  find_bucket takes the first bucket whose *)
(* range contains the identifier, so what has to be shown is that a split  *)
(* does not put a bucket in front of one that holds a node of its range.   *)
(* Tiled, that all below a bucket's first identifier is covered by earlier *)
(* buckets, is what makes it so even where a split is skewed.              *)
(***************************************************************************)
EXTENDS DhtRouting, ListLemmas, FiniteSetTheorems, TLAPS

Bucket == [first : Ids, nodes : SUBSET Peers]

\* What is below a bucket belongs to earlier buckets.
Tiled(bs) ==
    \A i \in DOMAIN bs : \A id \in Ids :
        id < bs[i].first => \E j \in 1..(i - 1) : InRange(bs, j, id)

\* Every node is in the bucket find_bucket returns for it.
Placed(bs) == \A i \in DOMAIN bs : \A p \in bs[i].nodes : Finds(bs, i, p)

\* Buckets without our own identifier m, and with at most K nodes each.
Sized(bs, m) ==
    \A i \in DOMAIN bs : m \notin bs[i].nodes /\ Cardinality(bs[i].nodes) <= K

Sound(bs, m) ==
    bs \in Seq(Bucket) /\ Len(bs) >= 1 /\ Tiled(bs) /\ Placed(bs) /\ Sized(bs, m)

\* cs has the ranges of bs.
SameRanges(bs, cs) ==
    /\ Len(cs) = Len(bs)
    /\ \A i \in DOMAIN bs : cs[i].first = bs[i].first

LEMMA IdsAreNaturals == Half \in Nat \ {0} /\ Ids \subseteq Nat /\ 0 \in Ids
<1>1. Half \in Nat \ {0}
  BY WeightsAssumption
<1> QED BY <1>1 DEF Ids

LEMMA BucketTypes ==
    ASSUME NEW bs \in Seq(Bucket), NEW i \in DOMAIN bs
    PROVE  /\ bs[i] \in Bucket /\ bs[i].first \in Ids /\ bs[i].first \in Nat
           /\ bs[i].nodes \subseteq Peers /\ IsFiniteSet(bs[i].nodes)
           /\ i \in 1..Len(bs) /\ Len(bs) \in Nat
<1>1. bs[i] \in Bucket /\ i \in 1..Len(bs) /\ Len(bs) \in Nat
  OBVIOUS
<1>2. bs[i].first \in Ids /\ bs[i].nodes \subseteq Peers
  BY <1>1 DEF Bucket
<1>3. IsFiniteSet(bs[i].nodes)
  BY <1>2, PeersAssumption, FS_Subset
<1> QED BY <1>1, <1>2, <1>3, IdsAreNaturals

\* Changing the nodes of buckets changes no range.
LEMMA RangesKept ==
    ASSUME NEW bs \in Seq(Bucket), NEW cs \in Seq(Bucket), SameRanges(bs, cs)
    PROVE  /\ \A i \in DOMAIN bs : \A id : InRange(cs, i, id) <=> InRange(bs, i, id)
           /\ \A i \in DOMAIN bs : \A id : Finds(cs, i, id) <=> Finds(bs, i, id)
           /\ Tiled(bs) => Tiled(cs)
<1>1. /\ Len(cs) = Len(bs) /\ Len(bs) \in Nat /\ DOMAIN bs = 1..Len(bs)
      /\ DOMAIN cs = 1..Len(bs)
      /\ \A i \in 1..Len(bs) : cs[i].first = bs[i].first
  BY DEF SameRanges
<1>2. ASSUME NEW i \in DOMAIN bs, NEW id
      PROVE  InRange(cs, i, id) <=> InRange(bs, i, id)
  <2>1. i < Len(bs) => i + 1 \in 1..Len(bs)
    BY <1>1, <1>2
  <2> QED BY <1>1, <1>2, <2>1 DEF InRange
<1>3. ASSUME NEW i \in DOMAIN bs
      PROVE  \A j \in 1..(i - 1) : j \in DOMAIN bs
  BY <1>1, <1>3
<1>4. \A i \in DOMAIN bs : \A id : Finds(cs, i, id) <=> Finds(bs, i, id)
  BY <1>2, <1>3 DEF Finds
<1>5. Tiled(bs) => Tiled(cs)
  BY <1>1, <1>2, <1>3 DEF Tiled
<1> QED BY <1>2, <1>4, <1>5


-----------------------------------------------------------------------------
(* Splitting.                                                              *)

\* cs is bs with bucket i split at mid.
SplitOf(cs, bs, i, mid) ==
    /\ Len(cs) = Len(bs) + 1
    /\ \A j \in 1..(i - 1) : cs[j] = bs[j]
    /\ cs[i] = [first |-> bs[i].first, nodes |-> {p \in bs[i].nodes : ~(p >= mid)}]
    /\ cs[i + 1] = [first |-> mid, nodes |-> {p \in bs[i].nodes : p >= mid}]
    /\ \A j \in (i + 2)..Len(cs) : cs[j] = bs[j - 1]

LEMMA NodesChanged ==
    ASSUME NEW r \in Bucket, NEW x
    PROVE  [r EXCEPT !.nodes = x] = [first |-> r.first, nodes |-> x]
<1>1. r = [first |-> r.first, nodes |-> r.nodes]
  BY DEF Bucket
<1> DEFINE f == r.first
           n == r.nodes
<1> HIDE DEF f, n
<1>2. [[first |-> f, nodes |-> n] EXCEPT !.nodes = x] = [first |-> f, nodes |-> x]
  OBVIOUS
<1> QED BY <1>1, <1>2 DEF f, n

LEMMA SplitIs ==
    ASSUME NEW bs \in Seq(Bucket), NEW i \in DOMAIN bs, NEW mid \in Ids
    PROVE  Split(bs, i, mid) \in Seq(Bucket) /\ SplitOf(Split(bs, i, mid), bs, i, mid)
<1> DEFINE moved == {p \in bs[i].nodes : p >= mid}
           low == [first |-> bs[i].first, nodes |-> bs[i].nodes \ moved]
           high == [first |-> mid, nodes |-> moved]
           ks == [bs EXCEPT ![i].nodes = @ \ moved]
<1>1. bs[i] \in Bucket /\ i \in 1..Len(bs) /\ Len(bs) \in Nat /\ DOMAIN bs = 1..Len(bs)
  BY BucketTypes
<1>2. bs[i].first \in Ids /\ bs[i].nodes \subseteq Peers
  BY BucketTypes
<1>3. low \in Bucket /\ high \in Bucket
  BY <1>2 DEF Bucket
<1>4. [bs[i] EXCEPT !.nodes = @ \ moved] = low
  BY <1>1, NodesChanged
<1>5. ks = [bs EXCEPT ![i] = low]
  BY <1>4
<1>6. ks \in Seq(Bucket) /\ Len(ks) = Len(bs) /\ DOMAIN ks = 1..Len(bs)
  <2>1. [bs EXCEPT ![i] = low] \in Seq(Bucket)
    BY <1>1, <1>3
  <2> HIDE DEF ks, low
  <2> QED BY <2>1, <1>1, <1>5
<1>7. \A j \in 1..Len(bs) : ks[j] = IF j = i THEN low ELSE bs[j]
  BY <1>1, <1>5
<1>8. Split(bs, i, mid) = InsertAt(ks, i + 1, high)
  BY DEF Split
<1> DEFINE cs == InsertAt(ks, i + 1, high)
<1> HIDE DEF ks, low, high
<1>9. i + 1 \in 1..(Len(ks) + 1)
  BY <1>1, <1>6
<1>10. cs \in Seq(Bucket) /\ Inserted(cs, ks, i + 1, high)
  BY <1>3, <1>6, <1>9, InsertAtInserted
<1>11. /\ Len(cs) = Len(bs) + 1
       /\ \A j \in 1..(Len(bs) + 1) :
            cs[j] = IF j < i + 1 THEN ks[j] ELSE IF j = i + 1 THEN high ELSE ks[j - 1]
  BY <1>6, <1>10 DEF Inserted
<1> HIDE DEF cs
<1>12. \A j \in 1..(i - 1) : cs[j] = bs[j]
  BY <1>1, <1>7, <1>11
<1>13. cs[i] = low /\ cs[i + 1] = high
  BY <1>1, <1>7, <1>11
<1>14. \A j \in (i + 2)..(Len(bs) + 1) : cs[j] = bs[j - 1]
  <2> SUFFICES ASSUME NEW j \in (i + 2)..(Len(bs) + 1)
               PROVE  cs[j] = bs[j - 1]
    OBVIOUS
  <2>1. j \in 1..(Len(bs) + 1) /\ ~(j < i + 1) /\ j # i + 1 /\ j - 1 \in 1..Len(bs)
        /\ j - 1 # i
    BY <1>1
  <2> QED BY <2>1, <1>7, <1>11
<1>15. bs[i].nodes \ moved = {p \in bs[i].nodes : ~(p >= mid)}
  OBVIOUS
<1> QED BY <1>8, <1>10, <1>11, <1>12, <1>13, <1>14, <1>15 DEF cs, SplitOf, low, high

\* The ranges after a split.
LEMMA SplitRanges ==
    ASSUME NEW bs \in Seq(Bucket), NEW i \in DOMAIN bs, NEW mid \in Ids,
           NEW cs \in Seq(Bucket), SplitOf(cs, bs, i, mid)
    PROVE  /\ \A j \in 1..(i - 1) : \A id : InRange(cs, j, id) <=> InRange(bs, j, id)
           /\ \A id : InRange(cs, i, id) <=> id >= bs[i].first /\ id < mid
           /\ \A id : InRange(cs, i + 1, id) <=>
                        id >= mid /\ (i < Len(bs) => id < bs[i + 1].first)
           /\ \A j \in (i + 2)..Len(cs) : \A id :
                InRange(cs, j, id) <=> InRange(bs, j - 1, id)
<1>1. i \in 1..Len(bs) /\ Len(bs) \in Nat /\ Len(cs) = Len(bs) + 1
  BY BucketTypes DEF SplitOf
<1>2. /\ cs[i].first = bs[i].first /\ cs[i + 1].first = mid
      /\ \A j \in 1..(i - 1) : cs[j] = bs[j]
      /\ \A j \in (i + 2)..Len(cs) : cs[j] = bs[j - 1]
  BY DEF SplitOf
<1>3. ASSUME NEW j \in 1..(i - 1), NEW id
      PROVE  InRange(cs, j, id) <=> InRange(bs, j, id)
  <2>1. j < Len(cs) /\ j < Len(bs)
    BY <1>1
  <2>2. cs[j + 1].first = bs[j + 1].first
    <3>1. CASE j = i - 1
      <4>1. j + 1 = i
        BY <1>1, <3>1
      <4> QED BY <4>1, <1>2
    <3>2. CASE j # i - 1
      <4>1. j + 1 \in 1..(i - 1)
        BY <1>1, <3>2
      <4> QED BY <4>1, <1>2
    <3> QED BY <3>1, <3>2
  <2> QED BY <1>2, <2>1, <2>2 DEF InRange
<1>4. ASSUME NEW id
      PROVE  InRange(cs, i, id) <=> id >= bs[i].first /\ id < mid
  BY <1>1, <1>2 DEF InRange
<1>5. ASSUME NEW id
      PROVE  InRange(cs, i + 1, id) <=>
               id >= mid /\ (i < Len(bs) => id < bs[i + 1].first)
  <2>1. i + 1 < Len(cs) <=> i < Len(bs)
    BY <1>1
  <2>2. i < Len(bs) => cs[(i + 1) + 1] = bs[i + 1]
    <3> SUFFICES ASSUME i < Len(bs) PROVE cs[(i + 1) + 1] = bs[i + 1]
      OBVIOUS
    <3>1. i + 2 \in (i + 2)..Len(cs) /\ (i + 1) + 1 = i + 2 /\ (i + 2) - 1 = i + 1
      BY <1>1
    <3> QED BY <3>1, <1>2
  <2> QED BY <1>2, <2>1, <2>2 DEF InRange
<1>6. ASSUME NEW j \in (i + 2)..Len(cs), NEW id
      PROVE  InRange(cs, j, id) <=> InRange(bs, j - 1, id)
  <2>1. j < Len(cs) <=> j - 1 < Len(bs)
    BY <1>1
  <2>2. j < Len(cs) => cs[j + 1] = bs[(j - 1) + 1]
    <3> SUFFICES ASSUME j < Len(cs) PROVE cs[j + 1] = bs[(j - 1) + 1]
      OBVIOUS
    <3>1. j + 1 \in (i + 2)..Len(cs) /\ (j + 1) - 1 = (j - 1) + 1
      BY <1>1
    <3> QED BY <3>1, <1>2
  <2>3. cs[j] = bs[j - 1]
    BY <1>2
  <2> QED BY <2>1, <2>2, <2>3 DEF InRange
<1> QED BY <1>3, <1>4, <1>5, <1>6


\* A split keeps the tiling, wherever it is made.
LEMMA SplitTiled ==
    ASSUME NEW bs \in Seq(Bucket), NEW i \in DOMAIN bs, NEW mid \in Ids,
           NEW cs \in Seq(Bucket), SplitOf(cs, bs, i, mid), Tiled(bs)
    PROVE  Tiled(cs)
<1> SUFFICES ASSUME NEW k \in DOMAIN cs, NEW id \in Ids, id < cs[k].first
             PROVE  \E j \in 1..(k - 1) : InRange(cs, j, id)
  BY DEF Tiled
<1>1. /\ i \in 1..Len(bs) /\ Len(bs) \in Nat /\ Len(cs) = Len(bs) + 1
      /\ DOMAIN bs = 1..Len(bs) /\ DOMAIN cs = 1..Len(cs)
  BY BucketTypes DEF SplitOf
<1>2. /\ \A j \in 1..(i - 1) : InRange(cs, j, id) <=> InRange(bs, j, id)
      /\ InRange(cs, i, id) <=> id >= bs[i].first /\ id < mid
      /\ InRange(cs, i + 1, id) <=>
           id >= mid /\ (i < Len(bs) => id < bs[i + 1].first)
      /\ \A j \in (i + 2)..Len(cs) : InRange(cs, j, id) <=> InRange(bs, j - 1, id)
  BY SplitRanges
<1>3. /\ cs[i].first = bs[i].first /\ cs[i + 1].first = mid
      /\ \A j \in 1..(i - 1) : cs[j] = bs[j]
      /\ \A j \in (i + 2)..Len(cs) : cs[j] = bs[j - 1]
  BY DEF SplitOf
<1>4. id \in Nat /\ mid \in Nat /\ bs[i].first \in Nat
  BY BucketTypes, IdsAreNaturals
<1>5. \A n \in DOMAIN bs : id < bs[n].first => \E j \in 1..(n - 1) : InRange(bs, j, id)
  BY DEF Tiled
<1>6. CASE k \in 1..i
  <2>1. cs[k].first = bs[k].first /\ k \in DOMAIN bs
    BY <1>1, <1>3, <1>6
  <2>2. PICK j \in 1..(k - 1) : InRange(bs, j, id)
    BY <2>1, <1>5
  <2>3. j \in 1..(i - 1)
    BY <1>1, <1>6
  <2> QED BY <1>2, <2>2, <2>3
<1>7. CASE k = i + 1
  <2>1. id < mid
    BY <1>3, <1>7
  <2>2. CASE id >= bs[i].first
    <3>1. InRange(cs, i, id) /\ i \in 1..(k - 1)
      BY <1>1, <1>2, <1>7, <2>1, <2>2
    <3> QED BY <3>1
  <2>3. CASE id < bs[i].first
    <3>1. PICK j \in 1..(i - 1) : InRange(bs, j, id)
      BY <1>5, <2>3
    <3>2. j \in 1..(k - 1)
      BY <1>1, <1>7
    <3> QED BY <1>2, <3>1, <3>2
  <2> QED BY <1>4, <2>2, <2>3
<1>8. CASE k \in (i + 2)..Len(cs)
  <2>1. cs[k] = bs[k - 1] /\ k - 1 \in DOMAIN bs
    BY <1>1, <1>3, <1>8
  <2>2. PICK j \in 1..((k - 1) - 1) : InRange(bs, j, id)
    BY <2>1, <1>5
  <2>3. CASE j < i
    <3>1. j \in 1..(i - 1) /\ j \in 1..(k - 1)
      BY <1>1, <1>8, <2>3
    <3> QED BY <1>2, <2>2, <3>1
  <2>4. CASE j > i
    <3>1. j + 1 \in (i + 2)..Len(cs) /\ j + 1 \in 1..(k - 1) /\ (j + 1) - 1 = j
      BY <1>1, <1>8, <2>4
    <3> QED BY <1>2, <2>2, <3>1
  <2>5. CASE j = i
    <3>1. id >= bs[i].first /\ (i < Len(bs) => id < bs[i + 1].first)
      BY <2>2, <2>5 DEF InRange
    <3>2. InRange(cs, i, id) \/ InRange(cs, i + 1, id)
      BY <1>2, <1>4, <3>1
    <3>3. i \in 1..(k - 1) /\ i + 1 \in 1..(k - 1)
      BY <1>1, <1>8
    <3> QED BY <3>2, <3>3
  <2>6. j < i \/ j > i \/ j = i
    BY <1>1
  <2> QED BY <2>3, <2>4, <2>5, <2>6
<1>9. k \in 1..i \/ k = i + 1 \/ k \in (i + 2)..Len(cs)
  BY <1>1
<1> QED BY <1>6, <1>7, <1>8, <1>9

\* The middle of a range that is not empty does not pass its end.
LEMMA MiddleBound ==
    ASSUME NEW bs \in Seq(Bucket), NEW i \in DOMAIN bs, NEW mid \in Ids,
           Middle(bs, i, mid), i < Len(bs), bs[i].first < bs[i + 1].first
    PROVE  mid < bs[i + 1].first
<1>1. i \in 1..Len(bs) /\ Len(bs) \in Nat
  BY BucketTypes
<1>2. i + 1 \in DOMAIN bs
  BY <1>1
<1>3. bs[i].first \in Nat /\ bs[i + 1].first \in Nat
  BY <1>2, BucketTypes
<1> DEFINE a == bs[i].first
           b == bs[i + 1].first
<1>4. mid = ((a + b) % (2 * Half)) \div 2
  BY DEF Middle
<1> HIDE DEF a, b
<1>5. a \in Nat /\ b \in Nat /\ a < b /\ 2 * Half \in Nat \ {0}
  BY <1>3, IdsAreNaturals DEF a, b
<1>6. (a + b) % (2 * Half) <= a + b /\ (a + b) % (2 * Half) \in Nat
  <2> DEFINE s == a + b
             m == 2 * Half
  <2>1. s \in Nat /\ m \in Nat \ {0}
    BY <1>5
  <2> HIDE DEF s, m
  <2>2. s % m <= s /\ s % m \in Nat
    BY <2>1
  <2> QED BY <2>2 DEF s, m
<1>7. 2 * mid <= a + b /\ mid \in Nat
  BY <1>4, <1>5, <1>6
<1> QED BY <1>5, <1>7 DEF b

\* A split of a bucket with a range that is not empty leaves every node where
\* find_bucket finds it.
LEMMA SplitPlaced ==
    ASSUME NEW bs \in Seq(Bucket), NEW i \in DOMAIN bs, NEW mid \in Ids,
           NEW cs \in Seq(Bucket), SplitOf(cs, bs, i, mid), Tiled(bs), Placed(bs),
           i < Len(bs) => mid < bs[i + 1].first
    PROVE  Placed(cs)
<1> SUFFICES ASSUME NEW k \in DOMAIN cs, NEW p \in cs[k].nodes
             PROVE  Finds(cs, k, p)
  BY DEF Placed
<1>1. /\ i \in 1..Len(bs) /\ Len(bs) \in Nat /\ Len(cs) = Len(bs) + 1
      /\ DOMAIN bs = 1..Len(bs) /\ DOMAIN cs = 1..Len(cs)
  BY BucketTypes DEF SplitOf
<1>2. /\ \A j \in 1..(i - 1) : InRange(cs, j, p) <=> InRange(bs, j, p)
      /\ InRange(cs, i, p) <=> p >= bs[i].first /\ p < mid
      /\ InRange(cs, i + 1, p) <=>
           p >= mid /\ (i < Len(bs) => p < bs[i + 1].first)
      /\ \A j \in (i + 2)..Len(cs) : InRange(cs, j, p) <=> InRange(bs, j - 1, p)
  BY SplitRanges
<1>3. /\ cs[i].nodes = {q \in bs[i].nodes : ~(q >= mid)}
      /\ cs[i + 1].nodes = {q \in bs[i].nodes : q >= mid}
      /\ \A j \in 1..(i - 1) : cs[j] = bs[j]
      /\ \A j \in (i + 2)..Len(cs) : cs[j] = bs[j - 1]
  BY DEF SplitOf
<1>4. p \in Ids /\ p \in Nat /\ mid \in Nat /\ bs[i].first \in Nat
  <2>1. p \in Peers
    BY BucketTypes
  <2> QED BY <2>1, BucketTypes, IdsAreNaturals, PeersAssumption
<1>5. i < Len(bs) => bs[i + 1].first \in Nat
  <2> SUFFICES ASSUME i < Len(bs) PROVE bs[i + 1].first \in Nat
    OBVIOUS
  <2>1. i + 1 \in DOMAIN bs
    BY <1>1
  <2> QED BY <2>1, BucketTypes
<1>6. \A n \in DOMAIN bs : \A q \in bs[n].nodes :
         InRange(bs, n, q) /\ \A j \in 1..(n - 1) : ~InRange(bs, j, q)
  BY DEF Placed, Finds
<1>7. InRange(bs, i, p) <=> p >= bs[i].first /\ (i < Len(bs) => p < bs[i + 1].first)
  BY DEF InRange
<1>8. CASE k \in 1..(i - 1)
  <2>1. p \in bs[k].nodes /\ k \in DOMAIN bs
    BY <1>1, <1>3, <1>8
  <2>2. InRange(bs, k, p) /\ \A j \in 1..(k - 1) : ~InRange(bs, j, p)
    BY <2>1, <1>6
  <2>3. \A j \in 1..(k - 1) : j \in 1..(i - 1)
    BY <1>1, <1>8
  <2> QED BY <1>2, <1>8, <2>2, <2>3 DEF Finds
<1>9. CASE k = i
  <2>1. p \in bs[i].nodes /\ ~(p >= mid)
    BY <1>3, <1>9
  <2>2. InRange(bs, i, p) /\ \A j \in 1..(i - 1) : ~InRange(bs, j, p)
    BY <2>1, <1>6
  <2>3. InRange(cs, i, p)
    BY <1>2, <1>4, <1>7, <2>1, <2>2
  <2> QED BY <1>2, <1>9, <2>2, <2>3 DEF Finds
<1>10. CASE k = i + 1
  <2>1. p \in bs[i].nodes /\ p >= mid
    BY <1>3, <1>10
  <2>2. InRange(bs, i, p) /\ \A j \in 1..(i - 1) : ~InRange(bs, j, p)
    BY <2>1, <1>6
  <2>3. InRange(cs, i + 1, p)
    BY <1>2, <1>7, <2>1, <2>2
  <2>4. ~InRange(cs, i, p)
    BY <1>2, <1>4, <2>1
  <2>5. \A j \in 1..(k - 1) : j \in 1..(i - 1) \/ j = i
    BY <1>1, <1>10
  <2> QED BY <1>2, <1>10, <2>2, <2>3, <2>4, <2>5 DEF Finds
<1>11. CASE k \in (i + 2)..Len(cs)
  <2>1. p \in bs[k - 1].nodes /\ k - 1 \in DOMAIN bs
    BY <1>1, <1>3, <1>11
  <2>2. InRange(bs, k - 1, p) /\ \A j \in 1..((k - 1) - 1) : ~InRange(bs, j, p)
    BY <2>1, <1>6
  <2>3. i \in 1..((k - 1) - 1)
    BY <1>1, <1>11
  <2>4. ~InRange(bs, i, p)
    BY <2>2, <2>3
  <2>5. InRange(cs, k, p)
    BY <1>2, <1>11, <2>2
  <2>6. ~InRange(cs, i, p)
    BY <1>2, <1>4, <1>5, <1>7, <2>4
  <2>7. ~InRange(cs, i + 1, p)
    <3> SUFFICES ASSUME InRange(cs, i + 1, p) PROVE FALSE
      OBVIOUS
    <3>1. p >= mid /\ (i < Len(bs) => p < bs[i + 1].first)
      BY <1>2
    <3>2. p < bs[i].first
      BY <1>4, <1>7, <2>4, <3>1
    <3>3. PICK j \in 1..(i - 1) : InRange(bs, j, p)
      BY <1>4, <3>2 DEF Tiled
    <3>4. j \in 1..((k - 1) - 1)
      BY <1>1, <1>11
    <3> QED BY <2>2, <3>3, <3>4
  <2>8. ASSUME NEW j \in 1..(k - 1)
        PROVE  ~InRange(cs, j, p)
    <3>1. CASE j < i
      <4>1. j \in 1..(i - 1) /\ j \in 1..((k - 1) - 1)
        BY <1>1, <1>11, <3>1
      <4> QED BY <1>2, <2>2, <4>1
    <3>2. CASE j > i + 1
      <4>1. j \in (i + 2)..Len(cs) /\ j - 1 \in 1..((k - 1) - 1)
        BY <1>1, <1>11, <3>2
      <4> QED BY <1>2, <2>2, <4>1
    <3>3. j < i \/ j > i + 1 \/ j = i \/ j = i + 1
      BY <1>1
    <3> QED BY <2>6, <2>7, <3>1, <3>2, <3>3
  <2> QED BY <2>5, <2>8 DEF Finds
<1>12. k \in 1..(i - 1) \/ k = i \/ k = i + 1 \/ k \in (i + 2)..Len(cs)
  BY <1>1
<1> QED BY <1>8, <1>9, <1>10, <1>11, <1>12


-----------------------------------------------------------------------------
(* What each step makes of a sound table.                                  *)

\* Nodes that leave, and nodes that come where find_bucket finds them.
LEMMA SoundNodes ==
    ASSUME NEW m, NEW bs, Sound(bs, m), NEW cs \in Seq(Bucket), SameRanges(bs, cs),
           Sized(cs, m),
           \A j \in DOMAIN bs : \A q \in cs[j].nodes : q \in bs[j].nodes \/ Finds(bs, j, q)
    PROVE  Sound(cs, m)
<1>1. bs \in Seq(Bucket) /\ Tiled(bs) /\ Placed(bs) /\ Len(bs) >= 1
  BY DEF Sound
<1>2. DOMAIN cs = DOMAIN bs /\ Len(cs) = Len(bs)
  BY <1>1 DEF SameRanges
<1>3. Tiled(cs) /\ \A j \in DOMAIN bs : \A q : Finds(cs, j, q) <=> Finds(bs, j, q)
  BY <1>1, RangesKept
<1>4. Placed(cs)
  <2> SUFFICES ASSUME NEW j \in DOMAIN bs, NEW q \in cs[j].nodes
               PROVE  Finds(cs, j, q)
    BY <1>2 DEF Placed
  <2>1. Finds(bs, j, q)
    BY <1>1 DEF Placed
  <2> QED BY <1>3, <2>1
<1> QED BY <1>1, <1>2, <1>3, <1>4 DEF Sound

\* cs is bs with p in bucket i and without the nodes in gone.
StoreOf(cs, bs, i, p, gone) ==
    /\ Len(cs) = Len(bs)
    /\ \A j \in DOMAIN bs : cs[j].first = bs[j].first
    /\ \A j \in DOMAIN bs :
          cs[j].nodes = IF j = i THEN (bs[i].nodes \ gone) \cup {p} ELSE bs[j].nodes

LEMMA StoreIs ==
    ASSUME NEW bs \in Seq(Bucket), NEW i \in DOMAIN bs, NEW p \in Peers, NEW gone
    PROVE  LET cs == [bs EXCEPT ![i].nodes = (@ \ gone) \cup {p}]
           IN cs \in Seq(Bucket) /\ StoreOf(cs, bs, i, p, gone)
<1> DEFINE N == (bs[i].nodes \ gone) \cup {p}
           b == [first |-> bs[i].first, nodes |-> N]
           cs == [bs EXCEPT ![i].nodes = (@ \ gone) \cup {p}]
<1>1. bs[i] \in Bucket /\ bs[i].first \in Ids /\ bs[i].nodes \subseteq Peers
  BY BucketTypes
<1>2. b \in Bucket
  BY <1>1 DEF Bucket
<1>3. [bs[i] EXCEPT !.nodes = N] = b
  BY <1>1, NodesChanged
<1>4. cs = [bs EXCEPT ![i] = b]
  BY <1>3
<1>5. b.first = bs[i].first /\ b.nodes = N
  OBVIOUS
<1> HIDE DEF b, cs
<1>6. cs \in Seq(Bucket) /\ Len(cs) = Len(bs)
  <2>1. [bs EXCEPT ![i] = b] \in Seq(Bucket) /\ Len([bs EXCEPT ![i] = b]) = Len(bs)
    BY <1>2
  <2> QED BY <2>1, <1>4
<1>7. \A j \in DOMAIN bs : cs[j] = IF j = i THEN b ELSE bs[j]
  BY <1>4
<1>8. StoreOf(cs, bs, i, p, gone)
  BY <1>5, <1>6, <1>7 DEF StoreOf
<1> QED BY <1>6, <1>8 DEF cs

LEMMA SoundStore ==
    ASSUME NEW m, NEW bs, Sound(bs, m), NEW i \in DOMAIN bs, NEW p \in Peers, NEW gone,
           p # m, Finds(bs, i, p), Cardinality((bs[i].nodes \ gone) \cup {p}) <= K,
           NEW cs \in Seq(Bucket), StoreOf(cs, bs, i, p, gone)
    PROVE  Sound(cs, m)
<1>1. bs \in Seq(Bucket) /\ Sized(bs, m)
  BY DEF Sound
<1>2. SameRanges(bs, cs) /\ DOMAIN cs = DOMAIN bs
  BY <1>1 DEF StoreOf, SameRanges
<1>3. Sized(cs, m)
  <2> SUFFICES ASSUME NEW j \in DOMAIN bs
               PROVE  m \notin cs[j].nodes /\ Cardinality(cs[j].nodes) <= K
    BY <1>2 DEF Sized
  <2>1. m \notin bs[j].nodes /\ Cardinality(bs[j].nodes) <= K
    BY <1>1 DEF Sized
  <2>2. cs[j].nodes = IF j = i THEN (bs[i].nodes \ gone) \cup {p} ELSE bs[j].nodes
    BY DEF StoreOf
  <2> QED BY <2>1, <2>2
<1>4. \A j \in DOMAIN bs : \A q \in cs[j].nodes : q \in bs[j].nodes \/ Finds(bs, j, q)
  BY DEF StoreOf
<1> QED BY <1>2, <1>3, <1>4, SoundNodes

LEMMA SoundSplit ==
    ASSUME NEW m \in Ids, NEW bs, Sound(bs, m), NEW i \in DOMAIN bs, NEW mid \in Ids,
           InRange(bs, i, m), Middle(bs, i, mid)
    PROVE  Sound(Split(bs, i, mid), m)
<1> DEFINE cs == Split(bs, i, mid)
<1>1. /\ bs \in Seq(Bucket) /\ Tiled(bs) /\ Placed(bs) /\ Sized(bs, m)
      /\ Len(bs) >= 1 /\ Len(bs) \in Nat
  BY DEF Sound
<1>2. cs \in Seq(Bucket) /\ SplitOf(cs, bs, i, mid)
  BY <1>1, SplitIs
<1> HIDE DEF cs
<1>3. Tiled(cs)
  BY <1>1, <1>2, SplitTiled
<1>4. ASSUME i < Len(bs)
      PROVE  mid < bs[i + 1].first
  <2>1. i \in 1..Len(bs) /\ i + 1 \in DOMAIN bs
    BY <1>1, <1>4
  <2>2. bs[i].first \in Nat /\ bs[i + 1].first \in Nat /\ m \in Nat
    BY <1>1, <2>1, BucketTypes, IdsAreNaturals
  <2>3. bs[i].first < bs[i + 1].first
    BY <1>4, <2>2 DEF InRange
  <2> QED BY <1>1, <1>4, <2>3, MiddleBound
<1>5. Placed(cs)
  BY <1>1, <1>2, <1>4, SplitPlaced
<1>6. Sized(cs, m)
  <2> SUFFICES ASSUME NEW k \in DOMAIN cs
               PROVE  m \notin cs[k].nodes /\ Cardinality(cs[k].nodes) <= K
    BY DEF Sized
  <2>1. i \in 1..Len(bs) /\ k \in 1..(Len(bs) + 1)
    BY <1>1, <1>2 DEF SplitOf
  <2>2. PICK j \in DOMAIN bs : cs[k].nodes \subseteq bs[j].nodes
    <3>1. CASE k \in 1..(i - 1)
      <4>1. k \in DOMAIN bs
        BY <1>1, <2>1, <3>1
      <4> QED BY <1>2, <3>1, <4>1 DEF SplitOf
    <3>2. CASE k = i
      BY <1>2, <3>2 DEF SplitOf
    <3>3. CASE k = i + 1
      BY <1>2, <3>3 DEF SplitOf
    <3>4. CASE k \in (i + 2)..Len(cs)
      <4>1. k - 1 \in DOMAIN bs
        BY <1>1, <2>1, <3>4
      <4> QED BY <1>2, <3>4, <4>1 DEF SplitOf
    <3>5. Len(cs) = Len(bs) + 1
      BY <1>2 DEF SplitOf
    <3>6. k \in 1..(i - 1) \/ k = i \/ k = i + 1 \/ k \in (i + 2)..Len(cs)
      BY <1>1, <2>1, <3>5
    <3>7. i \in DOMAIN bs
      OBVIOUS
    <3> QED BY <3>1, <3>2, <3>3, <3>4, <3>6, <3>7
  <2>3. m \notin bs[j].nodes /\ Cardinality(bs[j].nodes) <= K /\ IsFiniteSet(bs[j].nodes)
    BY <1>1, BucketTypes DEF Sized
  <2>4. Cardinality(cs[k].nodes) <= Cardinality(bs[j].nodes)
    BY <2>2, <2>3, FS_Subset
  <2>5. Cardinality(cs[k].nodes) \in Nat /\ Cardinality(bs[j].nodes) \in Nat /\ K \in Nat
    BY <2>2, <2>3, FS_Subset, FS_CardinalityType, LimitsAssumption
  <2> QED BY <2>2, <2>3, <2>4, <2>5
<1>7. Len(cs) >= 1
  BY <1>1, <1>2 DEF SplitOf
<1> QED BY <1>2, <1>3, <1>5, <1>6, <1>7 DEF Sound, cs

\* Without, as a fact about the buckets bs.
DropOf(cs, bs, gone) ==
    /\ Len(cs) = Len(bs)
    /\ \A j \in DOMAIN bs :
          cs[j].first = bs[j].first /\ cs[j].nodes = bs[j].nodes \ gone

LEMMA DropIs ==
    ASSUME NEW bs \in Seq(Bucket), NEW gone
    PROVE  LET cs == [i \in DOMAIN bs |-> [bs[i] EXCEPT !.nodes = @ \ gone]]
           IN cs \in Seq(Bucket) /\ DropOf(cs, bs, gone)
<1> DEFINE b(i) == [first |-> bs[i].first, nodes |-> bs[i].nodes \ gone]
           cs == [i \in DOMAIN bs |-> [bs[i] EXCEPT !.nodes = @ \ gone]]
<1>1. \A i \in DOMAIN bs : [bs[i] EXCEPT !.nodes = @ \ gone] = b(i) /\ b(i) \in Bucket
  <2> SUFFICES ASSUME NEW i \in DOMAIN bs
               PROVE  [bs[i] EXCEPT !.nodes = @ \ gone] = b(i) /\ b(i) \in Bucket
    OBVIOUS
  <2>1. bs[i] \in Bucket /\ bs[i].first \in Ids /\ bs[i].nodes \subseteq Peers
    BY BucketTypes
  <2>2. b(i) \in Bucket
    BY <2>1 DEF Bucket
  <2> QED BY <2>1, <2>2, NodesChanged
<1>2. \A i \in DOMAIN bs : b(i).first = bs[i].first /\ b(i).nodes = bs[i].nodes \ gone
  OBVIOUS
<1> HIDE DEF b
<1>3. cs = [i \in DOMAIN bs |-> b(i)]
  BY <1>1
<1>4. DOMAIN bs = 1..Len(bs) /\ Len(bs) \in Nat
  OBVIOUS
<1> HIDE DEF cs
<1>5. cs \in Seq(Bucket) /\ Len(cs) = Len(bs) /\ \A i \in DOMAIN bs : cs[i] = b(i)
  BY <1>1, <1>3, <1>4
<1>6. DropOf(cs, bs, gone)
  BY <1>2, <1>5 DEF DropOf
<1> QED BY <1>5, <1>6 DEF cs

LEMMA SoundDrop ==
    ASSUME NEW m, NEW bs, Sound(bs, m), NEW gone,
           NEW cs \in Seq(Bucket), DropOf(cs, bs, gone)
    PROVE  Sound(cs, m)
<1>1. bs \in Seq(Bucket) /\ Sized(bs, m)
  BY DEF Sound
<1>2. SameRanges(bs, cs) /\ DOMAIN cs = DOMAIN bs
  BY <1>1 DEF DropOf, SameRanges
<1>3. Sized(cs, m)
  <2> SUFFICES ASSUME NEW j \in DOMAIN bs
               PROVE  m \notin cs[j].nodes /\ Cardinality(cs[j].nodes) <= K
    BY <1>2 DEF Sized
  <2>1. m \notin bs[j].nodes /\ Cardinality(bs[j].nodes) <= K /\ IsFiniteSet(bs[j].nodes)
    BY <1>1, BucketTypes DEF Sized
  <2>2. cs[j].nodes \subseteq bs[j].nodes
    BY DEF DropOf
  <2>3. /\ Cardinality(cs[j].nodes) <= Cardinality(bs[j].nodes)
        /\ Cardinality(cs[j].nodes) \in Nat /\ Cardinality(bs[j].nodes) \in Nat
    BY <2>1, <2>2, FS_Subset, FS_CardinalityType
  <2> QED BY <2>1, <2>2, <2>3, LimitsAssumption
<1>4. \A j \in DOMAIN bs : \A q \in cs[j].nodes : q \in bs[j].nodes \/ Finds(bs, j, q)
  BY DEF DropOf
<1> QED BY <1>2, <1>3, <1>4, SoundNodes


-----------------------------------------------------------------------------
(* The invariant.                                                          *)

\* What is known of a node goes with it.
Cleared(bs, nd) ==
    \A q \in Peers : (\A i \in DOMAIN bs : q \notin bs[i].nodes) => nd[q] = Fresh

Inv ==
    /\ my_id \in MyIds
    /\ Sound(buckets, my_id) /\ Len(buckets) <= MaxBuckets
    /\ node \in [Peers -> NodeState]
    /\ Cleared(buckets, node)

LEMMA ConfirmTypes ==
    /\ Fresh \in NodeState
    /\ \A n \in NodeState : \A c \in 0..2 : Confirm(n, c) \in NodeState
<1>1. Fresh \in NodeState
  BY LimitsAssumption DEF Fresh, NodeState
<1>2. ASSUME NEW n \in NodeState, NEW c \in 0..2
      PROVE  Confirm(n, c) \in NodeState
  <2> DEFINE s == [n EXCEPT !.stale = FALSE]
  <2>1. s \in NodeState
    BY DEF NodeState
  <2>2. [s EXCEPT !.state = "good", !.ping_count = 0] \in NodeState
    <3> HIDE DEF s
    <3>1. 0 \in 0..MaxPing
      BY LimitsAssumption
    <3> QED BY <2>1, <3>1 DEF NodeState
  <2>3. Pinged(s) \in NodeState
    <3> HIDE DEF s
    <3> DEFINE count == IF s.ping_count < MaxPing THEN s.ping_count + 1 ELSE MaxPing
               st == IF s.state \in {"unknown", "good"} THEN "dubious"
                     ELSE IF count = MaxPing THEN "bad" ELSE s.state
    <3>1. s.ping_count \in 0..MaxPing /\ s.state \in {"unknown", "good", "dubious", "bad"}
      BY <2>1 DEF NodeState
    <3>2. count \in 0..MaxPing
      BY <3>1, LimitsAssumption
    <3>3. st \in {"unknown", "good", "dubious", "bad"}
      BY <3>1
    <3>4. Pinged(s) = [s EXCEPT !.ping_count = count, !.state = st]
      BY DEF Pinged
    <3> HIDE DEF count, st
    <3> QED BY <2>1, <3>2, <3>3, <3>4 DEF NodeState
  <2> HIDE DEF s
  <2>4. Confirm(n, c) = IF c = 2 THEN [s EXCEPT !.state = "good", !.ping_count = 0]
                        ELSE IF c = 1 THEN Pinged(s) ELSE s
    BY DEF Confirm, s
  <2> QED BY <2>1, <2>2, <2>3, <2>4
<1> QED BY <1>1, <1>2

LEMMA FullFacts ==
    ASSUME NEW bs \in Seq(Bucket), NEW i \in DOMAIN bs, NEW p \in Peers
    PROVE  /\ ~Full(bs, i) => Cardinality((bs[i].nodes \ {}) \cup {p}) <= K
           /\ Cardinality(bs[i].nodes) <= K =>
                \A b \in bs[i].nodes : Cardinality((bs[i].nodes \ {b}) \cup {p}) <= K
           /\ Full(bs, i) => bs[i].nodes # {}
<1> DEFINE N == bs[i].nodes
<1>1. IsFiniteSet(N) /\ Cardinality(N) \in Nat /\ K \in Nat /\ K >= 1
  BY BucketTypes, FS_CardinalityType, LimitsAssumption
<1>2. \A S : IsFiniteSet(S) => /\ Cardinality(S) \in Nat
                               /\ Cardinality(S \cup {p}) <= Cardinality(S) + 1
                               /\ Cardinality(S \cup {p}) \in Nat
  <2> SUFFICES ASSUME NEW S, IsFiniteSet(S)
               PROVE  /\ Cardinality(S) \in Nat
                      /\ Cardinality(S \cup {p}) <= Cardinality(S) + 1
                      /\ Cardinality(S \cup {p}) \in Nat
    OBVIOUS
  <2>1. Cardinality(S) \in Nat /\ IsFiniteSet(S \cup {p})
    BY FS_CardinalityType, FS_AddElement
  <2>2. Cardinality(S \cup {p}) = IF p \in S THEN Cardinality(S) ELSE Cardinality(S) + 1
    BY FS_AddElement
  <2> QED BY <2>1, <2>2
<1>3. ~Full(bs, i) => Cardinality((N \ {}) \cup {p}) <= K
  <2>1. N \ {} = N
    OBVIOUS
  <2>2. ~Full(bs, i) => Cardinality(N) < K
    BY <1>1 DEF Full
  <2> HIDE DEF N
  <2> QED BY <1>1, <1>2, <2>1, <2>2
<1>4. ASSUME Cardinality(N) <= K, NEW b \in N
      PROVE  Cardinality((N \ {b}) \cup {p}) <= K
  <2> HIDE DEF N
  <2>1. Cardinality(N \ {b}) = Cardinality(N) - 1 /\ IsFiniteSet(N \ {b})
    BY <1>1, <1>4, FS_RemoveElement
  <2> DEFINE S == N \ {b}
  <2>2. /\ Cardinality(S) \in Nat /\ Cardinality(S \cup {p}) <= Cardinality(S) + 1
        /\ Cardinality(S \cup {p}) \in Nat
    BY <1>2, <2>1
  <2>3. Cardinality(S) = Cardinality(N) - 1
    BY <2>1
  <2> HIDE DEF S
  <2>4. Cardinality(S \cup {p}) <= K
    BY <1>1, <1>4, <2>2, <2>3
  <2> QED BY <2>4 DEF S
<1>5. Full(bs, i) => N # {}
  <2>1. N = {} => Cardinality(N) = 0
    BY FS_EmptySet, Zenon
  <2> QED BY <1>1, <2>1 DEF Full
<1> QED BY <1>3, <1>4, <1>5

\* A store, as seen from the state.
LEMMA StoredKeeps ==
    ASSUME NEW bs, Sound(bs, my_id), NEW i \in DOMAIN bs, NEW p \in Peers, p # my_id,
           NEW c \in 0..2, NEW gone, gone \subseteq bs[i].nodes,
           Finds(bs, i, p), Cardinality((bs[i].nodes \ gone) \cup {p}) <= K,
           Len(bs) <= MaxBuckets, Cleared(bs, node), node \in [Peers -> NodeState],
           my_id \in MyIds, UNCHANGED my_id, Stored(bs, i, p, c, gone)
    PROVE  Inv' /\ StoreOf(buckets', bs, i, p, gone)
<1>1. bs \in Seq(Bucket)
  BY DEF Sound
<1>2. buckets' \in Seq(Bucket) /\ StoreOf(buckets', bs, i, p, gone)
  BY <1>1, StoreIs DEF Stored
<1>3. Sound(buckets', my_id)
  BY <1>2, SoundStore
<1>4. Len(buckets') = Len(bs) /\ DOMAIN buckets' = DOMAIN bs
  BY <1>1, <1>2 DEF StoreOf
<1>5. /\ node' \in [Peers -> NodeState]
      /\ \A q \in Peers : node'[q] = IF q = p THEN Confirm(node[p], c)
                                     ELSE IF q \in gone THEN Fresh ELSE node[q]
  <2>1. node[p] \in NodeState /\ Confirm(node[p], c) \in NodeState /\ Fresh \in NodeState
    BY ConfirmTypes
  <2> QED BY <2>1 DEF Stored
<1>6. Cleared(buckets', node')
  <2> SUFFICES ASSUME NEW q \in Peers, \A j \in DOMAIN bs : q \notin buckets'[j].nodes
               PROVE  node'[q] = Fresh
    BY <1>4 DEF Cleared
  <2>1. \A j \in DOMAIN bs :
           buckets'[j].nodes = IF j = i THEN (bs[i].nodes \ gone) \cup {p}
                               ELSE bs[j].nodes
    BY <1>2 DEF StoreOf
  <2>2. q # p
    BY <2>1
  <2>3. CASE q \in gone
    BY <1>5, <2>2, <2>3
  <2>4. CASE q \notin gone
    <3>1. \A j \in DOMAIN bs : q \notin bs[j].nodes
      BY <2>1, <2>4
    <3>2. node[q] = Fresh
      BY <3>1 DEF Cleared
    <3> QED BY <1>5, <2>2, <2>4, <3>2
  <2> QED BY <2>3, <2>4
<1> QED BY <1>2, <1>3, <1>4, <1>5, <1>6 DEF Inv

\* A removal, as seen from the state.
LEMMA WithoutKeeps ==
    ASSUME Inv, NEW gone, Without(gone), UNCHANGED my_id
    PROVE  Inv' /\ DropOf(buckets', buckets, gone)
<1>1. buckets \in Seq(Bucket) /\ Sound(buckets, my_id)
  BY DEF Inv, Sound
<1>2. buckets' \in Seq(Bucket) /\ DropOf(buckets', buckets, gone)
  BY <1>1, DropIs DEF Without
<1>3. Sound(buckets', my_id)
  BY <1>1, <1>2, SoundDrop
<1>4. Len(buckets') = Len(buckets) /\ DOMAIN buckets' = DOMAIN buckets
  BY <1>1, <1>2 DEF DropOf
<1>5. /\ node' \in [Peers -> NodeState]
      /\ \A q \in Peers : node'[q] = IF q \in gone THEN Fresh ELSE node[q]
  BY ConfirmTypes DEF Inv, Without
<1>6. Cleared(buckets', node')
  <2> SUFFICES ASSUME NEW q \in Peers, \A j \in DOMAIN buckets : q \notin buckets'[j].nodes
               PROVE  node'[q] = Fresh
    BY <1>4 DEF Cleared
  <2>1. CASE q \in gone
    BY <1>5, <2>1
  <2>2. CASE q \notin gone
    <3>1. \A j \in DOMAIN buckets : q \notin buckets[j].nodes
      BY <1>2, <2>2 DEF DropOf
    <3>2. node[q] = Fresh
      BY <3>1 DEF Cleared, Inv
    <3> QED BY <1>5, <2>2, <3>2
  <2> QED BY <2>1, <2>2
<1> QED BY <1>2, <1>3, <1>4, <1>5, <1>6 DEF Inv


\* A split loses no node.
LEMMA SplitHolds ==
    ASSUME NEW bs \in Seq(Bucket), NEW i \in DOMAIN bs, NEW mid \in Ids,
           NEW cs \in Seq(Bucket), SplitOf(cs, bs, i, mid),
           NEW k \in DOMAIN bs, NEW q \in bs[k].nodes
    PROVE  \E j \in DOMAIN cs : q \in cs[j].nodes
<1>1. /\ i \in 1..Len(bs) /\ k \in 1..Len(bs) /\ Len(bs) \in Nat
      /\ DOMAIN cs = 1..(Len(bs) + 1) /\ Len(cs) = Len(bs) + 1
  BY BucketTypes DEF SplitOf
<1>2. CASE k < i
  <2>1. k \in 1..(i - 1) /\ k \in DOMAIN cs
    BY <1>1, <1>2
  <2> QED BY <2>1 DEF SplitOf
<1>3. CASE k = i
  <2>1. i \in DOMAIN cs /\ i + 1 \in DOMAIN cs
    BY <1>1
  <2>2. q \in cs[i].nodes \/ q \in cs[i + 1].nodes
    BY <1>3 DEF SplitOf
  <2> QED BY <2>1, <2>2
<1>4. CASE k > i
  <2>1. k + 1 \in (i + 2)..Len(cs) /\ k + 1 \in DOMAIN cs /\ (k + 1) - 1 = k
    BY <1>1, <1>4
  <2>2. cs[k + 1] = bs[k]
    BY <2>1 DEF SplitOf
  <2> QED BY <2>1, <2>2
<1> QED BY <1>1, <1>2, <1>3, <1>4

\* The table AddSplit leaves before it tries the node again.
LEMMA SplitsKeep ==
    ASSUME Inv, NEW p \in Peers, NEW i \in DOMAIN buckets, NEW mid \in Ids,
           Splits(p, i, mid)
    PROVE  LET bs == Split(buckets, i, mid)
           IN /\ bs \in Seq(Bucket) /\ SplitOf(bs, buckets, i, mid)
              /\ Sound(bs, my_id) /\ Len(bs) <= MaxBuckets /\ Cleared(bs, node)
<1> DEFINE bs == Split(buckets, i, mid)
<1>1. /\ buckets \in Seq(Bucket) /\ Sound(buckets, my_id) /\ my_id \in Ids
      /\ Len(buckets) \in Nat
  BY PeersAssumption DEF Inv, Sound
<1>2. bs \in Seq(Bucket) /\ SplitOf(bs, buckets, i, mid)
  BY <1>1, SplitIs
<1>3. Sound(bs, my_id)
  BY <1>1, SoundSplit DEF Splits
<1> HIDE DEF bs
<1>4. Len(bs) <= MaxBuckets
  BY <1>1, <1>2, LimitsAssumption DEF Splits, SplitOf
<1>5. Cleared(bs, node)
  <2> SUFFICES ASSUME NEW q \in Peers, \A j \in DOMAIN bs : q \notin bs[j].nodes
               PROVE  node[q] = Fresh
    BY DEF Cleared
  <2>1. \A k \in DOMAIN buckets : q \notin buckets[k].nodes
    BY <1>1, <1>2, SplitHolds
  <2> QED BY <2>1 DEF Inv, Cleared
<1> QED BY <1>2, <1>3, <1>4, <1>5 DEF bs

LEMMA InvInit == Init => Inv
<1> SUFFICES ASSUME Init PROVE Inv
  OBVIOUS
<1> DEFINE b == [first |-> 0, nodes |-> {}]
<1>1. b \in Bucket
  BY IdsAreNaturals DEF Bucket
<1>2. b.first = 0 /\ b.nodes = {}
  OBVIOUS
<1> HIDE DEF b
<1>3. buckets = <<b>>
  BY DEF Init, b
<1>4. /\ buckets \in Seq(Bucket) /\ Len(buckets) = 1 /\ DOMAIN buckets = {1}
      /\ buckets[1].first = 0 /\ buckets[1].nodes = {}
  BY <1>1, <1>2, <1>3
<1>5. Tiled(buckets)
  <2>1. \A id \in Ids : ~(id < 0)
    BY IdsAreNaturals
  <2> QED BY <1>4, <2>1 DEF Tiled
<1>6. Placed(buckets)
  BY <1>4 DEF Placed
<1>7. Sized(buckets, my_id)
  <2>1. Cardinality({}) = 0
    BY FS_EmptySet, Zenon
  <2>2. \A i \in DOMAIN buckets : Cardinality(buckets[i].nodes) = 0
    BY <1>4, <2>1
  <2> QED BY <1>4, <2>2, LimitsAssumption DEF Sized
<1>8. node \in [Peers -> NodeState] /\ Cleared(buckets, node)
  BY ConfirmTypes DEF Init, Cleared
<1>9. my_id \in MyIds /\ 1 <= MaxBuckets
  BY LimitsAssumption DEF Init
<1> QED BY <1>4, <1>5, <1>6, <1>7, <1>8, <1>9 DEF Inv, Sound

LEMMA AddKeeps ==
    ASSUME Inv, NEW p \in Peers, NEW c \in 0..2
    PROVE  /\ AddKnown(p, c) => Inv'
           /\ AddRoom(p, c) => Inv'
           /\ AddReplace(p, c) => Inv'
           /\ AddSplit(p, c) => Inv'
<1>1. /\ buckets \in Seq(Bucket) /\ Sound(buckets, my_id) /\ my_id \in MyIds
      /\ Len(buckets) <= MaxBuckets /\ Cleared(buckets, node)
      /\ node \in [Peers -> NodeState] /\ Sized(buckets, my_id)
  BY DEF Inv, Sound
<1>2. ASSUME AddKnown(p, c) PROVE Inv'
  <2>1. PICK i \in DOMAIN buckets : p \in buckets[i].nodes
    BY <1>2 DEF AddKnown
  <2>2. node' \in [Peers -> NodeState]
    <3>1. Confirm(node[p], c) \in NodeState
      BY <1>1, ConfirmTypes
    <3> QED BY <1>1, <1>2, <3>1 DEF AddKnown
  <2>3. Cleared(buckets', node')
    <3> SUFFICES ASSUME NEW q \in Peers, \A j \in DOMAIN buckets : q \notin buckets[j].nodes
                 PROVE  node'[q] = Fresh
      BY <1>2 DEF AddKnown, Cleared
    <3>1. q # p
      BY <2>1
    <3>2. node[q] = Fresh
      BY <1>1 DEF Cleared
    <3> QED BY <1>1, <1>2, <3>1, <3>2 DEF AddKnown
  <2> QED BY <1>1, <1>2, <2>2, <2>3 DEF AddKnown, Inv
<1>3. ASSUME AddRoom(p, c) PROVE Inv'
  <2>1. PICK i \in DOMAIN buckets :
           New(p, i) /\ ~Full(buckets, i) /\ Stored(buckets, i, p, c, {})
    BY <1>3 DEF AddRoom
  <2>2. Cardinality((buckets[i].nodes \ {}) \cup {p}) <= K
    BY <1>1, <2>1, FullFacts
  <2>3. UNCHANGED my_id
    BY <1>3 DEF AddRoom
  <2> QED BY <1>1, <2>1, <2>2, <2>3, StoredKeeps DEF New
<1>4. ASSUME AddReplace(p, c) PROVE Inv'
  <2>1. PICK i \in DOMAIN buckets :
           /\ New(p, i)
           /\ \E b \in buckets[i].nodes : Stored(buckets, i, p, c, {b})
    BY <1>4 DEF AddReplace
  <2>2. PICK b \in buckets[i].nodes : Stored(buckets, i, p, c, {b})
    BY <2>1
  <2>3. Cardinality(buckets[i].nodes) <= K
    BY <1>1 DEF Sized
  <2>4. Cardinality((buckets[i].nodes \ {b}) \cup {p}) <= K
    BY <1>1, <2>3, FullFacts
  <2>5. UNCHANGED my_id /\ {b} \subseteq buckets[i].nodes
    BY <1>4 DEF AddReplace
  <2> QED BY <1>1, <2>1, <2>2, <2>4, <2>5, StoredKeeps DEF New
<1>5. ASSUME AddSplit(p, c) PROVE Inv'
  <2>1. PICK i \in DOMAIN buckets, mid \in Ids :
           /\ Splits(p, i, mid)
           /\ LET bs == Split(buckets, i, mid)
              IN \E j \in DOMAIN bs :
                    /\ Finds(bs, j, p)
                    /\ \/ ~Full(bs, j) /\ Stored(bs, j, p, c, {})
                       \/ Full(bs, j) /\ buckets' = bs /\ UNCHANGED node
    BY <1>5 DEF AddSplit
  <2> DEFINE bs == Split(buckets, i, mid)
  <2>2. PICK j \in DOMAIN bs :
           /\ Finds(bs, j, p)
           /\ \/ ~Full(bs, j) /\ Stored(bs, j, p, c, {})
              \/ Full(bs, j) /\ buckets' = bs /\ UNCHANGED node
    BY <2>1
  <2>3. /\ bs \in Seq(Bucket) /\ Sound(bs, my_id) /\ Len(bs) <= MaxBuckets
        /\ Cleared(bs, node)
    BY <2>1, SplitsKeep
  <2> HIDE DEF bs
  <2>4. UNCHANGED my_id /\ p # my_id
    BY <1>5, <2>1 DEF AddSplit, Splits, New
  <2>5. CASE ~Full(bs, j) /\ Stored(bs, j, p, c, {})
    <3>1. Cardinality((bs[j].nodes \ {}) \cup {p}) <= K
      BY <2>3, <2>5, FullFacts
    <3> QED BY <1>1, <2>2, <2>3, <2>4, <2>5, <3>1, StoredKeeps
  <2>6. CASE buckets' = bs /\ UNCHANGED node
    BY <1>1, <2>3, <2>4, <2>6 DEF Inv
  <2> QED BY <2>2, <2>5, <2>6
<1> QED BY <1>2, <1>3, <1>4, <1>5

LEMMA InvNext == Inv /\ [Next]_tableVars => Inv'
<1> SUFFICES ASSUME Inv, [Next]_tableVars PROVE Inv'
  OBVIOUS
<1>1. ASSUME NEW p \in Peers, NEW c \in 0..2,
             AddKnown(p, c) \/ AddRoom(p, c) \/ AddReplace(p, c) \/ AddSplit(p, c)
      PROVE  Inv'
  BY <1>1, AddKeeps
<1>2. ASSUME NEW p \in Peers, RemoveNode(p) PROVE Inv'
  BY <1>2, WithoutKeeps DEF RemoveNode
<1>3. ASSUME NEW p \in Peers, Age(p) PROVE Inv'
  <2>1. PICK i \in DOMAIN buckets : p \in buckets[i].nodes
    BY <1>3 DEF Age, Held
  <2>2. node' \in [Peers -> NodeState] /\ node' = [node EXCEPT ![p].stale = TRUE]
    <3>1. [node[p] EXCEPT !.stale = TRUE] \in NodeState
      BY DEF Inv, NodeState
    <3> QED BY <1>3, <3>1 DEF Age, Inv
  <2>3. Cleared(buckets', node')
    <3> SUFFICES ASSUME NEW q \in Peers, \A j \in DOMAIN buckets : q \notin buckets[j].nodes
                 PROVE  node'[q] = Fresh
      BY <1>3 DEF Age, Cleared
    <3>1. q # p /\ node[q] = Fresh
      BY <2>1 DEF Inv, Cleared
    <3> QED BY <2>2, <3>1 DEF Inv
  <2> QED BY <1>3, <2>2, <2>3 DEF Age, Inv
<1>4. ASSUME Expire PROVE Inv'
  BY <1>4, WithoutKeeps DEF Expire
<1>5. CASE UNCHANGED tableVars
  BY <1>5 DEF tableVars, Inv
<1> QED BY <1>1, <1>2, <1>3, <1>4, <1>5 DEF Next


THEOREM InvHolds == Spec => []Inv
<1> QED BY InvInit, InvNext, PTL DEF Spec

\* The table keeps its limits, never holds our own identifier, and forgets
\* what it knew of a node with the node.
THEOREM RoutingTypes == Spec => []TableTypeOK
<1>1. Inv => TableTypeOK
  <2> SUFFICES ASSUME Inv PROVE TableTypeOK
    OBVIOUS
  <2> DEFINE B == [first : Ids, nodes : SUBSET (Peers \ {my_id})]
  <2>1. /\ buckets \in Seq(Bucket) /\ Len(buckets) >= 1 /\ Len(buckets) \in Nat
        /\ Len(buckets) <= MaxBuckets /\ Sized(buckets, my_id)
    BY DEF Inv, Sound
  <2>2. \A i \in DOMAIN buckets : buckets[i] \in B
    <3> SUFFICES ASSUME NEW i \in DOMAIN buckets PROVE buckets[i] \in B
      OBVIOUS
    <3>1. buckets[i] \in Bucket /\ my_id \notin buckets[i].nodes
      BY <2>1 DEF Sized
    <3> QED BY <3>1 DEF Bucket
  <2> HIDE DEF B
  <2>3. buckets \in Seq(B)
    BY <2>1, <2>2
  <2>4. \A p \in Peers \ Held : node[p] = Fresh
    BY DEF Inv, Cleared, Held
  <2>5. \A i \in DOMAIN buckets : Cardinality(buckets[i].nodes) <= K
    BY <2>1 DEF Sized
  <2>6. Len(buckets) \in 1..MaxBuckets
    BY <2>1, LimitsAssumption
  <2> QED BY <2>3, <2>4, <2>5, <2>6 DEF Inv, TableTypeOK, B
<1> QED BY <1>1, InvHolds, PTL

\* Every node is in the bucket in which find_bucket looks for it.
THEOREM RoutingReachable == Spec => []Reachable
<1>1. Inv => Reachable
  BY DEF Inv, Sound, Placed, Reachable
<1> QED BY <1>1, InvHolds, PTL

\* Every identifier is in the range of a bucket.
EveryIdHasABucket ==
    \A id \in Ids : \E i \in DOMAIN buckets : InRange(buckets, i, id)

\* add_node finds a bucket for every identifier, skewed splits or not.
THEOREM RoutingTotal == Spec => []EveryIdHasABucket
<1>1. Inv => EveryIdHasABucket
  <2> SUFFICES ASSUME Inv, NEW id \in Ids
               PROVE  \E i \in DOMAIN buckets : InRange(buckets, i, id)
    BY DEF EveryIdHasABucket
  <2>1. /\ buckets \in Seq(Bucket) /\ Tiled(buckets)
        /\ Len(buckets) >= 1 /\ Len(buckets) \in Nat
    BY DEF Inv, Sound
  <2> DEFINE n == Len(buckets)
  <2>2. n \in DOMAIN buckets
    BY <2>1
  <2>3. buckets[n].first \in Nat /\ id \in Nat
    BY <2>1, <2>2, BucketTypes, IdsAreNaturals
  <2>4. CASE id >= buckets[n].first
    <3>1. InRange(buckets, n, id)
      BY <2>1, <2>4 DEF InRange
    <3> QED BY <2>2, <3>1
  <2>5. CASE id < buckets[n].first
    <3>1. PICK j \in 1..(n - 1) : InRange(buckets, j, id)
      BY <2>1, <2>2, <2>5 DEF Tiled
    <3>2. j \in DOMAIN buckets
      BY <2>1
    <3> QED BY <3>1, <3>2
  <2> QED BY <2>3, <2>4, <2>5
<1> QED BY <1>1, InvHolds, PTL

-----------------------------------------------------------------------------
(* Who leaves the table.                                                   *)

LEMMA StoreHolds ==
    ASSUME NEW bs \in Seq(Bucket), NEW i \in DOMAIN bs, NEW p, NEW gone,
           NEW cs, StoreOf(cs, bs, i, p, gone), DOMAIN cs = DOMAIN bs,
           NEW k \in DOMAIN bs, NEW q \in bs[k].nodes, q \notin gone
    PROVE  \E j \in DOMAIN cs : q \in cs[j].nodes
<1>1. q \in cs[k].nodes
  BY DEF StoreOf
<1> QED BY <1>1

\* A node leaves only when it is bad, was not seen for too long, or is removed.
THEOREM RoutingOnlyTheLostLeave == Spec => OnlyTheLostLeave
<1> DEFINE Lost(p) == Bad(p) \/ node[p].stale \/ RemoveNode(p)
<1>1. ASSUME Inv, Next
      PROVE  \A p \in Held \ Held' : Lost(p)
  <2>1. /\ buckets \in Seq(Bucket) /\ Sound(buckets, my_id) /\ my_id \in MyIds
        /\ Len(buckets) <= MaxBuckets /\ Cleared(buckets, node)
        /\ node \in [Peers -> NodeState] /\ Sized(buckets, my_id)
    BY <1>1 DEF Inv, Sound
  <2> SUFFICES ASSUME NEW q, NEW k \in DOMAIN buckets, q \in buckets[k].nodes,
                      \A j \in DOMAIN buckets' : q \notin buckets'[j].nodes
               PROVE  Lost(q)
    BY DEF Held
  <2>2. buckets' # buckets
    OBVIOUS
  <2>3. ASSUME NEW p \in Peers, NEW c \in 0..2, AddRoom(p, c) PROVE FALSE
    <3>1. PICK i \in DOMAIN buckets :
             New(p, i) /\ ~Full(buckets, i) /\ Stored(buckets, i, p, c, {})
      BY <2>3 DEF AddRoom
    <3>2. buckets' \in Seq(Bucket) /\ StoreOf(buckets', buckets, i, p, {})
      BY <2>1, <3>1, StoreIs DEF Stored
    <3>3. DOMAIN buckets' = DOMAIN buckets
      BY <2>1, <3>2 DEF StoreOf
    <3> QED BY <2>1, <3>2, <3>3, StoreHolds
  <2>4. ASSUME NEW p \in Peers, NEW c \in 0..2, AddReplace(p, c) PROVE Bad(q)
    <3>1. PICK i \in DOMAIN buckets :
             \E b \in buckets[i].nodes : Bad(b) /\ Stored(buckets, i, p, c, {b})
      BY <2>4 DEF AddReplace
    <3>2. PICK b \in buckets[i].nodes : Bad(b) /\ Stored(buckets, i, p, c, {b})
      BY <3>1
    <3>3. buckets' \in Seq(Bucket) /\ StoreOf(buckets', buckets, i, p, {b})
      BY <2>1, <3>2, StoreIs DEF Stored
    <3>4. DOMAIN buckets' = DOMAIN buckets
      BY <2>1, <3>3 DEF StoreOf
    <3>5. q \in {b}
      BY <2>1, <3>3, <3>4, StoreHolds
    <3> QED BY <3>2, <3>5
  <2>5. ASSUME NEW p \in Peers, NEW c \in 0..2, AddSplit(p, c) PROVE FALSE
    <3>1. PICK i \in DOMAIN buckets, mid \in Ids :
             /\ Splits(p, i, mid)
             /\ LET bs == Split(buckets, i, mid)
                IN \E j \in DOMAIN bs :
                      /\ Finds(bs, j, p)
                      /\ \/ ~Full(bs, j) /\ Stored(bs, j, p, c, {})
                         \/ Full(bs, j) /\ buckets' = bs /\ UNCHANGED node
      BY <2>5 DEF AddSplit
    <3> DEFINE bs == Split(buckets, i, mid)
    <3>2. PICK j \in DOMAIN bs : Stored(bs, j, p, c, {}) \/ buckets' = bs
      BY <3>1
    <3>3. bs \in Seq(Bucket) /\ SplitOf(bs, buckets, i, mid)
      BY <1>1, <3>1, SplitsKeep
    <3> HIDE DEF bs
    <3>4. PICK h \in DOMAIN bs : q \in bs[h].nodes
      BY <2>1, <3>3, SplitHolds
    <3>5. CASE buckets' = bs
      BY <3>4, <3>5
    <3>6. CASE Stored(bs, j, p, c, {})
      <4>1. buckets' \in Seq(Bucket) /\ StoreOf(buckets', bs, j, p, {})
        BY <3>3, <3>6, StoreIs DEF Stored
      <4>2. DOMAIN buckets' = DOMAIN bs
        BY <3>3, <4>1 DEF StoreOf
      <4> QED BY <3>3, <3>4, <4>1, <4>2, StoreHolds
    <3> QED BY <3>2, <3>5, <3>6
  <2>6. ASSUME NEW gone, Without(gone), UNCHANGED my_id PROVE q \in gone
    <3>1. DropOf(buckets', buckets, gone) /\ buckets' \in Seq(Bucket)
      BY <1>1, <2>6, WithoutKeeps DEF Inv, Sound
    <3>2. DOMAIN buckets' = DOMAIN buckets
      BY <2>1, <3>1 DEF DropOf
    <3> QED BY <3>1, <3>2 DEF DropOf
  <2>7. ASSUME NEW p \in Peers, RemoveNode(p) PROVE Lost(q)
    <3>1. q \in {p}
      BY <2>6, <2>7 DEF RemoveNode
    <3> QED BY <2>7, <3>1
  <2>8. ASSUME Expire PROVE Lost(q)
    <3>1. q \in Expired
      BY <2>6, <2>8 DEF Expire
    <3> QED BY <3>1 DEF Expired
  <2>9. ASSUME NEW p \in Peers, NEW c \in 0..2, AddKnown(p, c) \/ Age(p) PROVE FALSE
    BY <2>2, <2>9 DEF AddKnown, Age
  <2>10. 0 \in 0..2
    OBVIOUS
  <2> QED BY <1>1, <2>3, <2>4, <2>5, <2>7, <2>8, <2>9, <2>10 DEF Next
<1>2. Inv /\ [Next]_tableVars => [\A p \in Held \ Held' : Lost(p)]_tableVars
  BY <1>1
<1> QED BY <1>2, InvHolds, PTL DEF Spec, OnlyTheLostLeave


-----------------------------------------------------------------------------
(* Order.  While our own identifier is in the lower half, the first split  *)
(* is at Half and the last bucket never splits again; the sum of the two   *)
(* ends of the range of a bucket below it has no carry to lose.            *)

InOrder(bs) ==
    /\ \A i \in DOMAIN bs : i < Len(bs) => bs[i].first < bs[i + 1].first
    /\ \A i \in DOMAIN bs : bs[i].first <= Half
    /\ Len(bs) > 1 => bs[Len(bs)].first = Half

OrderInv == my_id < Half => InOrder(buckets)

LEMMA InOrderKept ==
    ASSUME NEW bs \in Seq(Bucket), NEW cs \in Seq(Bucket), SameRanges(bs, cs), InOrder(bs)
    PROVE  InOrder(cs)
<1>1. /\ Len(cs) = Len(bs) /\ Len(bs) \in Nat /\ DOMAIN bs = 1..Len(bs)
      /\ DOMAIN cs = 1..Len(bs)
      /\ \A i \in 1..Len(bs) : cs[i].first = bs[i].first
  BY DEF SameRanges
<1>2. ASSUME NEW i \in DOMAIN cs, i < Len(cs)
      PROVE  cs[i].first < cs[i + 1].first
  <2>1. i \in DOMAIN bs /\ i + 1 \in 1..Len(bs) /\ i < Len(bs)
    BY <1>1, <1>2
  <2> QED BY <1>1, <2>1 DEF InOrder
<1>3. \A i \in DOMAIN cs : cs[i].first <= Half
  BY <1>1 DEF InOrder
<1>4. Len(cs) > 1 => cs[Len(cs)].first = Half
  <2>1. Len(cs) > 1 => Len(bs) \in 1..Len(bs)
    BY <1>1
  <2> QED BY <1>1, <2>1 DEF InOrder
<1> QED BY <1>2, <1>3, <1>4 DEF InOrder

\* The middle of a full bucket that holds m, below Half, is inside its range.
LEMMA MiddleInside ==
    ASSUME NEW m \in Ids, m < Half, NEW bs, Sound(bs, m), InOrder(bs),
           NEW i \in DOMAIN bs, NEW mid \in Ids,
           InRange(bs, i, m), Middle(bs, i, mid), bs[i].nodes # {}
    PROVE  /\ bs[i].first < mid /\ mid <= Half
           /\ i < Len(bs) => mid < bs[i + 1].first
           /\ i = Len(bs) => Len(bs) = 1 /\ mid = Half
<1>1. /\ bs \in Seq(Bucket) /\ Len(bs) \in Nat /\ Tiled(bs) /\ Placed(bs)
      /\ Sized(bs, m) /\ i \in 1..Len(bs) /\ Len(bs) >= 1
  BY BucketTypes DEF Sound
<1> DEFINE a == bs[i].first
<1>2. a \in Nat /\ m \in Nat /\ Half \in Nat \ {0} /\ mid \in Nat /\ a <= m
  BY <1>1, BucketTypes, IdsAreNaturals DEF InRange
<1>3. CASE i < Len(bs)
  <2> DEFINE b == bs[i + 1].first
  <2>1. i + 1 \in DOMAIN bs
    BY <1>1, <1>3
  <2>2. b \in Nat /\ b <= Half /\ a < b /\ m < b
    BY <1>1, <1>3, <2>1, BucketTypes DEF InOrder, InRange
  <2>3. PICK p \in bs[i].nodes : TRUE
    OBVIOUS
  <2>4. p \in Nat /\ a <= p /\ p < b /\ p # m
    <3>1. p \in Ids
      BY <1>1, BucketTypes, PeersAssumption
    <3>2. InRange(bs, i, p) /\ m \notin bs[i].nodes
      BY <1>1 DEF Placed, Finds, Sized
    <3>3. p # m
      BY <3>2
    <3> QED BY <1>2, <1>3, <2>2, <3>1, <3>2, <3>3, IdsAreNaturals DEF InRange
  <2>5. mid = ((a + b) % (2 * Half)) \div 2
    BY <1>3 DEF Middle
  <2> HIDE DEF a, b
  <2>6. (a + b) % (2 * Half) = a + b
    <3> DEFINE s == a + b
               d == 2 * Half
    <3>1. s \in Nat /\ d \in Nat \ {0} /\ s < d
      BY <1>2, <2>2
    <3> HIDE DEF s, d
    <3>2. s % d = s
      BY <3>1
    <3> QED BY <3>2 DEF s, d
  <2>7. mid = (a + b) \div 2
    BY <2>5, <2>6
  <2>8. a + 2 <= b
    BY <1>2, <2>2, <2>4
  <2>9. a < mid /\ mid < b
    BY <1>2, <2>2, <2>7, <2>8
  <2> QED BY <1>2, <1>3, <2>2, <2>9 DEF a, b
<1>4. CASE i = Len(bs)
  <2>1. Len(bs) = 1
    <3>1. Len(bs) \in Nat /\ Len(bs) >= 1
      BY <1>1
    <3>2. Len(bs) = 1 \/ Len(bs) > 1
      BY <3>1
    <3>3. Len(bs) > 1 => a = Half
      BY <1>4 DEF InOrder
    <3> QED BY <1>2, <3>2, <3>3
  <2>2. a = 0
    <3>1. 0 \in Ids /\ i = 1
      BY <1>4, <2>1, IdsAreNaturals
    <3>2. ~(0 < a)
      BY <1>1, <3>1 DEF Tiled
    <3> QED BY <1>2, <3>2
  <2>3. PICK w \in Unset(a) : (\A v \in Unset(a) : v <= w) /\ mid = a - (a % w) + w
    BY <1>1, <1>4 DEF Middle
  <2>4. w \in Weights /\ w \in Nat \ {0} /\ w <= Half
    BY WeightsAssumption DEF Unset
  <2>5. Half \in Unset(a)
    <3>1. (0 \div Half) % 2 = 0
      BY <1>2
    <3> QED BY <2>2, <3>1, WeightsAssumption DEF Unset
  <2>6. w = Half
    BY <1>2, <2>3, <2>4, <2>5
  <2>7. 0 % Half = 0
    BY <1>2
  <2>8. mid = Half
    BY <1>2, <2>2, <2>3, <2>6, <2>7
  <2> QED BY <1>2, <1>4, <2>1, <2>2, <2>8
<1> QED BY <1>1, <1>3, <1>4

LEMMA SplitInOrder ==
    ASSUME NEW bs \in Seq(Bucket), InOrder(bs), NEW i \in DOMAIN bs, NEW mid \in Ids,
           bs[i].first < mid, mid <= Half,
           i < Len(bs) => mid < bs[i + 1].first,
           i = Len(bs) => Len(bs) = 1 /\ mid = Half,
           NEW cs \in Seq(Bucket), SplitOf(cs, bs, i, mid)
    PROVE  InOrder(cs)
<1>1. /\ i \in 1..Len(bs) /\ Len(bs) \in Nat /\ Len(cs) = Len(bs) + 1
      /\ DOMAIN bs = 1..Len(bs) /\ DOMAIN cs = 1..(Len(bs) + 1)
  BY BucketTypes DEF SplitOf
<1>2. /\ cs[i].first = bs[i].first /\ cs[i + 1].first = mid
      /\ \A j \in 1..(i - 1) : cs[j].first = bs[j].first
      /\ \A j \in (i + 2)..Len(cs) : cs[j].first = bs[j - 1].first
  BY DEF SplitOf
<1>3. \A j \in DOMAIN cs : j \in 1..(i - 1) \/ j = i \/ j = i + 1 \/ j \in (i + 2)..Len(cs)
  BY <1>1
<1>4. ASSUME NEW j \in DOMAIN cs PROVE cs[j].first <= Half
  <2>1. CASE j \in 1..i
    <3>1. cs[j].first = bs[j].first /\ j \in DOMAIN bs
      BY <1>1, <1>2, <2>1
    <3> QED BY <3>1 DEF InOrder
  <2>2. CASE j = i + 1
    BY <1>2, <2>2
  <2>3. CASE j \in (i + 2)..Len(cs)
    <3>1. cs[j].first = bs[j - 1].first /\ j - 1 \in DOMAIN bs
      BY <1>1, <1>2, <2>3
    <3> QED BY <3>1 DEF InOrder
  <2> QED BY <1>1, <1>3, <2>1, <2>2, <2>3
<1>5. ASSUME NEW j \in DOMAIN cs, j < Len(cs)
      PROVE  cs[j].first < cs[j + 1].first
  <2>1. CASE j \in 1..(i - 1)
    <3>1. cs[j + 1].first = bs[j + 1].first
      <4>1. j + 1 \in 1..(i - 1) \/ j + 1 = i
        BY <1>1, <2>1
      <4> QED BY <1>2, <4>1
    <3>2. j \in DOMAIN bs /\ j < Len(bs)
      BY <1>1, <2>1
    <3> QED BY <1>2, <2>1, <3>1, <3>2 DEF InOrder
  <2>2. CASE j = i
    BY <1>2, <2>2
  <2>3. CASE j = i + 1
    <3>1. i < Len(bs) /\ j + 1 \in (i + 2)..Len(cs) /\ (j + 1) - 1 = i + 1
      BY <1>1, <1>5, <2>3
    <3>2. cs[j + 1].first = bs[i + 1].first
      BY <1>2, <3>1
    <3> QED BY <1>2, <2>3, <3>1, <3>2
  <2>4. CASE j \in (i + 2)..Len(cs)
    <3>1. j + 1 \in (i + 2)..Len(cs) /\ (j + 1) - 1 = (j - 1) + 1
          /\ j - 1 \in DOMAIN bs /\ j - 1 < Len(bs)
      BY <1>1, <1>5, <2>4
    <3>2. cs[j].first = bs[j - 1].first /\ cs[j + 1].first = bs[(j - 1) + 1].first
      BY <1>2, <2>4, <3>1
    <3> QED BY <3>1, <3>2 DEF InOrder
  <2> QED BY <1>3, <2>1, <2>2, <2>3, <2>4
<1>6. cs[Len(cs)].first = Half
  <2>1. CASE i = Len(bs)
    <3>1. Len(cs) = i + 1
      BY <1>1, <2>1
    <3> QED BY <1>2, <2>1, <3>1
  <2>2. CASE i < Len(bs)
    <3>1. Len(cs) \in (i + 2)..Len(cs) /\ Len(cs) - 1 = Len(bs) /\ Len(bs) > 1
      BY <1>1, <2>2
    <3> QED BY <1>2, <3>1 DEF InOrder
  <2> QED BY <1>1, <2>1, <2>2
<1> QED BY <1>4, <1>5, <1>6 DEF InOrder

LEMMA OrderInit == Init => OrderInv
<1> SUFFICES ASSUME Init PROVE InOrder(buckets)
  BY DEF OrderInv
<1>1. Len(buckets) = 1 /\ DOMAIN buckets = {1} /\ buckets[1].first = 0
  BY DEF Init
<1> QED BY <1>1, IdsAreNaturals DEF InOrder

LEMMA OrderNext == Inv /\ OrderInv /\ [Next]_tableVars => OrderInv'
<1> SUFFICES ASSUME Inv, OrderInv, [Next]_tableVars
             PROVE  OrderInv'
  OBVIOUS
<1> SUFFICES ASSUME my_id < Half
             PROVE  InOrder(buckets')
  <2>1. UNCHANGED my_id
    <3>1. \A p, c : AddKnown(p, c) \/ AddRoom(p, c) \/ AddReplace(p, c) => UNCHANGED my_id
      BY DEF AddKnown, AddRoom, AddReplace
    <3>2. \A p, c : AddSplit(p, c) => UNCHANGED my_id
      BY DEF AddSplit
    <3>3. \A p : RemoveNode(p) \/ Age(p) \/ Expire => UNCHANGED my_id
      BY DEF RemoveNode, Age, Expire
    <3>4. UNCHANGED tableVars => UNCHANGED my_id
      BY DEF tableVars
    <3> QED BY <3>1, <3>2, <3>3, <3>4 DEF Next
  <2> QED BY <2>1 DEF OrderInv
<1>1. /\ buckets \in Seq(Bucket) /\ Sound(buckets, my_id) /\ my_id \in Ids
      /\ InOrder(buckets)
  BY PeersAssumption DEF Inv, Sound, OrderInv
<1>2. ASSUME NEW bs \in Seq(Bucket), InOrder(bs), NEW i \in DOMAIN bs, NEW p \in Peers,
             NEW c, NEW gone, Stored(bs, i, p, c, gone)
      PROVE  InOrder(buckets')
  <2>1. buckets' \in Seq(Bucket) /\ StoreOf(buckets', bs, i, p, gone)
    BY <1>2, StoreIs DEF Stored
  <2>2. SameRanges(bs, buckets')
    BY <2>1 DEF StoreOf, SameRanges
  <2> QED BY <1>2, <2>1, <2>2, InOrderKept
<1>3. ASSUME NEW gone, Without(gone) PROVE InOrder(buckets')
  <2>1. buckets' \in Seq(Bucket) /\ DropOf(buckets', buckets, gone)
    BY <1>1, <1>3, DropIs DEF Without
  <2>2. SameRanges(buckets, buckets')
    BY <2>1 DEF DropOf, SameRanges
  <2> QED BY <1>1, <2>1, <2>2, InOrderKept
<1>4. ASSUME NEW p \in Peers, NEW c \in 0..2, AddSplit(p, c) PROVE InOrder(buckets')
  <2>1. PICK i \in DOMAIN buckets, mid \in Ids :
           /\ Splits(p, i, mid)
           /\ LET bs == Split(buckets, i, mid)
              IN \E j \in DOMAIN bs :
                    /\ Finds(bs, j, p)
                    /\ \/ ~Full(bs, j) /\ Stored(bs, j, p, c, {})
                       \/ Full(bs, j) /\ buckets' = bs /\ UNCHANGED node
    BY <1>4 DEF AddSplit
  <2> DEFINE bs == Split(buckets, i, mid)
  <2>2. PICK j \in DOMAIN bs : Stored(bs, j, p, c, {}) \/ buckets' = bs
    BY <2>1
  <2>3. bs \in Seq(Bucket) /\ SplitOf(bs, buckets, i, mid)
    BY <2>1, SplitsKeep
  <2> HIDE DEF bs
  <2>4. InRange(buckets, i, my_id) /\ Middle(buckets, i, mid) /\ buckets[i].nodes # {}
    BY <1>1, <2>1, FullFacts DEF Splits
  <2>5. /\ buckets[i].first < mid /\ mid <= Half
        /\ i < Len(buckets) => mid < buckets[i + 1].first
        /\ i = Len(buckets) => Len(buckets) = 1 /\ mid = Half
    BY <1>1, <2>4, MiddleInside
  <2>6. InOrder(bs)
    BY <1>1, <2>3, <2>5, SplitInOrder
  <2> QED BY <1>2, <2>2, <2>3, <2>6
<1>5. ASSUME NEW p \in Peers, NEW c \in 0..2, AddRoom(p, c) \/ AddReplace(p, c)
      PROVE  InOrder(buckets')
  BY <1>1, <1>2, <1>5 DEF AddRoom, AddReplace
<1>6. ASSUME NEW p \in Peers, RemoveNode(p) \/ Expire PROVE InOrder(buckets')
  BY <1>3, <1>6 DEF RemoveNode, Expire
<1>7. ASSUME UNCHANGED buckets PROVE InOrder(buckets')
  BY <1>1, <1>7
<1>8. ASSUME Expire PROVE InOrder(buckets')
  BY <1>3, <1>8 DEF Expire
<1>9. ASSUME NEW p \in Peers, NEW c \in 0..2, AddKnown(p, c) \/ Age(p)
      PROVE  InOrder(buckets')
  BY <1>7, <1>9 DEF AddKnown, Age
<1>10. 0 \in 0..2
  OBVIOUS
<1>11. UNCHANGED tableVars => InOrder(buckets')
  BY <1>7 DEF tableVars
<1> QED BY <1>4, <1>5, <1>6, <1>8, <1>9, <1>10, <1>11 DEF Next

\* With our own identifier in the lower half, the ranges stay in ascending
\* order: no carry is lost, and a range of one identifier is never split.
THEOREM RoutingLowerHalfOrdered == Spec => []LowerHalfOrdered
<1>1. OrderInv => LowerHalfOrdered
  BY DEF OrderInv, InOrder, LowerHalfOrdered, NextIsHigher
<1> QED BY <1>1, InvHolds, OrderInit, OrderNext, PTL DEF Spec
=============================================================================
