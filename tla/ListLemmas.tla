----------------------------- MODULE ListLemmas -----------------------------
(***************************************************************************)
(* Insertion into and removal from a list: where the elements go, which    *)
(* they are, and whether they stay distinct.  For the proofs about         *)
(* wingo_list and the arrays that are kept like one.                       *)
(***************************************************************************)
EXTENDS Integers, Sequences, SequencesExt, FiniteSetTheorems, WellFoundedInduction, TLAPS

\* What InsertAt(s, i, e) holds at each place.
LEMMA InsertAtFacts ==
    ASSUME NEW S, NEW s \in Seq(S), NEW i \in 1..(Len(s) + 1), NEW e \in S
    PROVE  /\ InsertAt(s, i, e) \in Seq(S)
           /\ Len(InsertAt(s, i, e)) = Len(s) + 1
           /\ \A j \in 1..(Len(s) + 1) :
                InsertAt(s, i, e)[j] = IF j < i THEN s[j]
                                       ELSE IF j = i THEN e ELSE s[j - 1]
<1> DEFINE a == SubSeq(s, 1, i - 1)
           b == SubSeq(s, i, Len(s))
<1>1. i - 1 \in 0..Len(s) /\ Len(s) \in Nat
  OBVIOUS
<1>2. /\ a \in Seq(S) /\ Len(a) = i - 1
      /\ \A j \in 1..(i - 1) : a[j] = s[j]
  BY <1>1
<1>3. /\ b \in Seq(S) /\ Len(b) = Len(s) - i + 1
      /\ \A j \in 1..(Len(s) - i + 1) : b[j] = s[i + j - 1]
  BY <1>1
<1> HIDE DEF a, b
<1>4. /\ a \o <<e>> \in Seq(S) /\ Len(a \o <<e>>) = i
      /\ \A j \in 1..i : (a \o <<e>>)[j] = IF j < i THEN s[j] ELSE e
  BY <1>1, <1>2
<1> DEFINE c == a \o <<e>>
<1> HIDE DEF c
<1>5. /\ c \in Seq(S) /\ Len(c) = i
      /\ \A j \in 1..i : c[j] = IF j < i THEN s[j] ELSE e
  BY <1>4 DEF c
<1>6. InsertAt(s, i, e) = c \o b
  BY DEF InsertAt, a, b, c
<1>7. c \o b \in Seq(S) /\ Len(c \o b) = Len(s) + 1
  BY <1>3, <1>5, <1>1
<1>8. ASSUME NEW j \in 1..(Len(s) + 1)
      PROVE  (c \o b)[j] = IF j < i THEN s[j] ELSE IF j = i THEN e ELSE s[j - 1]
  <2>0. i \in Nat /\ j \in Nat
    BY <1>1
  <2>1. CASE j <= i
    BY <2>1, <1>3, <1>5, <1>1
  <2>2. CASE j > i
    <3>1. (c \o b)[j] = b[j - i]
      BY <2>2, <1>3, <1>5, <1>1
    <3>2. j - i \in 1..(Len(s) - i + 1) /\ i + (j - i) - 1 = j - 1
      BY <2>2, <1>1
    <3>3. b[j - i] = s[j - 1]
      BY <3>2, <1>3
    <3> QED BY <3>1, <3>3, <2>2
  <2>3. j <= i \/ j > i
    BY <2>0
  <2> QED BY <2>1, <2>2, <2>3
<1> QED BY <1>6, <1>7, <1>8

\* What RemoveAt(s, i) holds at each place.
LEMMA RemoveAtFacts ==
    ASSUME NEW S, NEW s \in Seq(S), NEW i \in 1..Len(s)
    PROVE  /\ RemoveAt(s, i) \in Seq(S)
           /\ Len(RemoveAt(s, i)) = Len(s) - 1
           /\ \A j \in 1..(Len(s) - 1) :
                RemoveAt(s, i)[j] = IF j < i THEN s[j] ELSE s[j + 1]
<1> DEFINE a == SubSeq(s, 1, i - 1)
           b == SubSeq(s, i + 1, Len(s))
<1>1. i - 1 \in 0..Len(s) /\ Len(s) \in Nat
  OBVIOUS
<1>2. /\ a \in Seq(S) /\ Len(a) = i - 1
      /\ \A j \in 1..(i - 1) : a[j] = s[j]
  BY <1>1
<1>3. /\ b \in Seq(S) /\ Len(b) = Len(s) - i
      /\ \A j \in 1..(Len(s) - i) : b[j] = s[i + j]
  BY <1>1
<1> HIDE DEF a, b
<1>6. RemoveAt(s, i) = a \o b
  BY DEF RemoveAt, a, b
<1>4. a \in Seq(S) /\ b \in Seq(S)
  BY <1>2, <1>3
<1>5. a \o b \in Seq(S) /\ Len(a \o b) = Len(a) + Len(b)
  BY <1>4
<1>7. a \o b \in Seq(S) /\ Len(a \o b) = Len(s) - 1
  BY <1>5, <1>2, <1>3, <1>1
<1>8. ASSUME NEW j \in 1..(Len(s) - 1)
      PROVE  (a \o b)[j] = IF j < i THEN s[j] ELSE s[j + 1]
  <2>0. i \in Nat /\ j \in Nat
    BY <1>1
  <2>1. CASE j < i
    BY <2>1, <1>2, <1>3, <1>1
  <2>2. CASE j >= i
    <3>1. (a \o b)[j] = b[j - i + 1]
      BY <2>2, <1>2, <1>3, <1>1
    <3>2. j - i + 1 \in 1..(Len(s) - i) /\ i + (j - i + 1) = j + 1
      BY <2>2, <1>1
    <3>3. b[j - i + 1] = s[j + 1]
      BY <3>2, <1>3
    <3> QED BY <3>1, <3>3, <2>2
  <2>3. j < i \/ j >= i
    BY <2>0
  <2> QED BY <2>1, <2>2, <2>3
<1> QED BY <1>6, <1>7, <1>8

Distinct(s) == \A i, j \in DOMAIN s : s[i] = s[j] => i = j

\* Those facts about a list t, under a name.
Inserted(t, s, i, e) ==
    /\ Len(t) = Len(s) + 1
    /\ \A j \in 1..(Len(s) + 1) :
         t[j] = IF j < i THEN s[j] ELSE IF j = i THEN e ELSE s[j - 1]

LEMMA InsertAtInserted ==
    ASSUME NEW S, NEW s \in Seq(S), NEW i \in 1..(Len(s) + 1), NEW e \in S
    PROVE  InsertAt(s, i, e) \in Seq(S) /\ Inserted(InsertAt(s, i, e), s, i, e)
<1>1. s \in Seq(S) /\ i \in 1..(Len(s) + 1) /\ e \in S
  OBVIOUS
<1> QED BY <1>1, InsertAtFacts DEF Inserted

LEMMA InsertSet ==
    ASSUME NEW S, NEW s \in Seq(S), NEW i \in 1..(Len(s) + 1), NEW e \in S
    PROVE  /\ \A x : Contains(InsertAt(s, i, e), x) <=> x = e \/ Contains(s, x)
           /\ Distinct(s) /\ ~Contains(s, e) => Distinct(InsertAt(s, i, e))
<1> DEFINE t == InsertAt(s, i, e)
<1>a. Len(s) \in Nat
  OBVIOUS
<1>b. /\ t \in Seq(S) /\ Len(t) = Len(s) + 1
      /\ \A j \in 1..(Len(s) + 1) :
           t[j] = IF j < i THEN s[j] ELSE IF j = i THEN e ELSE s[j - 1]
  <2>1. s \in Seq(S) /\ i \in 1..(Len(s) + 1) /\ e \in S
    OBVIOUS
  <2> QED BY <2>1, InsertAtFacts
<1> HIDE DEF t
<1>1. /\ t \in Seq(S) /\ Len(t) = Len(s) + 1 /\ Len(s) \in Nat
      /\ \A j \in 1..(Len(s) + 1) :
           t[j] = IF j < i THEN s[j] ELSE IF j = i THEN e ELSE s[j - 1]
  BY <1>a, <1>b
<1>2. ASSUME NEW x, Contains(t, x)
      PROVE  x = e \/ Contains(s, x)
  <2>1. PICK j \in 1..Len(t) : t[j] = x
    BY <1>2 DEF Contains
  <2>2. CASE j < i
    BY <1>1, <2>1, <2>2 DEF Contains
  <2>3. CASE j = i
    BY <1>1, <2>1, <2>3
  <2>4. CASE j > i
    <3>1. j - 1 \in 1..Len(s) /\ s[j - 1] = x
      BY <1>1, <2>1, <2>4
    <3> QED BY <3>1 DEF Contains
  <2>5. i \in Nat /\ j \in Nat
    BY <1>1, <2>1
  <2> QED BY <2>2, <2>3, <2>4, <2>5
<1>3. Contains(t, e)
  <2>1. i \in 1..Len(t) /\ t[i] = e
    BY <1>1
  <2> QED BY <2>1 DEF Contains
<1>4. ASSUME NEW x, Contains(s, x)
      PROVE  Contains(t, x)
  <2>1. PICK j \in 1..Len(s) : s[j] = x
    BY <1>4 DEF Contains
  <2>2. CASE j < i
    <3>1. j \in 1..Len(t) /\ t[j] = x
      BY <1>1, <2>1, <2>2
    <3> QED BY <3>1 DEF Contains
  <2>3. CASE j >= i
    <3>1. j + 1 \in 1..(Len(s) + 1) /\ ~(j + 1 < i) /\ j + 1 # i /\ j + 1 - 1 = j
      BY <1>1, <2>1, <2>3
    <3>2. t[j + 1] = s[j]
      BY <1>1, <3>1
    <3>3. j + 1 \in 1..Len(t) /\ t[j + 1] = x
      BY <1>1, <2>1, <3>1, <3>2
    <3> QED BY <3>3 DEF Contains
  <2>4. i \in Nat /\ j \in Nat
    BY <1>1, <2>1
  <2> QED BY <2>2, <2>3, <2>4
<1>5. ASSUME Distinct(s), ~Contains(s, e)
      PROVE  Distinct(t)
  <2> SUFFICES ASSUME NEW j \in 1..(Len(s) + 1), NEW k \in 1..(Len(s) + 1),
                      t[j] = t[k], j < k
               PROVE  FALSE
    BY <1>1 DEF Distinct
  <2>1. \A m \in 1..Len(s) : s[m] # e
    BY <1>5 DEF Contains
  <2>2. \A m, n \in 1..Len(s) : s[m] = s[n] => m = n
    BY <1>5, <1>1 DEF Distinct
  <2>3. CASE k <= i
    <3>1. t[j] = s[j] /\ j \in 1..Len(s)
      BY <2>3, <1>1
    <3>2. t[k] = IF k < i THEN s[k] ELSE e
      BY <2>3, <1>1
    <3>3. CASE k < i
      <4>1. t[k] = s[k] /\ k \in 1..Len(s) /\ j # k
        BY <3>3, <3>2, <1>1
      <4> QED BY <4>1, <3>1, <2>2
    <3>4. CASE k = i
      <4>1. t[k] = e
        BY <3>4, <1>1
      <4> QED BY <4>1, <3>1, <2>1
    <3>5. i \in Nat /\ k \in Nat
      BY <1>1
    <3> QED BY <3>3, <3>4, <3>5, <2>3
  <2>4. CASE k > i
    <3>1. t[k] = s[k - 1] /\ k - 1 \in 1..Len(s)
      BY <2>4, <1>1
    <3>2. CASE j < i
      <4>1. t[j] = s[j] /\ j \in 1..Len(s) /\ j # k - 1
        BY <3>2, <2>4, <1>1
      <4> QED BY <4>1, <3>1, <2>2
    <3>3. CASE j = i
      BY <3>3, <3>1, <2>1, <1>1
    <3>4. CASE j > i
      <4>1. t[j] = s[j - 1] /\ j - 1 \in 1..Len(s) /\ j - 1 # k - 1
        BY <3>4, <1>1
      <4> QED BY <4>1, <3>1, <2>2
    <3>5. i \in Nat /\ j \in Nat
      BY <1>1
    <3> QED BY <3>2, <3>3, <3>4, <3>5
  <2>5. i \in Nat /\ k \in Nat
    BY <1>1
  <2> QED BY <2>3, <2>4, <2>5
<1> QED BY <1>2, <1>3, <1>4, <1>5 DEF t

LEMMA RemoveSet ==
    ASSUME NEW S, NEW s \in Seq(S), NEW i \in 1..Len(s), Distinct(s)
    PROVE  /\ \A x : Contains(RemoveAt(s, i), x) <=> Contains(s, x) /\ x # s[i]
           /\ Distinct(RemoveAt(s, i))
<1> DEFINE t == RemoveAt(s, i)
<1>1. /\ t \in Seq(S) /\ Len(t) = Len(s) - 1 /\ Len(s) \in Nat
      /\ \A j \in 1..(Len(s) - 1) : t[j] = IF j < i THEN s[j] ELSE s[j + 1]
  BY RemoveAtFacts
<1>2. \A m, n \in 1..Len(s) : s[m] = s[n] => m = n
  BY <1>1 DEF Distinct
<1> HIDE DEF t
<1>3. ASSUME NEW x, Contains(t, x)
      PROVE  Contains(s, x) /\ x # s[i]
  <2>1. PICK j \in 1..Len(t) : t[j] = x
    BY <1>3 DEF Contains
  <2>2. PICK k \in 1..Len(s) : s[k] = x /\ k # i
    <3>1. CASE j < i
      BY <1>1, <2>1, <3>1
    <3>2. CASE j >= i
      <4>1. j + 1 \in 1..Len(s) /\ s[j + 1] = x /\ j + 1 # i
        BY <1>1, <2>1, <3>2
      <4> QED BY <4>1
    <3>3. i \in Nat /\ j \in Nat
      BY <1>1, <2>1
    <3> QED BY <3>1, <3>2, <3>3
  <2> QED BY <2>2, <1>2 DEF Contains
<1>4. ASSUME NEW x, Contains(s, x), x # s[i]
      PROVE  Contains(t, x)
  <2>1. PICK j \in 1..Len(s) : s[j] = x
    BY <1>4 DEF Contains
  <2>2. CASE j < i
    <3>1. j \in 1..Len(t) /\ t[j] = x
      BY <1>1, <2>1, <2>2
    <3> QED BY <3>1 DEF Contains
  <2>3. CASE j > i
    <3>1. j - 1 \in 1..(Len(s) - 1) /\ ~(j - 1 < i) /\ j - 1 + 1 = j
      BY <1>1, <2>1, <2>3
    <3>2. t[j - 1] = s[j]
      BY <1>1, <3>1
    <3>3. j - 1 \in 1..Len(t) /\ t[j - 1] = x
      BY <1>1, <2>1, <3>1, <3>2
    <3> QED BY <3>3 DEF Contains
  <2>4. i \in Nat /\ j \in Nat /\ j # i
    BY <1>1, <1>4, <2>1
  <2> QED BY <2>2, <2>3, <2>4
<1>5. Distinct(t)
  <2> SUFFICES ASSUME NEW j \in 1..(Len(s) - 1), NEW k \in 1..(Len(s) - 1),
                      t[j] = t[k], j < k
               PROVE  FALSE
    BY <1>1 DEF Distinct
  <2> DEFINE p(m) == IF m < i THEN m ELSE m + 1
  <2>1. p(j) \in 1..Len(s) /\ p(k) \in 1..Len(s) /\ p(j) # p(k)
    BY <1>1
  <2>2. t[j] = s[p(j)] /\ t[k] = s[p(k)]
    BY <1>1
  <2> QED BY <2>1, <2>2, <1>2
<1> QED BY <1>3, <1>4, <1>5 DEF t

LEMMA AppendSet ==
    ASSUME NEW S, NEW s \in Seq(S), NEW e \in S
    PROVE  /\ \A x : Contains(Append(s, e), x) <=> x = e \/ Contains(s, x)
           /\ Distinct(s) /\ ~Contains(s, e) => Distinct(Append(s, e))
<1>1. /\ Len(Append(s, e)) = Len(s) + 1 /\ Len(s) \in Nat
      /\ \A j \in 1..(Len(s) + 1) :
           Append(s, e)[j] = IF j <= Len(s) THEN s[j] ELSE e
      /\ Append(s, e) \in Seq(S)
  OBVIOUS
<1> DEFINE t == Append(s, e)
<1> HIDE DEF t
<1>2. /\ Len(t) = Len(s) + 1 /\ Len(s) \in Nat /\ t \in Seq(S)
      /\ \A j \in 1..(Len(s) + 1) : t[j] = IF j <= Len(s) THEN s[j] ELSE e
  BY <1>1 DEF t
<1>3. ASSUME NEW x
      PROVE  Contains(t, x) <=> x = e \/ Contains(s, x)
  BY <1>2 DEF Contains
<1>4. ASSUME Distinct(s), ~Contains(s, e)
      PROVE  Distinct(t)
  BY <1>2, <1>4 DEF Contains, Distinct
<1> QED BY <1>3, <1>4 DEF t

-----------------------------------------------------------------------------
(* Numbers and sequences.                                                  *)

\* A set of numbers that is not empty has a least one.
LEMMA LeastOf ==
    ASSUME NEW T \in SUBSET Nat, T # {}
    PROVE  \E n \in T : \A k \in T : n <= k
<1> DEFINE R == OpToRel(<, Nat)
<1>1. IsWellFoundedOn(R, Nat)
  BY NatLessThanWellFounded
<1>2. \A x, y \in Nat : x < y => <<x, y>> \in R
  BY DEF OpToRel
<1> HIDE DEF R
<1>3. PICK n \in T : \A k \in T : ~(<<k, n>> \in R)
  BY <1>1, WFMin
<1>4. \A k \in T : ~(k < n)
  BY <1>2, <1>3
<1> QED BY <1>4

\* The places of a ring of m, from any place on.
LEMMA Wrapped ==
    ASSUME NEW m \in Nat \ {0}, NEW x \in 0..(2 * m - 1)
    PROVE  x % m = IF x < m THEN x ELSE x - m
<1>1. CASE x < m
  BY <1>1
<1>2. CASE x >= m
  BY <1>2
<1> QED BY <1>1, <1>2

LEMMA SameSeq ==
    ASSUME NEW S, NEW s \in Seq(S), NEW t \in Seq(S), Len(s) = Len(t),
           \A i \in 1..Len(s) : s[i] = t[i]
    PROVE  s = t
OBVIOUS

LEMMA InSeq == ASSUME NEW S, NEW s \in Seq(S) PROVE \A i \in 1..Len(s) : s[i] \in S
OBVIOUS

\* A sequence is one over any set that has its elements.
LEMMA SeqOver ==
    ASSUME NEW S, NEW T, NEW s \in Seq(S), \A i \in 1..Len(s) : s[i] \in T
    PROVE  s \in Seq(T)
OBVIOUS

\* Two sequences, one after the other.
LEMMA ConcatFacts ==
    ASSUME NEW S, NEW s \in Seq(S), NEW t \in Seq(S)
    PROVE  /\ s \o t \in Seq(S) /\ Len(s \o t) = Len(s) + Len(t)
           /\ Len(s) \in Nat /\ Len(t) \in Nat
           /\ \A i \in 1..(Len(s) + Len(t)) :
                 (s \o t)[i] = IF i <= Len(s) THEN s[i] ELSE t[i - Len(s)]
OBVIOUS

-----------------------------------------------------------------------------
(* Chains of nodes, and rings.                                             *)

\* While not all of m nodes are in use there is a free one.
LEMMA FreeNode ==
    ASSUME NEW m \in Nat, NEW c \in Nat, c < m, NEW s \in [1..c -> 1..m]
    PROVE  \E n \in 1..m : \A i \in 1..c : s[i] # n
<1> SUFFICES ASSUME \A n \in 1..m : \E i \in 1..c : s[i] = n PROVE FALSE
  OBVIOUS
<1>1. ExistsSurjection(1..c, 1..m)
  BY DEF ExistsSurjection, Surjection
<1>2. Cardinality(1..m) <= c
  BY <1>1, FS_SurjCardinalityBound
<1>3. Cardinality(1..m) = m
  BY FS_Interval
<1> QED BY <1>2, <1>3

\* The pointers from head on determine the chain.
Follows(s, c, nx) == \A i \in 1..c : i # c => s[i + 1] = nx[s[i]]

LEMMA SameChain ==
    ASSUME NEW S, NEW c \in Nat, NEW s \in [1..c -> S], NEW t \in [1..c -> S], NEW nx,
           c # 0 => s[1] = t[1],
           Follows(s, c, nx), Follows(t, c, nx)
    PROVE  s = t
<1> DEFINE T == {i \in 1..c : s[i] # t[i]}
<1>1. CASE T = {}
  <2>1. \A i \in 1..c : s[i] = t[i]
    BY <1>1
  <2> QED BY <2>1
<1>2. CASE T # {}
  <2>1. T \in SUBSET Nat
    OBVIOUS
  <2> HIDE DEF T
  <2>2. PICK i \in T : \A j \in T : i <= j
    BY <1>2, <2>1, LeastOf
  <2>3. i \in 1..c /\ s[i] # t[i] /\ i # 1
    BY <2>2 DEF T
  <2>4. i - 1 \in 1..c /\ i - 1 # c /\ i - 1 \notin T /\ (i - 1) + 1 = i
    BY <2>1, <2>2, <2>3
  <2>5. s[i - 1] = t[i - 1]
    BY <2>4 DEF T
  <2> QED BY <2>3, <2>4, <2>5 DEF Follows
<1> QED BY <1>1, <1>2

-----------------------------------------------------------------------------
(* What is before and after a cursor of a sequence when elements are put   *)
(* in or taken out.                                                        *)

\* s is t with some contiguous part taken out, as in the buffer's CutFrom.
CutOut(s, t) ==
    \E i \in 0..Len(s), n \in 0..Len(t) :
        i + n <= Len(t) /\ s = SubSeq(t, 1, i) \o SubSeq(t, i + n + 1, Len(t))

LEMMA Sides ==
    ASSUME NEW S, NEW d \in Seq(S), NEW r \in 0..Len(d)
    PROVE  /\ SubSeq(d, 1, r) \in Seq(S) /\ Len(SubSeq(d, 1, r)) = r
           /\ SubSeq(d, r + 1, Len(d)) \in Seq(S) /\ Len(SubSeq(d, r + 1, Len(d))) = Len(d) - r
           /\ \A k \in 1..r : SubSeq(d, 1, r)[k] = d[k]
           /\ \A k \in 1..(Len(d) - r) : SubSeq(d, r + 1, Len(d))[k] = d[k + r]
OBVIOUS

\* A sequence cut at i by n: what it must look like.
LEMMA CutIs ==
    ASSUME NEW S, NEW t \in Seq(S), NEW u \in Seq(S), NEW i \in Nat, NEW n \in Nat,
           i + n <= Len(t), Len(u) = Len(t) - n,
           \A k \in 1..Len(u) : u[k] = IF k <= i THEN t[k] ELSE t[k + n]
    PROVE  CutOut(u, t)
<1> DEFINE m == i + n
<1>0. Len(t) \in Nat /\ Len(u) \in Nat /\ m \in 0..Len(t) /\ m = i + n /\ i \in 0..Len(t)
  OBVIOUS
<1> HIDE DEF m
<1> DEFINE a == SubSeq(t, 1, i)
           b == SubSeq(t, m + 1, Len(t))
<1>1. a \in Seq(S) /\ Len(a) = i /\ \A k \in 1..i : a[k] = t[k]
  BY <1>0, Sides
<1>2. b \in Seq(S) /\ Len(b) = Len(t) - m /\ \A k \in 1..(Len(t) - m) : b[k] = t[k + m]
  BY <1>0, Sides
<1> HIDE DEF a, b
<1>3. /\ a \o b \in Seq(S) /\ Len(a \o b) = Len(a) + Len(b)
      /\ \A k \in 1..(Len(a) + Len(b)) : (a \o b)[k] = IF k <= Len(a) THEN a[k] ELSE b[k - Len(a)]
  BY <1>1, <1>2
<1>4. ASSUME NEW k \in 1..Len(u) PROVE (a \o b)[k] = u[k]
  <2>1. k \in 1..(Len(a) + Len(b)) /\ k \in Nat
    BY <1>0, <1>1, <1>2
  <2>2. CASE k <= i
    BY <1>0, <1>1, <1>3, <2>1, <2>2
  <2>3. CASE ~(k <= i)
    <3>1. k - i \in 1..(Len(t) - m) /\ (k - i) + m = k + n
      BY <1>0, <1>1, <1>2, <2>1, <2>3
    <3> QED BY <1>0, <1>1, <1>2, <1>3, <2>1, <2>3, <3>1
  <2> QED BY <2>2, <2>3
<1>5. u = a \o b
  <2>1. Len(a \o b) = Len(u)
    BY <1>0, <1>1, <1>2, <1>3
  <2> QED BY <1>3, <1>4, <2>1, SameSeq
<1>6. i \in 0..Len(u) /\ n \in 0..Len(t) /\ i + n <= Len(t)
  BY <1>0
<1>7. u = SubSeq(t, 1, i) \o SubSeq(t, i + n + 1, Len(t))
  BY <1>0, <1>5 DEF a, b
<1> QED BY <1>6, <1>7 DEF CutOut

\* e is d with n elements more behind the p-th.
Widened(d, e, p, n) ==
    /\ Len(e) = Len(d) + n
    /\ \A k \in 1..p : e[k] = d[k]
    /\ \A k \in 1..Len(d) : k > p => e[k + n] = d[k]

\* e is d without the n elements behind the p-th.
Narrowed(d, e, p, n) ==
    /\ p + n <= Len(d) /\ Len(e) = Len(d) - n
    /\ \A k \in 1..Len(e) : e[k] = IF k <= p THEN d[k] ELSE d[k + n]

LEMMA WidenedSides ==
    ASSUME NEW S, NEW d \in Seq(S), NEW e \in Seq(S), NEW n \in Nat, NEW p \in 0..Len(d),
           Widened(d, e, p, n), NEW r \in 0..Len(d), NEW q \in Nat,
           (q = r /\ r <= p) \/ (q = r + n /\ p <= r)
    PROVE  \/ /\ SubSeq(e, 1, q) = SubSeq(d, 1, r)
              /\ CutOut(SubSeq(d, r + 1, Len(d)), SubSeq(e, q + 1, Len(e)))
           \/ /\ SubSeq(e, q + 1, Len(e)) = SubSeq(d, r + 1, Len(d))
              /\ CutOut(SubSeq(d, 1, r), SubSeq(e, 1, q))
<1> DEFINE dc == SubSeq(d, 1, r)
           du == SubSeq(d, r + 1, Len(d))
           ec == SubSeq(e, 1, q)
           eu == SubSeq(e, q + 1, Len(e))
<1>0. /\ Len(d) \in Nat /\ Len(e) \in Nat /\ Len(e) = Len(d) + n /\ q \in 0..Len(e)
      /\ \A k \in 1..p : e[k] = d[k]
      /\ \A k \in 1..Len(d) : k > p => e[k + n] = d[k]
  BY DEF Widened
<1>1. /\ dc \in Seq(S) /\ Len(dc) = r /\ du \in Seq(S) /\ Len(du) = Len(d) - r
      /\ \A k \in 1..r : dc[k] = d[k]
      /\ \A k \in 1..(Len(d) - r) : du[k] = d[k + r]
  BY Sides
<1>2. /\ ec \in Seq(S) /\ Len(ec) = q /\ eu \in Seq(S) /\ Len(eu) = Len(e) - q
      /\ \A k \in 1..q : ec[k] = e[k]
      /\ \A k \in 1..(Len(e) - q) : eu[k] = e[k + q]
  BY <1>0, Sides
<1> HIDE DEF dc, du, ec, eu
<1>3. CASE q = r /\ r <= p
  <2>1. ec = dc
    BY <1>0, <1>1, <1>2, <1>3, SameSeq
  <2>2. CutOut(du, eu)
    <3>1. p - r \in Nat /\ (p - r) + n <= Len(eu) /\ Len(du) = Len(eu) - n
      BY <1>0, <1>1, <1>2, <1>3
    <3>2. ASSUME NEW k \in 1..Len(du)
          PROVE  du[k] = IF k <= p - r THEN eu[k] ELSE eu[k + n]
      <4>1. CASE k <= p - r
        <5>0. k \in 1..(Len(d) - r) /\ k \in Nat /\ r \in Nat /\ p \in Nat /\ n \in Nat /\ q = r
          BY <1>0, <1>1, <1>3
        <5>1. k + r \in 1..p /\ k + q = k + r /\ k \in 1..(Len(e) - q)
          BY <1>0, <1>1, <4>1, <5>0
        <5>2. du[k] = d[k + r]
          BY <1>1, <5>0
        <5>3. e[k + r] = d[k + r]
          BY <1>0, <5>1
        <5>4. eu[k] = e[k + q]
          BY <1>2, <5>1
        <5> QED BY <4>1, <5>1, <5>2, <5>3, <5>4
      <4>2. CASE ~(k <= p - r)
        <5>0. k \in 1..(Len(d) - r) /\ k \in Nat /\ r \in Nat /\ p \in Nat /\ n \in Nat /\ q \in Nat
          BY <1>0, <1>1
        <5>1. /\ k + r \in 1..Len(d) /\ k + r > p /\ (k + r) + n = (k + n) + q
              /\ k + n \in 1..(Len(e) - q)
          BY <1>0, <1>3, <4>2, <5>0
        <5>2. du[k] = d[k + r]
          BY <1>1, <5>0
        <5>3. d[k + r] = e[(k + r) + n]
          BY <1>0, <5>1
        <5>4. eu[k + n] = e[(k + n) + q]
          BY <1>2, <5>1
        <5>5. (k + r) + n = (k + n) + q /\ ~(k <= p - r)
          BY <5>1, <4>2
        <5>6. du[k] = eu[k + n]
          BY <5>2, <5>3, <5>4, <5>5
        <5> QED BY <5>5, <5>6
      <4> QED BY <4>1, <4>2
    <3> QED BY <1>1, <1>2, <3>1, <3>2, CutIs
  <2> QED BY <2>1, <2>2 DEF dc, du, ec, eu
<1>4. CASE q = r + n /\ p <= r
  <2>1. eu = du
    <3>1. Len(eu) = Len(du)
      BY <1>0, <1>1, <1>2, <1>4
    <3>2. ASSUME NEW k \in 1..Len(eu) PROVE eu[k] = du[k]
      <4>0. k \in 1..(Len(e) - q) /\ k \in Nat /\ r \in Nat /\ p \in Nat /\ q \in Nat
        BY <1>0, <1>2
      <4>1. /\ k + r \in 1..Len(d) /\ k + r > p /\ (k + r) + n = k + q
            /\ k \in 1..(Len(d) - r)
        BY <1>0, <1>4, <4>0
      <4>2. eu[k] = e[k + q]
        BY <1>2, <4>0
      <4>3. d[k + r] = e[(k + r) + n]
        BY <1>0, <4>1
      <4>4. du[k] = d[k + r]
        BY <1>1, <4>1
      <4> QED BY <4>1, <4>2, <4>3, <4>4
    <3> QED BY <1>1, <1>2, <3>1, <3>2, SameSeq
  <2>2. CutOut(dc, ec)
    <3>1. p \in Nat /\ p + n <= Len(ec) /\ Len(dc) = Len(ec) - n
      BY <1>0, <1>1, <1>2, <1>4
    <3>2. ASSUME NEW k \in 1..Len(dc)
          PROVE  dc[k] = IF k <= p THEN ec[k] ELSE ec[k + n]
      <4>1. k \in 1..r /\ k \in 1..Len(d) /\ k \in 1..q /\ k + n \in 1..q
        BY <1>0, <1>1, <1>2, <1>4
      <4>2. CASE k <= p
        BY <1>0, <1>1, <1>2, <4>1, <4>2
      <4>3. CASE ~(k <= p)
        BY <1>0, <1>1, <1>2, <4>1, <4>3
      <4> QED BY <4>2, <4>3
    <3> QED BY <1>1, <1>2, <3>1, <3>2, CutIs
  <2> QED BY <2>1, <2>2 DEF dc, du, ec, eu
<1> QED BY <1>3, <1>4

\* What was read and what was not, when n elements behind the p-th are taken out.
LEMMA NarrowedSides ==
    ASSUME NEW S, NEW d \in Seq(S), NEW e \in Seq(S), NEW n \in Nat, NEW p \in Nat,
           Narrowed(d, e, p, n), NEW r \in 0..Len(d), NEW q \in Nat,
           q = IF r > p + n THEN r - n ELSE IF r > p THEN p ELSE r
    PROVE  /\ q <= Len(e)
           /\ CutOut(SubSeq(e, 1, q), SubSeq(d, 1, r))
           /\ CutOut(SubSeq(e, q + 1, Len(e)), SubSeq(d, r + 1, Len(d)))
<1> DEFINE dc == SubSeq(d, 1, r)
           du == SubSeq(d, r + 1, Len(d))
           ec == SubSeq(e, 1, q)
           eu == SubSeq(e, q + 1, Len(e))
<1>0. /\ Len(d) \in Nat /\ Len(e) \in Nat /\ p + n <= Len(d) /\ Len(e) = Len(d) - n
      /\ \A k \in 1..Len(e) : e[k] = IF k <= p THEN d[k] ELSE d[k + n]
      /\ r \in Nat /\ q \in 0..Len(e)
  BY DEF Narrowed
<1>1. /\ dc \in Seq(S) /\ Len(dc) = r /\ du \in Seq(S) /\ Len(du) = Len(d) - r
      /\ \A k \in 1..r : dc[k] = d[k]
      /\ \A k \in 1..(Len(d) - r) : du[k] = d[k + r]
  BY Sides
<1>2. /\ ec \in Seq(S) /\ Len(ec) = q /\ eu \in Seq(S) /\ Len(eu) = Len(e) - q
      /\ \A k \in 1..q : ec[k] = e[k]
      /\ \A k \in 1..(Len(e) - q) : eu[k] = e[k + q]
  <2>1. e \in Seq(S) /\ q \in 0..Len(e)
    BY <1>0
  <2>2. SubSeq(e, 1, q) \in Seq(S) /\ Len(SubSeq(e, 1, q)) = q
        /\ \A k \in 1..q : SubSeq(e, 1, q)[k] = e[k]
    BY <2>1, Sides
  <2>3. SubSeq(e, q + 1, Len(e)) \in Seq(S) /\ Len(SubSeq(e, q + 1, Len(e))) = Len(e) - q
        /\ \A k \in 1..(Len(e) - q) : SubSeq(e, q + 1, Len(e))[k] = e[k + q]
    BY <2>1, Sides
  <2> QED BY <2>2, <2>3
<1> HIDE DEF dc, du, ec, eu
<1>3. \E i \in Nat : /\ i + (r - q) <= r /\ r - q \in Nat
                    /\ \A k \in 1..q : ec[k] = IF k <= i THEN dc[k] ELSE dc[k + (r - q)]
  <2>1. CASE r > p + n
    <3>1. r - q = n /\ p + n <= r /\ n \in Nat /\ p \in Nat
      BY <1>0, <2>1
    <3>2. ASSUME NEW k \in 1..q PROVE ec[k] = IF k <= p THEN dc[k] ELSE dc[k + n]
      <4>0. k \in Nat /\ k \in 1..Len(e) /\ k \in 1..r /\ k + n \in 1..r
        BY <1>0, <3>1
      <4>1. ec[k] = e[k]
        BY <1>2
      <4>2. e[k] = IF k <= p THEN d[k] ELSE d[k + n]
        BY <1>0, <4>0
      <4>3. dc[k] = d[k] /\ dc[k + n] = d[k + n]
        BY <1>1, <4>0
      <4> QED BY <4>1, <4>2, <4>3
    <3>3. p \in Nat /\ p + (r - q) <= r /\ r - q \in Nat
      BY <1>0, <3>1
    <3>4. \A k \in 1..q : ec[k] = IF k <= p THEN dc[k] ELSE dc[k + (r - q)]
      BY <3>1, <3>2
    <3> QED BY <3>3, <3>4
  <2>2. CASE ~(r > p + n)
    <3>1. q \in Nat /\ q <= r /\ q <= p /\ q + (r - q) <= r /\ r - q \in Nat
      BY <1>0, <2>2
    <3>2. ASSUME NEW k \in 1..q PROVE ec[k] = IF k <= q THEN dc[k] ELSE dc[k + (r - q)]
      <4>0. k \in Nat /\ k \in 1..Len(e) /\ k \in 1..r /\ k <= p /\ k <= q
        BY <1>0, <3>1
      <4>1. ec[k] = e[k]
        BY <1>2
      <4>2. e[k] = d[k]
        BY <1>0, <4>0
      <4>3. dc[k] = d[k]
        BY <1>1, <4>0
      <4> QED BY <4>0, <4>1, <4>2, <4>3
    <3> QED BY <3>1, <3>2
  <2> QED BY <2>1, <2>2
<1>4. CutOut(ec, dc)
  <2>1. PICK i \in Nat : /\ i + (r - q) <= r /\ r - q \in Nat
                        /\ \A k \in 1..q : ec[k] = IF k <= i THEN dc[k] ELSE dc[k + (r - q)]
    BY <1>3
  <2> DEFINE m == r - q
  <2>2. m = r - q /\ m \in Nat /\ i + m <= r
        /\ \A k \in 1..q : ec[k] = IF k <= i THEN dc[k] ELSE dc[k + m]
    BY <2>1
  <2> HIDE DEF m
  <2>3. r \in Nat /\ q \in Nat /\ Len(dc) = r /\ Len(ec) = q
    BY <1>0, <1>1, <1>2
  <2>4. Len(ec) = Len(dc) - m /\ i + m <= Len(dc)
    BY <2>2, <2>3
  <2>5. \A k \in 1..Len(ec) : ec[k] = IF k <= i THEN dc[k] ELSE dc[k + m]
    BY <2>2, <2>3
  <2> QED BY <1>1, <1>2, <2>2, <2>4, <2>5, CutIs
<1> DEFINE m == n - (r - q)
           j == p - q
<1>5. m \in Nat /\ m + r = n + q /\ (r > p + n => m = 0 /\ q > p) /\ (~(r > p + n) => j \in Nat /\ j + q = p)
  BY <1>0
<1> HIDE DEF m, j
<1>6. CASE r > p + n
  <2>1. Len(eu) = Len(du) - m /\ m = 0 /\ 0 + m <= Len(du)
    BY <1>0, <1>1, <1>2, <1>5, <1>6
  <2>2. ASSUME NEW k \in 1..Len(eu) PROVE eu[k] = IF k <= 0 THEN du[k] ELSE du[k + m]
    <3>0. k \in Nat /\ k \in 1..(Len(e) - q) /\ k \in 1..(Len(d) - r) /\ k + q \in 1..Len(e)
          /\ ~(k + q <= p) /\ (k + q) + n = k + r /\ k + m = k /\ ~(k <= 0)
      BY <1>0, <1>1, <1>2, <1>5, <1>6, <2>1
    <3>1. eu[k] = e[k + q]
      BY <1>2, <3>0
    <3>2. e[k + q] = d[(k + q) + n]
      BY <1>0, <3>0
    <3>3. du[k] = d[k + r]
      BY <1>1, <3>0
    <3> QED BY <3>0, <3>1, <3>2, <3>3
  <2>3. CutOut(eu, du)
    <3> QED BY <1>1, <1>2, <1>5, <2>1, <2>2, CutIs
  <2> QED BY <1>0, <1>4, <2>3 DEF dc, du, ec, eu
<1>7. CASE ~(r > p + n)
  <2>a. j \in Nat /\ j + q = p /\ m + r = n + q
    BY <1>5, <1>7
  <2>c. Len(eu) = Len(e) - q /\ Len(du) = Len(d) - r /\ Len(e) = Len(d) - n
    BY <1>0, <1>1, <1>2
  <2>d. Len(d) \in Nat /\ n \in Nat /\ q \in Nat /\ r \in Nat /\ m \in Nat
    BY <1>0, <1>5
  <2>e. (Len(d) - n) - q = (Len(d) - r) - m
    BY <2>a, <2>d
  <2>0. Len(eu) = Len(du) - m /\ j \in Nat
    BY <2>a, <2>c, <2>e
  <2>b. (j + m) + r = p + n
    BY <1>0, <1>5, <2>0, <2>a
  <2>1. Len(eu) = Len(du) - m /\ j \in Nat /\ j + m <= Len(du)
    BY <1>0, <1>1, <1>5, <2>0, <2>b
  <2>2. ASSUME NEW k \in 1..Len(eu) PROVE eu[k] = IF k <= j THEN du[k] ELSE du[k + m]
    <3>a. k \in Nat /\ k \in 1..(Len(e) - q) /\ k + q \in 1..Len(e)
      BY <1>0, <1>2
    <3>c. k \in Nat /\ q \in Nat /\ j \in Nat /\ p = j + q
      BY <2>a, <2>d, <3>a
    <3>b. k <= j <=> k + q <= p
      BY <3>c
    <3>0. k \in Nat /\ k \in 1..(Len(e) - q) /\ k + q \in 1..Len(e)
          /\ (k <= j <=> k + q <= p)
      BY <3>a, <3>b
    <3>1. eu[k] = e[k + q]
      BY <1>2, <3>0
    <3>2. e[k + q] = IF k + q <= p THEN d[k + q] ELSE d[(k + q) + n]
      BY <1>0, <3>0
    <3>3. CASE k <= j
      <4>1. q = r /\ k \in 1..(Len(d) - r)
        <5>1. k + q <= p /\ q < p
          BY <1>0, <3>0, <3>3
        <5>2. ~(r > p)
          BY <1>0, <1>7, <5>1
        <5> QED BY <1>0, <1>7, <3>0, <5>1, <5>2
      <4>2. du[k] = d[k + r]
        BY <1>1, <4>1
      <4> QED BY <3>0, <3>1, <3>2, <3>3, <4>1, <4>2
    <3>4. CASE ~(k <= j)
      <4>1. k + m \in 1..(Len(d) - r) /\ (k + m) + r = (k + q) + n
        BY <1>0, <1>1, <1>5, <2>1, <3>0
      <4>2. du[k + m] = d[(k + m) + r]
        BY <1>1, <4>1
      <4> QED BY <3>0, <3>1, <3>2, <3>4, <4>1, <4>2
    <3> QED BY <3>3, <3>4
  <2>3. CutOut(eu, du)
    <3> QED BY <1>1, <1>2, <1>5, <2>1, <2>2, CutIs
  <2> QED BY <1>0, <1>4, <2>3 DEF dc, du, ec, eu
<1> QED BY <1>6, <1>7

LEMMA Joined ==
    ASSUME NEW S, NEW x \in Seq(S), NEW y \in Seq(S)
    PROVE  /\ x \o y \in Seq(S) /\ Len(x \o y) = Len(x) + Len(y)
           /\ \A k \in 1..Len(x) : (x \o y)[k] = x[k]
           /\ \A k \in (Len(x) + 1)..(Len(x) + Len(y)) : (x \o y)[k] = y[k - Len(x)]
OBVIOUS

LEMMA PutIn ==
    ASSUME NEW S, NEW d \in Seq(S), NEW s \in Seq(S), NEW p \in 0..Len(d)
    PROVE  LET e == SubSeq(d, 1, p) \o s \o SubSeq(d, p + 1, Len(d))
           IN  e \in Seq(S) /\ Len(e) = Len(d) + Len(s) /\ Widened(d, e, p, Len(s))
<1> DEFINE a == SubSeq(d, 1, p)
           b == SubSeq(d, p + 1, Len(d))
           w == a \o s
           e == w \o b
<1>0. Len(d) \in Nat /\ Len(s) \in Nat /\ p \in Nat
  OBVIOUS
<1>1. /\ a \in Seq(S) /\ Len(a) = p /\ b \in Seq(S) /\ Len(b) = Len(d) - p
      /\ \A k \in 1..p : a[k] = d[k]
      /\ \A k \in 1..(Len(d) - p) : b[k] = d[k + p]
  BY Sides
<1> HIDE DEF a, b
<1>w. /\ w \in Seq(S) /\ Len(w) = Len(a) + Len(s)
      /\ \A k \in 1..Len(a) : w[k] = a[k]
  <2>a. a \in Seq(S) /\ s \in Seq(S)
    BY <1>1
  <2>1. w \in Seq(S)
    BY <2>a, Joined
  <2>2. Len(w) = Len(a) + Len(s)
    BY <2>a, Joined
  <2>3. \A k \in 1..Len(a) : w[k] = a[k]
    BY <2>a, Joined
  <2> QED BY <2>1, <2>2, <2>3
<1> HIDE DEF w
<1>e. /\ e \in Seq(S) /\ Len(e) = Len(w) + Len(b)
      /\ \A k \in 1..Len(w) : e[k] = w[k]
      /\ \A k \in (Len(w) + 1)..(Len(w) + Len(b)) : e[k] = b[k - Len(w)]
  <2>a. w \in Seq(S) /\ b \in Seq(S)
    BY <1>1, <1>w
  <2>1. e \in Seq(S)
    BY <2>a, Joined
  <2>2. Len(e) = Len(w) + Len(b)
    BY <2>a, Joined
  <2>3. \A k \in 1..Len(w) : e[k] = w[k]
    BY <2>a, Joined
  <2>4. \A k \in (Len(w) + 1)..(Len(w) + Len(b)) : e[k] = b[k - Len(w)]
    BY <2>a, Joined
  <2> QED BY <2>1, <2>2, <2>3, <2>4
<1> HIDE DEF e
<1>2. Len(w) = p + Len(s) /\ \A k \in 1..p : w[k] = d[k]
  BY <1>1, <1>w
<1>3. e \in Seq(S) /\ Len(e) = Len(d) + Len(s)
  BY <1>0, <1>1, <1>2, <1>e
<1>4. ASSUME NEW k \in 1..p PROVE e[k] = d[k]
  <2>1. k \in 1..Len(w)
    BY <1>0, <1>2
  <2> QED BY <1>2, <1>e, <2>1
<1>5. ASSUME NEW k \in 1..Len(d), k > p PROVE e[k + Len(s)] = d[k]
  <2>1. /\ k + Len(s) \in (Len(w) + 1)..(Len(w) + Len(b))
        /\ (k + Len(s)) - Len(w) = k - p /\ k - p \in 1..(Len(d) - p) /\ (k - p) + p = k
    BY <1>0, <1>1, <1>2, <1>5
  <2>2. e[k + Len(s)] = b[(k + Len(s)) - Len(w)]
    BY <1>e, <2>1
  <2>3. b[k - p] = d[(k - p) + p]
    BY <1>1, <2>1
  <2> QED BY <2>1, <2>2, <2>3
<1>6. e \in Seq(S) /\ Len(e) = Len(d) + Len(s) /\ Widened(d, e, p, Len(s))
  BY <1>3, <1>4, <1>5 DEF Widened
<1> QED BY <1>6 DEF e, w, a, b

LEMMA Taken ==
    ASSUME NEW S, NEW d \in Seq(S), NEW p \in Nat, NEW n \in Nat, p + n <= Len(d)
    PROVE  LET e == SubSeq(d, 1, p) \o SubSeq(d, p + n + 1, Len(d))
           IN  e \in Seq(S) /\ Len(e) = Len(d) - n /\ Narrowed(d, e, p, n)
<1> DEFINE m == p + n
           a == SubSeq(d, 1, p)
           b == SubSeq(d, m + 1, Len(d))
           e == a \o b
<1>0. Len(d) \in Nat /\ p \in 0..Len(d) /\ m = p + n /\ m \in 0..Len(d)
  OBVIOUS
<1> HIDE DEF m
<1>1. a \in Seq(S) /\ Len(a) = p /\ \A k \in 1..p : a[k] = d[k]
  BY <1>0, Sides
<1>2. b \in Seq(S) /\ Len(b) = Len(d) - m /\ \A k \in 1..(Len(d) - m) : b[k] = d[k + m]
  BY <1>0, Sides
<1> HIDE DEF a, b
<1>3. /\ e \in Seq(S) /\ Len(e) = Len(d) - n
      /\ \A k \in 1..Len(a) : e[k] = a[k]
      /\ \A k \in (Len(a) + 1)..(Len(a) + Len(b)) : e[k] = b[k - Len(a)]
  BY <1>0, <1>1, <1>2
<1> HIDE DEF e
<1>4. ASSUME NEW k \in 1..Len(e) PROVE e[k] = IF k <= p THEN d[k] ELSE d[k + n]
  <2>1. CASE k <= p
    BY <1>0, <1>1, <1>3, <2>1
  <2>2. CASE ~(k <= p)
    <3>1. /\ k \in (Len(a) + 1)..(Len(a) + Len(b)) /\ k - Len(a) = k - p
          /\ k - p \in 1..(Len(d) - m) /\ (k - p) + m = k + n
      BY <1>0, <1>1, <1>2, <1>3, <2>2
    <3>2. e[k] = b[k - Len(a)]
      BY <1>3, <3>1
    <3>3. b[k - p] = d[(k - p) + m]
      BY <1>2, <3>1
    <3> QED BY <2>2, <3>1, <3>2, <3>3
  <2> QED BY <2>1, <2>2
<1>5. e \in Seq(S) /\ Len(e) = Len(d) - n /\ Narrowed(d, e, p, n)
  BY <1>0, <1>3, <1>4 DEF Narrowed
<1> QED BY <1>0, <1>5 DEF e, a, b
=============================================================================
