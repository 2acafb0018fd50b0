-------------------------- MODULE DhtSearchProofs --------------------------
(***************************************************************************)
(* Proofs about one DHT search, for any nodes and limits: its array stays  *)
(* in the order of distance, its queries in flight stay bounded, it has    *)
(* one verdict, it is never idle, and it does what Lookup promises.        *)
(***************************************************************************)
EXTENDS DhtSearch, ListLemmas, FiniteSetTheorems, SequenceTheorems, TLAPS

-----------------------------------------------------------------------------
(* Sorted arrays.                                                          *)

\* NearestFirst of any array.
Ascending(s) == \A i, j \in DOMAIN s : i < j => s[i] < s[j]

LEMMA InSet ==
    ASSUME NEW S, NEW s \in Seq(S), NEW x
    PROVE  x \in ToSet(s) <=> Contains(s, x)
<1>1. DOMAIN s = 1..Len(s)
  OBVIOUS
<1> QED BY <1>1 DEF ToSet, Contains

LEMMA AscendingDistinct ==
    ASSUME NEW s \in Seq(Nat), Ascending(s)
    PROVE  Distinct(s)
<1> SUFFICES ASSUME NEW i \in DOMAIN s, NEW j \in DOMAIN s, s[i] = s[j]
             PROVE  i = j
  BY DEF Distinct
<1>1. i \in Nat /\ j \in Nat /\ s[i] \in Nat /\ s[j] \in Nat
  OBVIOUS
<1>2. ~(i < j) /\ ~(j < i)
  BY <1>1 DEF Ascending
<1> QED BY <1>1, <1>2

\* A new element in its place keeps an array ascending.
LEMMA AscendingInsert ==
    ASSUME NEW S \in SUBSET Nat, NEW s \in Seq(S), Ascending(s),
           NEW i \in 1..(Len(s) + 1), NEW e \in S,
           \A j \in 1..(i - 1) : s[j] < e,
           \A j \in i..Len(s) : e < s[j],
           NEW t, t \in Seq(S), Inserted(t, s, i, e)
    PROVE  Ascending(t)
<1>0. Len(s) \in Nat /\ i \in Nat /\ DOMAIN s = 1..Len(s) /\ DOMAIN t = 1..Len(t)
  OBVIOUS
<1>1. /\ Len(t) = Len(s) + 1
      /\ \A j \in 1..(Len(s) + 1) :
           t[j] = IF j < i THEN s[j] ELSE IF j = i THEN e ELSE s[j - 1]
  BY DEF Inserted
<1>a. e \in Nat /\ \A m \in DOMAIN s : s[m] \in Nat
  <2>1. \A m \in DOMAIN s : s[m] \in S
    OBVIOUS
  <2> QED BY <2>1
<1> SUFFICES ASSUME NEW j \in 1..(Len(s) + 1), NEW k \in 1..(Len(s) + 1), j < k
             PROVE  t[j] < t[k]
  BY <1>0, <1>1 DEF Ascending
<1>2. CASE k < i
  <2>1. t[j] = s[j] /\ t[k] = s[k] /\ j \in DOMAIN s /\ k \in DOMAIN s
    BY <1>0, <1>1, <1>2
  <2> QED BY <2>1 DEF Ascending
<1>3. CASE k = i
  <2>1. t[j] = s[j] /\ t[k] = e /\ j \in 1..(i - 1)
    BY <1>0, <1>1, <1>3
  <2> QED BY <2>1
<1>4. CASE k > i /\ j < i
  <2>1. t[j] = s[j] /\ t[k] = s[k - 1] /\ j \in DOMAIN s /\ k - 1 \in DOMAIN s
    BY <1>0, <1>1, <1>4
  <2>2. j \in 1..(i - 1) /\ k - 1 \in i..Len(s)
    BY <1>0, <1>4
  <2>3. s[j] < e
    BY <2>2
  <2>4. e < s[k - 1]
    BY <2>2
  <2> QED BY <1>a, <2>1, <2>3, <2>4
<1>5. CASE j = i
  <2>1. t[j] = e /\ t[k] = s[k - 1] /\ k - 1 \in i..Len(s)
    BY <1>0, <1>1, <1>5
  <2> QED BY <2>1
<1>6. CASE j > i
  <2>1. /\ t[j] = s[j - 1] /\ t[k] = s[k - 1]
        /\ j - 1 \in DOMAIN s /\ k - 1 \in DOMAIN s /\ j - 1 < k - 1
    BY <1>0, <1>1, <1>6
  <2> QED BY <2>1 DEF Ascending
<1> QED BY <1>0, <1>2, <1>3, <1>4, <1>5, <1>6

\* So does a removal.
LEMMA AscendingRemove ==
    ASSUME NEW S \in SUBSET Nat, NEW s \in Seq(S), Ascending(s), NEW i \in 1..Len(s)
    PROVE  Ascending(RemoveAt(s, i))
<1> DEFINE t == RemoveAt(s, i)
<1>1. /\ t \in Seq(S) /\ Len(t) = Len(s) - 1
      /\ \A j \in 1..(Len(s) - 1) : t[j] = IF j < i THEN s[j] ELSE s[j + 1]
  BY RemoveAtFacts
<1> HIDE DEF t
<1>2. Len(s) \in Nat /\ DOMAIN s = 1..Len(s) /\ DOMAIN t = 1..(Len(s) - 1)
  BY <1>1
<1>3. ASSUME NEW j \in 1..(Len(s) - 1), NEW k \in 1..(Len(s) - 1), j < k
      PROVE  t[j] < t[k]
  <2> DEFINE p(m) == IF m < i THEN m ELSE m + 1
  <2>1. p(j) \in DOMAIN s /\ p(k) \in DOMAIN s /\ p(j) < p(k)
    BY <1>2, <1>3
  <2>2. t[j] = s[p(j)] /\ t[k] = s[p(k)]
    BY <1>1
  <2> QED BY <2>1, <2>2 DEF Ascending
<1>4. Ascending(t)
  BY <1>2, <1>3 DEF Ascending
<1> QED BY <1>4 DEF t

\* The elements in front of the i-th are i - 1, so an element with fewer than
\* k smaller ones stands among the first k.
LEMMA RankOfElement ==
    ASSUME NEW s \in Seq(Nat), Ascending(s), NEW i \in DOMAIN s, NEW k \in Nat,
           Cardinality({m \in ToSet(s) : m < s[i]}) < k
    PROVE  i <= k
<1> DEFINE T == {m \in ToSet(s) : m < s[i]}
           f == [j \in 1..(i - 1) |-> s[j]]
<1>1. i \in 1..Len(s) /\ Len(s) \in Nat /\ DOMAIN s = 1..Len(s) /\ s[i] \in Nat
  OBVIOUS
<1>2. IsFiniteSet(T)
  <2>1. T \in SUBSET Nat /\ \A m \in T : m <= s[i]
    BY <1>1 DEF ToSet
  <2> QED BY <1>1, <2>1, FS_BoundedSetOfNaturals
<1>3. f \in Injection(1..(i - 1), T)
  <2>1. \A j \in 1..(i - 1) : j \in DOMAIN s /\ s[j] < s[i]
    BY <1>1 DEF Ascending
  <2>2. f \in [1..(i - 1) -> T]
    BY <2>1 DEF ToSet
  <2>3. \A a, b \in 1..(i - 1) : f[a] = f[b] => a = b
    BY <2>1, AscendingDistinct DEF Distinct
  <2> QED BY <2>2, <2>3 DEF Injection, IsInjective
<1>4. Cardinality(1..(i - 1)) <= Cardinality(T)
  BY <1>2, <1>3, FS_Injection
<1>5. Cardinality(1..(i - 1)) = i - 1
  <2>1. i - 1 \in Int /\ 1 \in Int
    BY <1>1
  <2>2. Cardinality(1..(i - 1)) = IF 1 > i - 1 THEN 0 ELSE (i - 1) - 1 + 1
    BY <2>1, FS_Interval
  <2> QED BY <1>1, <2>2
<1>6. Cardinality(T) \in Nat
  BY <1>2, FS_CardinalityType
<1> QED BY <1>1, <1>4, <1>5, <1>6

LEMMA FiniteToSet ==
    ASSUME NEW S, NEW s \in Seq(S)
    PROVE  IsFiniteSet(ToSet(s))
<1>1. Len(s) \in Nat /\ DOMAIN s = 1..Len(s) /\ s \in [1..Len(s) -> S]
  OBVIOUS
<1>2. s \in Surjection(1..Len(s), ToSet(s))
  BY <1>1 DEF Surjection, ToSet
<1>3. 1 \in Int /\ Len(s) \in Int
  BY <1>1
<1>4. IsFiniteSet(1..Len(s))
  BY <1>3, FS_Interval
<1> QED BY <1>2, <1>4, FS_Surjection

-----------------------------------------------------------------------------
(* The two operations that change the array.                               *)

LEMMA AfterInsert ==
    ASSUME TypeOK, NearestFirst, NEW n \in Nodes, NEW has_replied \in BOOLEAN,
           InsertNode(n, has_replied)
    PROVE  /\ nodes' \in Seq(Nodes) /\ Len(nodes') <= MaxNodes
           /\ ToSet(nodes') = ToSet(nodes) \cup {n}
           /\ NearestFirst'
<1>1. /\ nodes \in Seq(Nodes) /\ Len(nodes) \in Nat /\ Len(nodes) <= MaxNodes
      /\ MaxNodes \in Nat /\ Ascending(nodes) /\ Nodes \in SUBSET Nat
  BY SearchLimitsAssumption, SearchNodesAssumption
     DEF TypeOK, NearestFirst, Ascending
<1>2. CASE Contains(nodes, n) /\ UNCHANGED nodes
  <2>1. n \in ToSet(nodes)
    BY <1>1, <1>2, InSet
  <2> QED BY <1>1, <1>2, <2>1 DEF NearestFirst, Ascending
<1>3. CASE /\ ~Contains(nodes, n) /\ Len(nodes) < MaxNodes
           /\ \E i \in 1..(Len(nodes) + 1) :
                Place(i, n) /\ nodes' = InsertAt(nodes, i, n)
  <2>1. PICK i \in 1..(Len(nodes) + 1) :
               Place(i, n) /\ nodes' = InsertAt(nodes, i, n)
    BY <1>3
  <2>2. nodes' \in Seq(Nodes) /\ Inserted(nodes', nodes, i, n)
    BY <1>1, <2>1, InsertAtInserted
  <2>3. Ascending(nodes')
    BY <1>1, <2>1, <2>2, AscendingInsert DEF Place
  <2>4. \A x : Contains(nodes', x) <=> x = n \/ Contains(nodes, x)
    BY <1>1, <2>1, InsertSet
  <2>5. \A x : x \in ToSet(nodes') <=> x = n \/ x \in ToSet(nodes)
    BY <1>1, <2>2, <2>4, InSet
  <2>6. ToSet(nodes') = ToSet(nodes) \cup {n}
    BY <2>5
  <2>7. Len(nodes') <= MaxNodes
    BY <1>1, <1>3, <2>2 DEF Inserted
  <2> QED BY <2>2, <2>3, <2>6, <2>7 DEF NearestFirst, Ascending
<1> QED BY <1>2, <1>3 DEF InsertNode

LEMMA AfterRemove ==
    ASSUME TypeOK, NearestFirst, NEW n \in Nodes, RemoveNode(n)
    PROVE  /\ nodes' \in Seq(Nodes) /\ Len(nodes') <= MaxNodes
           /\ ToSet(nodes') = ToSet(nodes) \ {n}
           /\ NearestFirst'
<1>1. /\ nodes \in Seq(Nodes) /\ Len(nodes) \in Nat /\ Len(nodes) <= MaxNodes
      /\ MaxNodes \in Nat /\ Ascending(nodes) /\ Nodes \in SUBSET Nat
      /\ DOMAIN nodes = 1..Len(nodes)
  BY SearchLimitsAssumption, SearchNodesAssumption
     DEF TypeOK, NearestFirst, Ascending
<1>n. nodes \in Seq(Nat)
  BY <1>1, SeqMonotonic
<1>2. PICK i \in DOMAIN nodes : nodes[i] = n /\ nodes' = RemoveAt(nodes, i)
  BY DEF RemoveNode
<1>3. i \in 1..Len(nodes)
  BY <1>1
<1>4. nodes' \in Seq(Nodes) /\ Len(nodes') = Len(nodes) - 1
  BY <1>1, <1>2, <1>3, RemoveAtFacts
<1>5. Ascending(nodes')
  BY <1>1, <1>2, <1>3, AscendingRemove
<1>6. Distinct(nodes)
  BY <1>1, <1>n, AscendingDistinct
<1>7. \A x : Contains(nodes', x) <=> Contains(nodes, x) /\ x # n
  BY <1>1, <1>2, <1>3, <1>6, RemoveSet
<1>8. \A x : x \in ToSet(nodes') <=> x \in ToSet(nodes) /\ x # n
  BY <1>1, <1>4, <1>7, InSet
<1>9. ToSet(nodes') = ToSet(nodes) \ {n}
  BY <1>8
<1> QED BY <1>1, <1>4, <1>5, <1>9 DEF NearestFirst, Ascending


-----------------------------------------------------------------------------
(* The invariant.                                                          *)

Inv == TypeOK /\ NearestFirst /\ OneVerdict /\ InflightBound

LEMMA InvInit ==
    ASSUME Init
    PROVE  Inv
<1>1. TypeOK
  BY SearchLimitsAssumption DEF Init, TypeOK, ToSet
<1>2. NearestFirst /\ OneVerdict
  BY DEF Init, NearestFirst, OneVerdict, Done
<1>3. {n \in queried : Pending(n)} = {}
  BY DEF Init
<1>4. InflightBound
  BY <1>3, FS_EmptySet, SearchLimitsAssumption DEF InflightBound
<1> QED BY <1>1, <1>2, <1>4 DEF Inv

\* The queries in flight; a step that adds none keeps their bound.
Flying == {n \in queried : Pending(n)}

LEMMA FlyingFinite ==
    ASSUME TypeOK
    PROVE  IsFiniteSet(Flying) /\ Cardinality(Flying) \in Nat
<1>1. IsFiniteSet(ToSet(nodes)) /\ Flying \in SUBSET ToSet(nodes)
  BY FiniteToSet DEF TypeOK, Flying
<1>2. IsFiniteSet(Flying)
  BY <1>1, FS_Subset
<1> QED BY <1>2, FS_CardinalityType

LEMMA FewerFlying ==
    ASSUME TypeOK, InflightBound, Flying' \in SUBSET Flying
    PROVE  InflightBound'
<1>1. Cardinality(Flying') <= Cardinality(Flying)
  BY FlyingFinite, FS_Subset
<1>2. Cardinality(Flying') \in Nat
  BY FlyingFinite, FS_Subset, FS_CardinalityType
<1> QED BY <1>1, <1>2, FlyingFinite, SearchLimitsAssumption DEF InflightBound, Flying

\* Steps that end the search or leave its state alone.
LEMMA VerdictKept ==
    ASSUME OneVerdict, TypeOK,
           \/ ~Done /\ (Finish("done") \/ Finish("timeout") \/ Finish("canceled"))
           \/ verdicts' = verdicts /\ state' = state
           \/ verdicts' = verdicts /\ state = "init" /\ state' = "running"
    PROVE  /\ OneVerdict' /\ verdicts' \in Seq({"done", "timeout", "canceled"})
           /\ state' \in {"init", "running", "done", "timeout", "canceled"}
<1>1. CASE ~Done /\ (Finish("done") \/ Finish("timeout") \/ Finish("canceled"))
  <2>1. verdicts = <<>>
    BY <1>1 DEF OneVerdict
  <2>2. verdicts' = <<state'>> /\ state' \in {"done", "timeout", "canceled"}
    BY <1>1, <2>1 DEF Finish
  <2> QED BY <2>2 DEF OneVerdict, Done
<1>2. CASE verdicts' = verdicts /\ state' = state
  BY <1>2 DEF OneVerdict, Done, TypeOK
<1>3. CASE verdicts' = verdicts /\ state = "init" /\ state' = "running"
  BY <1>3 DEF OneVerdict, Done, TypeOK
<1> QED BY <1>1, <1>2, <1>3

LEMMA InvNext ==
    ASSUME Inv, [Next]_vars
    PROVE  Inv'
<1> USE DEF Inv
<1>0. /\ Nodes \in SUBSET Nat
      /\ MaxNodes \in Nat /\ Inflight \in Nat /\ Retransmit \in Nat /\ MaxTime \in Nat
      /\ now \in Nat
  BY SearchNodesAssumption, SearchLimitsAssumption DEF TypeOK
<1>1. CASE Start
  <2>1. TypeOK' /\ OneVerdict'
    BY <1>1, <1>0, VerdictKept DEF Start, nodeVars, TypeOK
  <2>2. NearestFirst'
    BY <1>1 DEF Start, nodeVars, NearestFirst
  <2>3. Flying' \in SUBSET Flying
    BY <1>1 DEF Start, nodeVars, Flying, Pending
  <2> QED BY <2>1, <2>2, <2>3, FewerFlying
<1>2. CASE \/ Cancel \/ StepTimeout \/ StepDone \/ MgrExpire
  <2>1. /\ ~Done /\ (Finish("done") \/ Finish("timeout") \/ Finish("canceled"))
        /\ UNCHANGED <<nodeVars, started_at, next_step_at, now>>
    BY <1>2 DEF Cancel, StepTimeout, StepDone, MgrExpire, Done
  <2>2. OneVerdict' /\ TypeOK'
    BY <2>1, VerdictKept DEF TypeOK, nodeVars
  <2>3. NearestFirst'
    BY <2>1 DEF nodeVars, NearestFirst
  <2>4. Flying' \in SUBSET Flying
    BY <2>1 DEF nodeVars, Flying, Pending
  <2> QED BY <2>2, <2>3, <2>4, FewerFlying
<1>3. ASSUME NEW n \in Nodes, NEW has_replied \in BOOLEAN, InsertNode(n, has_replied)
      PROVE  Inv'
  <2>1. /\ nodes' \in Seq(Nodes) /\ Len(nodes') <= MaxNodes
        /\ ToSet(nodes') = ToSet(nodes) \cup {n}
        /\ NearestFirst'
    BY <1>3, AfterInsert
  <2>2. /\ replied' \subseteq replied \cup {n}
        /\ UNCHANGED <<state, queried, queried_at, started_at, next_step_at, now, verdicts>>
    BY <1>3 DEF InsertNode
  <2>3. TypeOK'
    BY <2>1, <2>2 DEF TypeOK
  <2>4. OneVerdict'
    BY <2>2, VerdictKept
  <2>5. Flying' \in SUBSET Flying
    BY <1>3 DEF InsertNode, Flying, Pending
  <2> QED BY <2>1, <2>3, <2>4, <2>5, FewerFlying
<1>4. ASSUME NEW n \in Nodes, RemoveNode(n)
      PROVE  Inv'
  <2>1. /\ nodes' \in Seq(Nodes) /\ Len(nodes') <= MaxNodes
        /\ ToSet(nodes') = ToSet(nodes) \ {n}
        /\ NearestFirst'
    BY <1>4, AfterRemove
  <2>2. /\ queried' = queried \ {n} /\ replied' = replied \ {n}
        /\ queried_at' = [queried_at EXCEPT ![n] = 0]
        /\ UNCHANGED <<state, started_at, next_step_at, now, verdicts>>
    BY <1>4 DEF RemoveNode
  <2>3. TypeOK'
    BY <1>0, <2>1, <2>2 DEF TypeOK
  <2>4. OneVerdict'
    BY <2>2, VerdictKept
  <2>5. Flying' \in SUBSET Flying
    <3>1. \A m \in queried' : m # n /\ m \in Nodes /\ queried_at'[m] = queried_at[m]
      <4>1. queried \subseteq Nodes
        BY DEF TypeOK, ToSet
      <4> QED BY <2>2, <4>1 DEF TypeOK
    <3> QED BY <2>2, <3>1 DEF Flying, Pending
  <2> QED BY <2>1, <2>3, <2>4, <2>5, FewerFlying
<1>5. ASSUME NEW n \in Nodes, NodeReplied(n)
      PROVE  Inv'
  <2>1. n \in ToSet(nodes)
    BY <1>5, InSet DEF NodeReplied, TypeOK
  <2>2. TypeOK'
    BY <1>5, <2>1 DEF NodeReplied, TypeOK
  <2>3. NearestFirst' /\ OneVerdict'
    BY <1>5, VerdictKept DEF NodeReplied, NearestFirst
  <2>4. Flying' \in SUBSET Flying
    BY <1>5 DEF NodeReplied, Flying, Pending
  <2> QED BY <2>2, <2>3, <2>4, FewerFlying
<1>6. CASE StepQuery
  <2>1. PICK i \in DOMAIN nodes :
               /\ Fresh(i) /\ queried' = queried \cup {nodes[i]}
               /\ queried_at' = [queried_at EXCEPT ![nodes[i]] = now]
    BY <1>6 DEF StepQuery
  <2> DEFINE n == nodes[i]
  <2>2. /\ n \in ToSet(nodes) /\ n \in Nodes /\ n \notin queried
        /\ next_step_at' = now + Retransmit /\ MayQuery
        /\ UNCHANGED <<state, nodes, replied, started_at, now, verdicts>>
    BY <1>6, <2>1 DEF StepQuery, Fresh, TypeOK, ToSet
  <2>3. TypeOK'
    BY <1>0, <2>1, <2>2 DEF TypeOK
  <2>4. NearestFirst' /\ OneVerdict'
    BY <2>2, VerdictKept DEF NearestFirst
  <2>5. Flying' \in SUBSET (Flying \cup {n})
    <3>1. \A m \in queried : m # n /\ m \in Nodes /\ queried_at'[m] = queried_at[m]
      <4>1. queried \subseteq Nodes
        BY DEF TypeOK, ToSet
      <4> QED BY <2>1, <2>2, <4>1 DEF TypeOK
    <3> QED BY <2>1, <2>2, <3>1 DEF Flying, Pending
  <2>6. Cardinality(Flying \cup {n}) <= Inflight /\ IsFiniteSet(Flying \cup {n})
    <3>1. n \notin Flying
      BY <2>2 DEF Flying
    <3>2. /\ IsFiniteSet(Flying \cup {n})
          /\ Cardinality(Flying \cup {n}) = Cardinality(Flying) + 1
      BY <3>1, FlyingFinite, FS_AddElement
    <3>3. Cardinality(Flying) < Inflight
      BY <2>2 DEF MayQuery, Flying
    <3> QED BY <3>2, <3>3, <1>0, FlyingFinite
  <2>7. Cardinality(Flying') <= Inflight
    <3>1. /\ Cardinality(Flying') <= Cardinality(Flying \cup {n})
          /\ IsFiniteSet(Flying')
      BY <2>5, <2>6, FS_Subset
    <3>2. Cardinality(Flying') \in Nat /\ Cardinality(Flying \cup {n}) \in Nat
      BY <3>1, <2>6, FS_CardinalityType
    <3> QED BY <3>1, <3>2, <2>6, <1>0
  <2>8. InflightBound'
    BY <2>7 DEF InflightBound, Flying
  <2> QED BY <2>3, <2>4, <2>8
<1>7. CASE StepWait
  <2>1. TypeOK' /\ NearestFirst' /\ OneVerdict'
    BY <1>7, <1>0, VerdictKept DEF StepWait, nodeVars, TypeOK, NearestFirst
  <2>2. Flying' \in SUBSET Flying
    BY <1>7 DEF StepWait, nodeVars, Flying, Pending
  <2> QED BY <2>1, <2>2, FewerFlying
<1>8. CASE Tick
  <2>1. /\ now' = now + 1 /\ now' \in 0..MaxTime
        /\ UNCHANGED <<state, nodeVars, started_at, next_step_at, verdicts>>
    BY <1>8, <1>0 DEF Tick, TypeOK
  <2>2. started_at' \in 0..now' /\ queried_at' \in [Nodes -> 0..now']
    BY <1>0, <2>1 DEF TypeOK, nodeVars
  <2>3. TypeOK'
    BY <2>1, <2>2 DEF TypeOK, nodeVars
  <2>4. NearestFirst' /\ OneVerdict'
    BY <2>1, VerdictKept DEF nodeVars, NearestFirst
  <2>5. Flying' \in SUBSET Flying
    <3>1. \A m \in queried : queried_at[m] \in Nat
      <4>1. queried \subseteq Nodes
        BY DEF TypeOK, ToSet
      <4>2. queried_at \in [Nodes -> 0..now]
        BY DEF TypeOK
      <4> QED BY <1>0, <4>1, <4>2
    <3> QED BY <1>0, <2>1, <3>1 DEF nodeVars, Flying, Pending
  <2> QED BY <2>3, <2>4, <2>5, FewerFlying
<1>9. CASE UNCHANGED vars
  BY <1>9 DEF vars, nodeVars, TypeOK, NearestFirst, OneVerdict, Done,
     InflightBound, Pending
<1> QED BY <1>1, <1>2, <1>3, <1>4, <1>5, <1>6, <1>7, <1>8, <1>9
     DEF Next, Step


THEOREM SearchInv == Spec => []Inv
<1>1. Init => Inv
  BY InvInit
<1>2. Inv /\ [Next]_vars => Inv'
  BY InvNext
<1> QED BY <1>1, <1>2, PTL DEF Spec

\* Every variable stays in its range, and the array in its limit.
THEOREM SearchTypes == Spec => []TypeOK
<1>1. Inv => TypeOK
  BY DEF Inv
<1> QED BY <1>1, SearchInv, PTL

\* The array is in the order of distance and holds no node twice.
THEOREM SearchNearestFirst == Spec => []NearestFirst
<1>1. Inv => NearestFirst
  BY DEF Inv
<1> QED BY <1>1, SearchInv, PTL

\* No more than Inflight queries are in flight.
THEOREM SearchInflightBound == Spec => []InflightBound
<1>1. Inv => InflightBound
  BY DEF Inv
<1> QED BY <1>1, SearchInv, PTL

\* The array keeps its order, and the queries in flight their bound.
THEOREM SearchOrderAndBound == Spec => []OrderAndBound
BY SearchNearestFirst, SearchInflightBound, PTL DEF OrderAndBound

\* done_cb is called once, with the state the search ends in.
THEOREM SearchOneVerdict == Spec => []OneVerdict
<1>1. Inv => OneVerdict
  BY DEF Inv
<1> QED BY <1>1, SearchInv, PTL

\* While only queried nodes reply, a search that has not converged has a
\* node to ask or an answer to wait for.
THEOREM SearchNeverIdle == Spec => []NeverIdle
<1>1. ASSUME Inv
      PROVE  NeverIdle
  <2> SUFFICES ASSUME replied \subseteq queried, ~HasConverged,
                      ~\E n \in queried : Pending(n)
               PROVE  MayQuery /\ \E i \in DOMAIN nodes : Fresh(i)
    BY DEF NeverIdle
  <2>1. Inflight \in Nat \ {0} /\ nodes \in Seq(Nodes) /\ DOMAIN nodes = 1..Len(nodes)
    BY <1>1, SearchLimitsAssumption DEF Inv, TypeOK
  <2>2. MayQuery
    <3>1. {n \in queried : Pending(n)} = {}
      OBVIOUS
    <3>2. Cardinality({n \in queried : Pending(n)}) = 0
      BY <3>1, FS_EmptySet, Zenon
    <3> QED BY <2>1, <3>2 DEF MayQuery
  <2> DEFINE T == {i \in DOMAIN nodes : nodes[i] \notin queried \cup replied}
  <2>3. T # {}
    BY DEF HasConverged
  <2>4. T \in SUBSET Nat
    BY <2>1
  <2> HIDE DEF T
  <2>5. PICK i \in T : \A j \in T : i <= j
    BY <2>3, <2>4, LeastOf
  <2> USE DEF T
  <2>6. \A j \in 1..(i - 1) : j \in DOMAIN nodes /\ ~(i <= j)
    BY <2>1, <2>4, <2>5
  <2>7. Fresh(i)
    BY <2>5, <2>6 DEF Fresh
  <2> QED BY <2>2, <2>5, <2>7
<1> QED BY <1>1, SearchInv, PTL

-----------------------------------------------------------------------------
(* The refinement.                                                         *)

LEMMA PromiseInit ==
    ASSUME Init
    PROVE  Promise!Init
BY DEF Init, Promise!Init, ToSet

LEMMA PromiseStep ==
    ASSUME Inv, [Next]_vars
    PROVE  [Promise!Next]_(Promise!vars)
<1> USE DEF Promise!vars
<1>0. /\ Nodes \in SUBSET Nat /\ Inflight \in Nat
      /\ nodes \in Seq(Nodes) /\ Ascending(nodes)
  BY SearchNodesAssumption, SearchLimitsAssumption
     DEF Inv, TypeOK, NearestFirst, Ascending
<1>s. nodes \in Seq(Nat)
  BY <1>0, SeqMonotonic
<1>n. nodes \in Seq(Nat) /\ DOMAIN nodes = 1..Len(nodes) /\ Len(nodes) \in Nat
  BY <1>s
<1>1. CASE Start
  <2>1. Promise!Begin
    BY <1>1 DEF Start, nodeVars, Promise!Begin
  <2> QED BY <2>1 DEF Promise!Next
<1>2. CASE \/ Cancel \/ StepTimeout \/ MgrExpire
  <2>1. /\ ~Done /\ (Finish("timeout") \/ Finish("canceled"))
        /\ UNCHANGED nodeVars
    BY <1>2 DEF Cancel, StepTimeout, MgrExpire, Done
  <2>2. Promise!GiveUp
    BY <2>1 DEF Finish, Done, nodeVars, Promise!GiveUp, Inv, TypeOK
  <2> QED BY <2>2 DEF Promise!Next
<1>3. CASE StepDone
  <2>1. Promise!Nearest(ToSet(nodes)) \subseteq queried
    <3> SUFFICES ASSUME NEW n \in Promise!Nearest(ToSet(nodes))
                 PROVE  n \in queried
      OBVIOUS
    <3>a. \A S : Promise!Cardinality(S) = Cardinality(S)
      BY DEF Promise!Cardinality, Cardinality
    <3>1. n \in ToSet(nodes) /\ Cardinality({m \in ToSet(nodes) : m < n}) < Inflight
      BY <3>a DEF Promise!Nearest
    <3>2. PICK i \in DOMAIN nodes : nodes[i] = n
      BY <3>1 DEF ToSet
    <3>3. i <= Inflight
      BY <1>0, <1>n, <3>1, <3>2, RankOfElement
    <3> QED BY <1>3, <3>2, <3>3 DEF StepDone, HasConverged
  <2>2. Promise!Succeed
    BY <1>3, <2>1 DEF StepDone, Finish, nodeVars, Promise!Succeed
  <2> QED BY <2>2 DEF Promise!Next
<1>4. ASSUME NEW n \in Nodes, NEW has_replied \in BOOLEAN, InsertNode(n, has_replied)
      PROVE  Promise!Learn(n)
  <2>1. ToSet(nodes') = ToSet(nodes) \cup {n}
    BY <1>4, AfterInsert DEF Inv
  <2> QED BY <1>4, <2>1 DEF InsertNode, Done, Promise!Learn, Inv, TypeOK
<1>5. ASSUME NEW n \in Nodes, RemoveNode(n)
      PROVE  Promise!Forget(n)
  <2>1. ToSet(nodes') = ToSet(nodes) \ {n}
    BY <1>5, AfterRemove DEF Inv
  <2> QED BY <1>5, <2>1 DEF RemoveNode, Promise!Forget
<1>6. ASSUME NEW n \in Nodes, NodeReplied(n)
      PROVE  Promise!Hear(n)
  <2>1. n \in ToSet(nodes)
    BY <1>0, <1>6, InSet DEF NodeReplied
  <2> QED BY <1>6, <2>1 DEF NodeReplied, Promise!Hear
<1>7. CASE StepQuery
  <2>1. PICK i \in DOMAIN nodes : Fresh(i) /\ queried' = queried \cup {nodes[i]}
    BY <1>7 DEF StepQuery
  <2> DEFINE n == nodes[i]
  <2>2. n \in Nodes /\ n \in ToSet(nodes) /\ n \notin queried \cup replied
    BY <1>0, <2>1 DEF Fresh, ToSet
  <2>3. ASSUME NEW m \in ToSet(nodes), m < n
        PROVE  m \in queried \cup replied
    <3>1. PICK j \in DOMAIN nodes : nodes[j] = m
      BY DEF ToSet
    <3>2. i \in Nat /\ j \in Nat /\ m \in Nat /\ n \in Nat
      BY <1>n, <3>1
    <3>3. ~(i < j) /\ i # j
      BY <1>0, <2>3, <3>1, <3>2 DEF Ascending
    <3>4. j \in 1..(i - 1)
      BY <1>n, <3>2, <3>3
    <3> QED BY <2>1, <3>1, <3>4 DEF Fresh
  <2>4. Promise!Ask(n)
    BY <1>7, <2>1, <2>2, <2>3 DEF StepQuery, Promise!Ask
  <2> QED BY <2>2, <2>4 DEF Promise!Next
<1>8. CASE StepWait \/ Tick \/ UNCHANGED vars
  <2>1. UNCHANGED <<state, nodeVars>>
    BY <1>8 DEF StepWait, Tick, vars
  <2> QED BY <2>1 DEF nodeVars, ToSet
<1> QED BY <1>1, <1>2, <1>3, <1>4, <1>5, <1>6, <1>7, <1>8
     DEF Next, Step, Promise!Next

\* The search asks from the nearest on and each node once, succeeds only when
\* the nearest were asked, and keeps its verdict.
THEOREM SearchPromise == Spec => PromiseSpec
<1>1. Init => Promise!Init
  BY PromiseInit
<1>2. Inv /\ [Next]_vars => [Promise!Next]_(Promise!vars)
  BY PromiseStep
<1> QED BY <1>1, <1>2, SearchInv, PTL DEF Spec, PromiseSpec, Promise!Spec

\* A caller gets the steps of Lookup and one verdict.
THEOREM SearchKeepsPromise == Spec => KeepsPromise
BY SearchOneVerdict, SearchPromise, PTL DEF KeepsPromise

-----------------------------------------------------------------------------
(* The array of searches.  What makes a walk safe is that every place in   *)
(* it is either empty or holds a search that lives, and each search once,  *)
(* also in the middle of a walk whose callbacks free searches; places are  *)
(* emptied, and not removed, only while everything is cleared.             *)

CONSTANTS Searches, StartCapacity
VARIABLES allocated, searches, capacity, phase, frees, began, walk

Manager == INSTANCE SearchManager

ManagerTypes ==
    /\ allocated \subseteq Searches /\ frees \subseteq Searches
    /\ searches \in Seq(Searches \cup {0}) /\ capacity \in Nat \ {0} /\ Len(searches) <= capacity
    /\ phase \in [Searches -> {"init", "running", "done"}]
    /\ began \in [Searches -> 0..MaxTime] /\ now \in 0..MaxTime
    /\ walk \in [call : {"none", "step", "expire", "clear"}, at : Nat]
    /\ walk.call # "none" => walk.at # 0

\* What an array of searches is between any two steps.
Listed(s, live) ==
    /\ \A i \in 1..Len(s) : s[i] = 0 \/ s[i] \in live
    /\ \A i, j \in 1..Len(s) : s[i] = s[j] /\ s[i] # 0 => i = j
Full(s) == \A i \in 1..Len(s) : s[i] # 0

ManagerInv ==
    /\ ManagerTypes /\ Listed(searches, allocated)
    /\ walk.call # "clear" => Full(searches)

\* Removing a search leaves an array of the others.
LEMMA RemoveSearch ==
    ASSUME Manager!ManagerAssumption, ManagerInv, NEW x \in Searches, NEW t, t = Manager!Without(x)
    PROVE  /\ t \in Seq(Searches \cup {0}) /\ Len(t) <= capacity
           /\ Listed(t, allocated \ {x})
           /\ Full(searches) => Full(t)
<1>0. /\ searches \in Seq(Searches \cup {0}) /\ Len(searches) <= capacity /\ capacity \in Nat
      /\ Len(searches) \in Nat /\ x # 0 /\ Listed(searches, allocated)
  BY DEF ManagerInv, ManagerTypes, Manager!ManagerAssumption
<1> DEFINE I == {i \in 1..Len(searches) : searches[i] = x}
           k == CHOOSE i \in I : \A j \in I : i <= j
<1>1. CASE I = {}
  <2>1. t = searches
    BY <1>1 DEF Manager!Without, Manager!RemoveFirst
  <2>2. \A i \in 1..Len(searches) : searches[i] # x
    BY <1>1
  <2> QED BY <1>0, <2>1, <2>2 DEF Listed
<1>2. CASE I # {}
  <2>1. t = RemoveAt(searches, k)
    BY <1>2 DEF Manager!Without, Manager!RemoveFirst, Manager!SelectInSeq, Manager!Min,
                Manager!RemoveAt, RemoveAt
  <2>2. k \in I
    <3>1. I \in SUBSET Nat
      OBVIOUS
    <3> HIDE DEF I
    <3>2. \E n \in I : \A m \in I : n <= m
      BY <1>2, <3>1, LeastOf
    <3> QED BY <3>2
  <2>3. k \in 1..Len(searches) /\ searches[k] = x
    BY <2>2
  <2> HIDE DEF I, k
  <2>4. /\ t \in Seq(Searches \cup {0}) /\ Len(t) = Len(searches) - 1
        /\ \A j \in 1..(Len(searches) - 1) : t[j] = IF j < k THEN searches[j] ELSE searches[j + 1]
    BY <1>0, <2>1, <2>3, RemoveAtFacts
  <2> DEFINE from(j) == IF j < k THEN j ELSE j + 1
  <2>5. ASSUME NEW j \in 1..Len(t)
        PROVE  from(j) \in 1..Len(searches) /\ from(j) # k /\ t[j] = searches[from(j)]
    BY <1>0, <2>3, <2>4
  <2>6. ASSUME NEW i \in 1..Len(t), NEW j \in 1..Len(t), from(i) = from(j) PROVE i = j
    BY <1>0, <2>3, <2>4, <2>6
  <2> HIDE DEF from
  <2>7. \A j \in 1..Len(t) : t[j] # x
    BY <1>0, <2>3, <2>5 DEF Listed
  <2>8. Listed(t, allocated \ {x})
    <3>1. \A j \in 1..Len(t) : t[j] = 0 \/ t[j] \in allocated \ {x}
      BY <1>0, <2>5, <2>7 DEF Listed
    <3>2. ASSUME NEW i \in 1..Len(t), NEW j \in 1..Len(t), t[i] = t[j], t[i] # 0 PROVE i = j
      <4>1. searches[from(i)] = searches[from(j)] /\ searches[from(i)] # 0
        BY <2>5, <3>2
      <4>2. from(i) = from(j)
        BY <1>0, <2>5, <4>1 DEF Listed
      <4> QED BY <2>6, <4>2
    <3> QED BY <3>1, <3>2 DEF Listed
  <2>9. Full(searches) => Full(t)
    BY <2>5 DEF Full
  <2>10. Len(t) <= capacity
    BY <1>0, <2>4
  <2> QED BY <2>4, <2>8, <2>9, <2>10
<1> QED BY <1>1, <1>2

\* A search that ends, or is freed, in whatever call.
LEMMA SearchEnded ==
    ASSUME Manager!ManagerAssumption, ManagerInv, NEW x \in Searches,
           \/ Manager!Finished(x)
           \/ Manager!Released({x}) /\ searches' = Manager!Without(x),
           walk' \in [call : {"none", "step", "expire", "clear"}, at : Nat],
           walk'.call = walk.call, walk.call # "none" => walk'.at # 0,
           UNCHANGED <<capacity, now>>
    PROVE  ManagerInv'
<1>0. /\ ManagerTypes /\ Listed(searches, allocated) /\ (walk.call # "clear" => Full(searches))
      /\ MaxTime \in Nat
  BY DEF ManagerInv, Manager!ManagerAssumption
<1>1. CASE Manager!Released({x}) /\ searches' = Manager!Without(x)
  <2>1. /\ searches' \in Seq(Searches \cup {0}) /\ Len(searches') <= capacity
        /\ Listed(searches', allocated \ {x}) /\ (Full(searches) => Full(searches'))
    BY <1>1, RemoveSearch
  <2>2. /\ allocated' = allocated \ {x} /\ frees' \subseteq Searches
        /\ phase' \in [Searches -> {"init", "running", "done"}]
        /\ began' \in [Searches -> 0..MaxTime]
    BY <1>0, <1>1 DEF Manager!Released, ManagerTypes
  <2>3. ManagerTypes'
    BY <1>0, <2>1, <2>2 DEF ManagerTypes
  <2> QED BY <1>0, <2>1, <2>2, <2>3 DEF ManagerInv
<1>2. CASE /\ phase' = [phase EXCEPT ![x] = "done"]
           /\ UNCHANGED <<allocated, searches, frees, began>>
  <2>1. ManagerTypes'
    BY <1>0, <1>2 DEF ManagerTypes
  <2> QED BY <1>0, <1>2, <2>1 DEF ManagerInv
<1> QED BY <1>1, <1>2 DEF Manager!Finished

\* The calls between the walks, and the clock.
LEMMA BetweenWalks ==
    ASSUME Manager!ManagerAssumption, ManagerInv,
           \/ \E s \in Searches, f \in BOOLEAN : Manager!New(s, f)
           \/ \E s \in Searches : Manager!Start(s) \/ Manager!Free(s) \/ Manager!Cancel(s)
           \/ Manager!Begin("step") \/ Manager!Begin("clear") \/ Manager!Tick
    PROVE  ManagerInv'
<1>0. /\ ManagerTypes /\ Listed(searches, allocated) /\ (walk.call # "clear" => Full(searches))
      /\ 0 \notin Searches /\ MaxTime \in Nat
  BY DEF ManagerInv, Manager!ManagerAssumption
<1>1. ASSUME NEW s \in Searches, NEW f \in BOOLEAN, Manager!New(s, f) PROVE ManagerInv'
  <2>0. /\ walk.call = "none" /\ s \notin allocated /\ allocated' = allocated \cup {s}
        /\ capacity' = IF Len(searches) >= capacity THEN 2 * capacity ELSE capacity
        /\ searches' = Append(searches, s)
        /\ phase' = [phase EXCEPT ![s] = "init"] /\ began' = [began EXCEPT ![s] = now]
        /\ UNCHANGED <<walk, now>>
    BY <1>1 DEF Manager!New, Manager!Idle
  <2>1. frees' \subseteq Searches
    <3>1. frees' = frees \cup {s} \/ frees' = frees \ {s}
      BY <1>1 DEF Manager!New
    <3> QED BY <1>0, <3>1 DEF ManagerTypes
  <2>2. /\ Len(searches') = Len(searches) + 1 /\ Len(searches) \in Nat
        /\ searches' \in Seq(Searches \cup {0})
        /\ searches'[Len(searches) + 1] = s
        /\ \A i \in 1..Len(searches) : searches'[i] = searches[i]
        /\ \A i \in 1..(Len(searches) + 1) : i \in 1..Len(searches) \/ i = Len(searches) + 1
    BY <1>0, <2>0 DEF ManagerTypes
  <2>3. capacity' \in Nat \ {0} /\ Len(searches') <= capacity'
    BY <1>0, <2>0, <2>2 DEF ManagerTypes
  <2>4. ManagerTypes'
    BY <1>0, <2>0, <2>1, <2>2, <2>3 DEF ManagerTypes
  <2>5. Listed(searches', allocated')
    <3>1. \A i \in 1..Len(searches') : searches'[i] = 0 \/ searches'[i] \in allocated'
      BY <1>0, <2>0, <2>2 DEF Listed
    <3>2. \A i \in 1..Len(searches) : searches'[i] # s
      BY <1>0, <2>0, <2>2 DEF Listed
    <3>3. ASSUME NEW i \in 1..Len(searches'), NEW j \in 1..Len(searches'),
                 searches'[i] = searches'[j], searches'[i] # 0
          PROVE  i = j
      <4>1. CASE i \in 1..Len(searches) /\ j \in 1..Len(searches)
        BY <1>0, <2>2, <3>3, <4>1 DEF Listed
      <4> QED BY <2>2, <3>2, <3>3, <4>1
    <3> QED BY <3>1, <3>3 DEF Listed
  <2>6. Full(searches')
    BY <1>0, <2>0, <2>2 DEF Full
  <2> QED BY <2>4, <2>5, <2>6 DEF ManagerInv
<1>2. ASSUME NEW s \in Searches, Manager!Start(s) PROVE ManagerInv'
  <2>1. /\ phase' = [phase EXCEPT ![s] = "running"] /\ began' = [began EXCEPT ![s] = now]
        /\ UNCHANGED <<allocated, searches, capacity, frees, walk, now>>
    BY <1>2 DEF Manager!Start
  <2>2. ManagerTypes'
    BY <1>0, <2>1 DEF ManagerTypes
  <2> QED BY <1>0, <2>1, <2>2 DEF ManagerInv
<1>3. ASSUME NEW s \in Searches, Manager!Free(s) \/ Manager!Cancel(s) PROVE ManagerInv'
  <2>1. /\ \/ Manager!Finished(s)
           \/ Manager!Released({s}) /\ searches' = Manager!Without(s)
        /\ UNCHANGED <<capacity, walk, now>>
    BY <1>3 DEF Manager!Free, Manager!Cancel
  <2>2. /\ walk' \in [call : {"none", "step", "expire", "clear"}, at : Nat]
        /\ walk'.call = walk.call /\ (walk.call # "none" => walk'.at # 0)
    BY <1>0, <2>1 DEF ManagerTypes
  <2> QED BY <2>1, <2>2, SearchEnded
<1>4. ASSUME NEW c \in {"step", "clear"}, Manager!Begin(c) PROVE ManagerInv'
  <2>1. /\ walk.call = "none" /\ walk' = [call |-> c, at |-> 1]
        /\ UNCHANGED <<allocated, searches, capacity, phase, frees, began, now>>
    BY <1>4 DEF Manager!Begin, Manager!Idle
  <2>2. /\ walk' \in [call : {"none", "step", "expire", "clear"}, at : Nat]
        /\ walk'.at # 0
    BY <2>1
  <2>3. ManagerTypes'
    BY <1>0, <2>1, <2>2 DEF ManagerTypes
  <2> QED BY <1>0, <2>1, <2>3 DEF ManagerInv
<1>5. CASE Manager!Tick
  <2>1. /\ now < MaxTime /\ now' = now + 1
        /\ UNCHANGED <<allocated, searches, capacity, phase, frees, began, walk>>
    BY <1>5 DEF Manager!Tick, Manager!managerVars, Manager!objects
  <2>2. now' \in 0..MaxTime
    BY <1>0, <2>1 DEF ManagerTypes
  <2>3. ManagerTypes'
    BY <1>0, <2>1, <2>2 DEF ManagerTypes
  <2> QED BY <1>0, <2>1, <2>3 DEF ManagerInv
<1> QED BY <1>1, <1>2, <1>3, <1>4, <1>5

\* The walks: at each place they may end the search there, or empty the place.
LEMMA WalkStep ==
    ASSUME Manager!ManagerAssumption, ManagerInv,
           Manager!StepHere \/ Manager!ExpireHere \/ Manager!ClearHere \/ Manager!End
    PROVE  ManagerInv'
<1>0. /\ ManagerTypes /\ Listed(searches, allocated) /\ (walk.call # "clear" => Full(searches))
      /\ 0 \notin Searches /\ MaxTime \in Nat
  BY DEF ManagerInv, Manager!ManagerAssumption
<1> DEFINE Here == searches[walk.at]
<1>1. ASSUME walk.call # "none", walk.at <= Len(searches), Manager!Onward
      PROVE  /\ walk' \in [call : {"none", "step", "expire", "clear"}, at : Nat]
             /\ walk'.call = walk.call /\ walk'.at # 0
             /\ Here \in Searches \cup {0}
  <2> DEFINE w == walk
  <2>1. w \in [call : {"none", "step", "expire", "clear"}, at : Nat]
    BY <1>0 DEF ManagerTypes
  <2>2. walk' = [w EXCEPT !.at = @ + 1]
    BY <1>1 DEF Manager!Onward
  <2> HIDE DEF w
  <2>3. /\ walk' \in [call : {"none", "step", "expire", "clear"}, at : Nat]
        /\ walk'.call = w.call /\ walk'.at # 0
    BY <2>1, <2>2
  <2>4. walk.at \in 1..Len(searches)
    BY <1>0, <1>1 DEF ManagerTypes
  <2> QED BY <1>0, <2>3, <2>4 DEF ManagerTypes, w
<1>2. ASSUME UNCHANGED Manager!objects, UNCHANGED <<capacity, now>>,
             walk' \in [call : {"none", "step", "expire", "clear"}, at : Nat],
             walk'.call = walk.call, walk'.at # 0
      PROVE  ManagerInv'
  <2>1. UNCHANGED <<allocated, searches, phase, frees, began>>
    BY <1>2 DEF Manager!objects
  <2>2. ManagerTypes'
    BY <1>0, <1>2, <2>1 DEF ManagerTypes
  <2> QED BY <1>0, <1>2, <2>1, <2>2 DEF ManagerInv
<1>3. CASE Manager!StepHere
  <2>1. /\ walk.call # "none" /\ walk.at <= Len(searches) /\ Manager!Onward
        /\ UNCHANGED <<capacity, now>>
        /\ (Here # 0 /\ Manager!Finished(Here)) \/ UNCHANGED Manager!objects
    BY <1>3 DEF Manager!StepHere, Manager!Walking, Manager!Here
  <2> HIDE DEF Here
  <2>2. CASE Here # 0 /\ Manager!Finished(Here)
    <3>1. PICK x \in Searches : x = Here
      BY <1>1, <2>1, <2>2
    <3> QED BY <1>1, <2>1, <2>2, <3>1, SearchEnded
  <2> QED BY <1>1, <1>2, <2>1, <2>2
<1>4. CASE Manager!ExpireHere
  <2>1. /\ walk.call # "none" /\ walk.at <= Len(searches) /\ Manager!Onward
        /\ UNCHANGED <<capacity, now>>
        /\ (Here # 0 /\ Manager!Finished(Here)) \/ UNCHANGED Manager!objects
    BY <1>4 DEF Manager!ExpireHere, Manager!Walking, Manager!Here, Manager!Overdue
  <2> HIDE DEF Here
  <2>2. CASE Here # 0 /\ Manager!Finished(Here)
    <3>1. PICK x \in Searches : x = Here
      BY <1>1, <2>1, <2>2
    <3> QED BY <1>1, <2>1, <2>2, <3>1, SearchEnded
  <2> QED BY <1>1, <1>2, <2>1, <2>2
<1>5. CASE Manager!ClearHere
  <2>1. /\ walk.call = "clear" /\ walk.at <= Len(searches) /\ Manager!Onward
        /\ UNCHANGED <<capacity, now>>
    BY <1>5 DEF Manager!ClearHere, Manager!Walking
  <2>2. CASE Here = 0
    <3>1. UNCHANGED Manager!objects
      BY <1>5, <2>2 DEF Manager!ClearHere, Manager!Here
    <3> QED BY <1>1, <1>2, <2>1, <3>1
  <2>3. CASE Here # 0
    <3>0. PICK x \in Searches : x = Here
      BY <1>1, <2>1, <2>3
    <3> DEFINE rest == Manager!Without(x)
    <3>1. /\ Manager!Released({x})
          /\ searches' = IF walk.at <= Len(rest) THEN [rest EXCEPT ![walk.at] = 0] ELSE rest
      BY <1>5, <2>3, <3>0 DEF Manager!ClearHere, Manager!Here
    <3>2. /\ rest \in Seq(Searches \cup {0}) /\ Len(rest) <= capacity
          /\ Listed(rest, allocated \ {x})
      BY RemoveSearch
    <3> HIDE DEF rest
    <3>3. /\ searches' \in Seq(Searches \cup {0}) /\ Len(searches') = Len(rest)
          /\ \A i \in 1..Len(rest) : searches'[i] \in {0, rest[i]}
      BY <3>1, <3>2
    <3>4. Listed(searches', allocated \ {x})
      BY <3>2, <3>3 DEF Listed
    <3>5. /\ allocated' = allocated \ {x} /\ frees' \subseteq Searches
          /\ phase' \in [Searches -> {"init", "running", "done"}]
          /\ began' \in [Searches -> 0..MaxTime]
      BY <1>0, <3>1 DEF Manager!Released, ManagerTypes
    <3>6. ManagerTypes'
      BY <1>0, <1>1, <2>1, <3>2, <3>3, <3>5 DEF ManagerTypes
    <3> QED BY <1>1, <2>1, <3>4, <3>5, <3>6 DEF ManagerInv
  <2> QED BY <2>2, <2>3
<1>6. CASE Manager!End
  <2>1. /\ walk.call # "none"
        /\ walk' = IF walk.call = "step" THEN [call |-> "expire", at |-> 1]
                   ELSE [call |-> "none", at |-> 0]
        /\ searches' = IF walk.call = "clear" THEN <<>> ELSE searches
        /\ UNCHANGED <<allocated, capacity, phase, frees, began, now>>
    BY <1>6 DEF Manager!End, Manager!Idle, Manager!Resting
  <2>2. /\ walk' \in [call : {"none", "step", "expire", "clear"}, at : Nat]
        /\ walk'.call # "none" => walk'.at # 0
        /\ walk'.call # "clear"
    BY <2>1
  <2>3. /\ searches' \in Seq(Searches \cup {0}) /\ Len(searches') <= capacity
        /\ Listed(searches', allocated) /\ Full(searches')
    BY <1>0, <2>1 DEF ManagerTypes, Listed, Full
  <2>4. ManagerTypes'
    BY <1>0, <2>1, <2>2, <2>3 DEF ManagerTypes
  <2> QED BY <2>1, <2>2, <2>3, <2>4 DEF ManagerInv
<1> QED BY <1>3, <1>4, <1>5, <1>6

\* The search manager (dht_search.c): whatever searches come, end, are cancelled or free
\* themselves in their done callback while the array is walked, no place of the array
\* names a freed search, and between the calls it holds each of its searches once, within
\* what was allocated, and no null.
THEOREM SearchesNoneFreed ==
    ASSUME Manager!ManagerAssumption
    PROVE  Manager!Spec => [](Manager!TypeOK /\ Manager!NoneFreed /\ Manager!EachOnce)
<1>1. Manager!Init /\ now = 0 => ManagerInv
  <2> SUFFICES ASSUME Manager!Init, now = 0 PROVE ManagerInv
    OBVIOUS
  <2>1. /\ allocated = {} /\ searches = <<>> /\ capacity = StartCapacity
        /\ phase = [s \in Searches |-> "init"] /\ frees = {}
        /\ began = [s \in Searches |-> 0] /\ walk = [call |-> "none", at |-> 0]
        /\ StartCapacity \in Nat \ {0} /\ MaxTime \in Nat
    BY DEF Manager!Init, Manager!Resting, Manager!ManagerAssumption
  <2>2. searches \in Seq(Searches \cup {0}) /\ Len(searches) = 0
    BY <2>1
  <2>3. ManagerTypes
    BY <2>1, <2>2 DEF ManagerTypes
  <2> QED BY <2>2, <2>3 DEF ManagerInv, Listed, Full
<1>2. ManagerInv /\ [Manager!Next]_(Manager!vars) => ManagerInv'
  <2>1. ASSUME ManagerInv, Manager!Next PROVE ManagerInv'
    BY <2>1, BetweenWalks, WalkStep DEF Manager!Next
  <2>2. ASSUME ManagerInv, UNCHANGED Manager!vars PROVE ManagerInv'
    BY <2>2 DEF Manager!vars, Manager!managerVars, Manager!objects, ManagerInv, ManagerTypes
  <2> QED BY <2>1, <2>2
<1>3. ManagerInv => Manager!TypeOK /\ Manager!NoneFreed /\ Manager!EachOnce
  <2> SUFFICES ASSUME ManagerInv PROVE Manager!TypeOK /\ Manager!NoneFreed /\ Manager!EachOnce
    OBVIOUS
  <2>1. /\ ManagerTypes /\ Listed(searches, allocated) /\ (walk.call # "clear" => Full(searches))
        /\ DOMAIN searches = 1..Len(searches)
    BY DEF ManagerInv, ManagerTypes
  <2>2. Manager!TypeOK
    BY <2>1 DEF ManagerTypes, Manager!TypeOK
  <2>3. Manager!NoneFreed /\ Manager!EachOnce
    BY <2>1 DEF Listed, Full, Manager!NoneFreed, Manager!EachOnce, Manager!Idle
  <2> QED BY <2>2, <2>3
<1> QED BY <1>1, <1>2, <1>3, PTL DEF Manager!Spec
=============================================================================
