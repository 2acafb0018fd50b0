------------------------------ MODULE HashMap -------------------------------
(***************************************************************************)
(* The chained hash map of core/src/util/hashmap.c.  The map for strings   *)
(* and the one for binary keys have the same code but for the hash and the *)
(* comparison of keys; both are covered by an arbitrary function Hash.     *)
(*                                                                         *)
(* Values belong to someone: to the caller until they are stored, to the   *)
(* map until it frees them or hands them back.  Callers do not store what  *)
(* they do not own.                                                        *)
(***************************************************************************)
EXTENDS Integers, FiniteSets

CONSTANTS
    Keys, Vals,
    Hash,           \* the full hash of each key
    StartCapacity,  \* a power of two
    MaxCapacity     \* HASHMAP_MAX_CAPACITY, 2^30 in the code

MapAssumption ==
    /\ Hash \in [Keys -> Nat]
    /\ StartCapacity \in Nat \ {0} /\ MaxCapacity \in Nat /\ StartCapacity <= MaxCapacity

VARIABLES
    capacity, count,
    buckets,    \* the entries of each chain, in any order; indexed from 0
    owner       \* of each value: "caller", "map" or "freed"

vars == <<capacity, count, buckets, owner>>

EntrySet == [key : Keys, value : Vals]

TypeOK ==
    /\ capacity \in StartCapacity..MaxCapacity /\ count \in Nat
    /\ buckets \in [0..(capacity - 1) -> SUBSET EntrySet]
    /\ owner \in [Vals -> {"caller", "map", "freed"}]

\* wingo_hashmap_new
Init ==
    /\ capacity = StartCapacity /\ count = 0
    /\ buckets = [i \in 0..(StartCapacity - 1) |-> {}]
    /\ owner = [v \in Vals |-> "caller"]

-----------------------------------------------------------------------------
\* hash_to_index: hash & (capacity - 1), for a capacity that is a power of two
Index(k, cap) == Hash[k] % cap

Entry(k, v) == [key |-> k, value |-> v]
Chain(k) == buckets[Index(k, capacity)]
Has(k) == \E e \in Chain(k) : e.key = k
Found(k) == CHOOSE e \in Chain(k) : e.key = k

\* hashmap_needs_grow: more than three quarters full, before the new entry
NeedsGrow == count * 4 > capacity * 3

Entries == UNION {buckets[i] : i \in DOMAIN buckets}

\* hashmap_grow moves every entry to its new chain.
Grown ==
    [i \in 0..(2 * capacity - 1) |-> {e \in Entries : Index(e.key, 2 * capacity) = i}]

Replace(k, v) ==
    /\ Has(k)
    /\ buckets' = [buckets EXCEPT ![Index(k, capacity)] = (@ \ {Found(k)}) \cup {Entry(k, v)}]
    /\ owner' = [owner EXCEPT ![Found(k).value] = "freed", ![v] = "map"]
    /\ UNCHANGED <<capacity, count>>

Insert(k, v) ==
    /\ ~Has(k)
    /\ NeedsGrow => 2 * capacity <= MaxCapacity
    /\ capacity' = IF NeedsGrow THEN 2 * capacity ELSE capacity
    /\ buckets' = [(IF NeedsGrow THEN Grown ELSE buckets)
                      EXCEPT ![Index(k, capacity')] = @ \cup {Entry(k, v)}]
    /\ owner' = [owner EXCEPT ![v] = "map"]
    /\ count' = count + 1

\* wingo_hashmap_set, which fails at the largest capacity
Set(k, v) == owner[v] = "caller" /\ (Replace(k, v) \/ Insert(k, v))

\* wingo_hashmap_remove hands the value back.
RemoveKey(k) ==
    /\ Has(k)
    /\ owner' = [owner EXCEPT ![Found(k).value] = "caller"]
    /\ buckets' = [buckets EXCEPT ![Index(k, capacity)] = @ \ {Found(k)}]
    /\ count' = count - 1
    /\ UNCHANGED capacity

\* wingo_hashmap_clear; the capacity stays
Clear ==
    /\ owner' = [v \in Vals |-> IF owner[v] = "map" THEN "freed" ELSE owner[v]]
    /\ buckets' = [i \in DOMAIN buckets |-> {}]
    /\ count' = 0
    /\ UNCHANGED capacity

Next ==
    \/ \E k \in Keys, v \in Vals : Set(k, v)
    \/ \E k \in Keys : RemoveKey(k)
    \/ Clear

Spec == Init /\ [][Next]_vars

-----------------------------------------------------------------------------
\* A key is found, whatever was inserted, removed and rehashed before, exactly if
\* its entry exists; there is one entry per key; count is their number; and the
\* map owns exactly the values it holds, so none is freed twice or leaked.
Consistent ==
    /\ count = Cardinality(Entries)
    /\ \A e, f \in Entries : e.key = f.key \/ e.value = f.value => e = f
    /\ \A e \in Entries : Has(e.key)
    /\ {v \in Vals : owner[v] = "map"} = {e.value : e \in Entries}
=============================================================================
