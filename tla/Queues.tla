------------------------------- MODULE Queues -------------------------------
(***************************************************************************)
(* The two queues of core/src/util/queue.c: wingo_queue_t, a linked list,  *)
(* and wingo_ring_t, a ring in an array whose size is a power of two.      *)
(* Neither locks; the thread pool calls its queue with its mutex held.     *)
(***************************************************************************)
EXTENDS Integers, Sequences, FiniteSetsExt

CONSTANTS
    Data,
    MaxItems,       \* the memory for nodes: a bound on the linked queue
    Asked           \* the capacity asked of wingo_ring_new

VARIABLES
    kind,           \* "queue" or "ring"
    head, tail,     \* nodes of the queue, 0 is null; or indexes of the ring
    count,
    next, data,     \* the queue's nodes
    slots,          \* ring->items
    result

vars == <<kind, head, tail, count, next, data, slots, result>>

\* wingo_ring_new rounds the capacity up to a power of two; the queue has none.
Size == 2 ^ Min({n \in 0..Asked : 2 ^ n >= Asked})
Limit == IF kind = "ring" THEN Size ELSE MaxItems

QueueAssumption ==
    /\ MaxItems \in Nat \ {0} /\ Asked \in Nat \ {0} /\ Size \in Nat \ {0}
    /\ Data # {} /\ "free" \notin Data

Nodes == 1..MaxItems
Indexes == 0..(Size - 1)

TypeOK ==
    /\ kind \in {"queue", "ring"}
    /\ head \in Nodes \cup Indexes \cup {0} /\ tail \in Nodes \cup Indexes \cup {0}
    /\ count \in 0..Limit
    /\ next \in [Nodes -> Nodes \cup {0}] /\ data \in [Nodes -> Data \cup {"free"}]
    /\ slots \in [Indexes -> Data \cup {"NULL"}]
    /\ result \in Data \cup {"none", "SUCCESS", "OVERFLOW", "NULL"}

Init ==
    /\ kind \in {"queue", "ring"}
    /\ head = 0 /\ tail = 0 /\ count = 0
    /\ next = [n \in Nodes |-> 0] /\ data = [n \in Nodes |-> "free"]
    /\ slots = [i \in Indexes |-> "NULL"]
    /\ result = "none"

-----------------------------------------------------------------------------
QueuePush(d) ==
    /\ kind = "queue" /\ count < MaxItems
    /\ LET n == Min({m \in Nodes : data[m] = "free"}) IN
       /\ data' = [data EXCEPT ![n] = d]
       /\ next' = [m \in Nodes |-> IF m = n THEN 0 ELSE IF m = tail THEN n ELSE next[m]]
       /\ head' = IF tail = 0 THEN n ELSE head
       /\ tail' = n
    /\ count' = count + 1 /\ result' = "SUCCESS"
    /\ UNCHANGED <<kind, slots>>

QueuePop_Bug ==
    /\ kind = "queue" /\ head # 0
    /\ head' = next[head]
    /\ result' = data[head]
    /\ data' = [data EXCEPT ![head] = "free"] /\ next' = [next EXCEPT ![head] = 0]
    /\ count' = count - 1
    /\ UNCHANGED <<kind, tail, slots>>

\* A null tail is what makes the next push set head again.
QueuePop ==
    /\ kind = "queue" /\ head # 0
    /\ head' = next[head]
    /\ tail' = IF next[head] = 0 THEN 0 ELSE tail
    /\ result' = data[head]
    /\ data' = [data EXCEPT ![head] = "free"] /\ next' = [next EXCEPT ![head] = 0]
    /\ count' = count - 1
    /\ UNCHANGED <<kind, slots>>

QueueClear ==
    /\ kind = "queue"
    /\ head' = 0 /\ tail' = 0 /\ count' = 0
    /\ data' = [n \in Nodes |-> "free"] /\ next' = [n \in Nodes |-> 0]
    /\ result' = "none"
    /\ UNCHANGED <<kind, slots>>

-----------------------------------------------------------------------------
\* (i + 1) & (capacity - 1)
After(i) == (i + 1) % Size

RingPush(d) ==
    /\ kind = "ring" /\ count < Size
    /\ slots' = [slots EXCEPT ![tail] = d]
    /\ tail' = After(tail) /\ count' = count + 1 /\ result' = "SUCCESS"
    /\ UNCHANGED <<kind, head, next, data>>

RingFull ==
    /\ kind = "ring" /\ count >= Size
    /\ result' = "OVERFLOW"
    /\ UNCHANGED <<kind, head, tail, count, next, data, slots>>

RingPop ==
    /\ kind = "ring" /\ count > 0
    /\ result' = slots[head]
    /\ slots' = [slots EXCEPT ![head] = "NULL"]
    /\ head' = After(head) /\ count' = count - 1
    /\ UNCHANGED <<kind, tail, next, data>>

RingClear ==
    /\ kind = "ring"
    /\ slots' = [i \in Indexes |-> "NULL"]
    /\ head' = 0 /\ tail' = 0 /\ count' = 0 /\ result' = "none"
    /\ UNCHANGED <<kind, next, data>>

\* Pop of an empty queue or ring
PopEmpty ==
    /\ count = 0 /\ (kind = "queue" => head = 0)
    /\ result' = "NULL"
    /\ UNCHANGED <<kind, head, tail, count, next, data, slots>>

Next ==
    \/ \E d \in Data : QueuePush(d) \/ RingPush(d)
    \/ QueuePop \/ QueueClear \/ RingFull \/ RingPop \/ RingClear \/ PopEmpty

Spec == Init /\ [][Next]_vars

-----------------------------------------------------------------------------
\* s is the queue's nodes from head to tail: all that are not free, each once, linked.
IsChain(s) ==
    /\ head = IF count = 0 THEN 0 ELSE s[1]
    /\ tail = IF count = 0 THEN 0 ELSE s[count]
    /\ \A i \in 1..count : next[s[i]] = IF i = count THEN 0 ELSE s[i + 1]
    /\ \A i, j \in 1..count : s[i] = s[j] => i = j
    /\ {n \in Nodes : data[n] # "free"} = {s[i] : i \in 1..count}

\* A queue's pointers lead through all its nodes; a ring's indexes are count apart.
WellLinked ==
    /\ kind = "queue" => \E s \in [1..count -> Nodes] : IsChain(s)
    /\ kind = "ring" => head \in Indexes /\ tail = (head + count) % Size

\* The elements in the order in which pop returns them
Chain == CHOOSE s \in [1..count -> Nodes] : IsChain(s)
Contents ==
    IF kind = "queue" THEN [i \in 1..count |-> data[Chain[i]]]
    ELSE [i \in 1..count |-> slots[(head + i - 1) % Size]]

Promise == INSTANCE FifoPromise WITH items <- Contents, capacity <- Limit
\* Whatever mix of pushes, pops and clears, through wraps of the ring, both
\* return the elements in the order they came, and the ring refuses a push only
\* when it holds its capacity, rounded up.
Implements == Promise!Spec
=============================================================================
