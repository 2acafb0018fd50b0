------------------------------- MODULE Buffer -------------------------------
(***************************************************************************)
(* The byte buffer of core/src/util/buffer.c: bytes, a capacity that grows *)
(* by doubling, and a read cursor that insertions and removals move.       *)
(***************************************************************************)
EXTENDS Integers, Sequences

CONSTANTS
    Byte,
    MaxChunk,           \* bound: bytes given or asked for in one call
    DefaultCapacity,    \* BUFFER_DEFAULT_CAPACITY, 64 in the code
    MaxCapacity         \* BUFFER_MAX_CAPACITY, 2^30 in the code

BufferAssumption ==
    /\ MaxChunk \in Nat
    /\ DefaultCapacity \in Nat \ {0} /\ MaxCapacity \in Nat /\ DefaultCapacity <= MaxCapacity

VARIABLES
    data,   \* the first len bytes
    cap, read

vars == <<data, cap, read>>

Chunks == UNION {[1..n -> Byte] : n \in 1..MaxChunk}

TypeOK ==
    /\ data \in Seq(Byte) /\ Len(data) <= cap
    /\ cap \in 0..MaxCapacity /\ read \in 0..Len(data)

\* wingo_buf_new, which takes 0 for the default
Init == data = <<>> /\ cap = DefaultCapacity /\ read = 0

-----------------------------------------------------------------------------
Least(a, b) == IF a < b THEN a ELSE b
Most(a, b) == IF a < b THEN b ELSE a

\* buffer_next_capacity
NextCapacity(needed) ==
    Least(MaxCapacity, Most(needed, IF cap = 0 THEN DefaultCapacity ELSE 2 * cap))

\* wingo_buf_ensure fails only if the buffer would exceed its largest size.
Fits(n) == n <= MaxCapacity - Len(data)
Ensured(n) == IF Len(data) + n <= cap THEN cap ELSE NextCapacity(Len(data) + n)

\* wingo_buf_append and its variants
AppendBytes(s) ==
    /\ Fits(Len(s))
    /\ cap' = Ensured(Len(s))
    /\ data' = data \o s
    /\ UNCHANGED read

\* wingo_buf_append_printf asks for a place for the terminating zero too.
AppendPrintf(s) ==
    /\ Fits(Len(s) + 1)
    /\ cap' = Ensured(Len(s) + 1)
    /\ data' = data \o s
    /\ UNCHANGED read

\* wingo_buf_prepend: bytes put before the first are unread if nothing was read.
Prepend(s) ==
    /\ Fits(Len(s))
    /\ cap' = Ensured(Len(s))
    /\ data' = s \o data
    /\ read' = IF read > 0 THEN read + Len(s) ELSE read

Insert(pos, s) ==
    /\ pos <= Len(data) /\ Fits(Len(s))
    /\ cap' = Ensured(Len(s))
    /\ data' = SubSeq(data, 1, pos) \o s \o SubSeq(data, pos + 1, Len(data))
    /\ read' = IF read > pos THEN read + Len(s) ELSE read

\* wingo_buf_remove, _remove_front and _remove_back
RemoveBytes(pos, n) ==
    LET len == Least(n, Len(data) - pos) IN
    /\ pos <= Len(data) /\ len > 0
    /\ data' = SubSeq(data, 1, pos) \o SubSeq(data, pos + len + 1, Len(data))
    /\ read' = IF read > pos + len THEN read - len ELSE IF read > pos THEN pos ELSE read
    /\ UNCHANGED cap

\* wingo_buf_resize: a smaller capacity cuts bytes and cursor.
Resize(c) ==
    /\ c <= MaxCapacity /\ c # cap
    /\ cap' = c
    /\ data' = SubSeq(data, 1, Least(c, Len(data)))
    /\ read' = Least(c, read)

Reserve(c) == c > cap /\ Resize(c)

\* wingo_buf_read, _read_byte and _skip
Read(n) ==
    /\ read' = read + Least(n, Len(data) - read)
    /\ UNCHANGED <<data, cap>>

Reset ==
    /\ data' = <<>> /\ read' = 0
    /\ UNCHANGED cap

Next ==
    \/ \E s \in Chunks : AppendBytes(s) \/ AppendPrintf(s) \/ Prepend(s)
    \/ \E s \in Chunks, pos \in 0..MaxCapacity : Insert(pos, s)
    \/ \E pos \in 0..MaxCapacity, n \in 1..MaxCapacity : RemoveBytes(pos, n)
    \/ \E c \in 0..MaxCapacity : Resize(c) \/ Reserve(c)
    \/ \E n \in 1..MaxChunk : Read(n)
    \/ Reset

Spec == Init /\ [][Next]_vars

-----------------------------------------------------------------------------
Consumed == SubSeq(data, 1, read)
Unread == SubSeq(data, read + 1, Len(data))

\* s is t with some contiguous part taken out.
CutFrom(s, t) ==
    \E i \in 0..Len(s), n \in 0..Len(t) :
        i + n <= Len(t) /\ s = SubSeq(t, 1, i) \o SubSeq(t, i + n + 1, Len(t))

\* What was read stays read and what was not stays to be read; a call adds bytes
\* on one side of the cursor, takes some out, or moves it forward.
CursorStep ==
    \/ data' = data /\ read' >= read
    \/ Len(data') > Len(data) /\ \/ Consumed' = Consumed /\ CutFrom(Unread, Unread')
                                 \/ Unread' = Unread /\ CutFrom(Consumed, Consumed')
    \/ Len(data') < Len(data) /\ CutFrom(Consumed', Consumed) /\ CutFrom(Unread', Unread)

\* Where the cursor ends up: no call makes a reader see a byte twice or miss one.
CursorKept == [][CursorStep]_vars
=============================================================================
