---------------------------- MODULE FifoPromise -----------------------------
(***************************************************************************)
(* What a queue promises (core/include/wingo/util/queue.h): elements leave *)
(* in the order they came, and a queue of a given capacity refuses more.   *)
(***************************************************************************)
EXTENDS Integers, Sequences

CONSTANT Data

VARIABLES
    items, result,      \* result is what the last call returned
    capacity            \* of this queue, it never changes

Init == items = <<>> /\ result = "none"

Push(d) ==
    IF Len(items) < capacity
    THEN items' = Append(items, d) /\ result' = "SUCCESS"
    ELSE items' = items /\ result' = "OVERFLOW"

Pop == IF items = <<>> THEN items' = items /\ result' = "NULL"
       ELSE items' = Tail(items) /\ result' = Head(items)

Clear == items' = <<>> /\ result' = "none"

Next == capacity' = capacity /\ ((\E d \in Data : Push(d)) \/ Pop \/ Clear)

Spec == Init /\ [][Next]_<<items, result, capacity>>
=============================================================================
