-------------------------------- MODULE Once --------------------------------
(***************************************************************************)
(* wingo_once of core/src/core/thread.c: a flag read without a lock, and a *)
(* mutex, shared by all controls, held while the function runs.            *)
(***************************************************************************)
EXTENDS Integers

CONSTANTS Callers, Controls, None

OnceAssumption == None \notin Callers \cup Controls

VARIABLES
    flag,       \* the control's value is not PTHREAD_ONCE_INIT
    mutex,      \* who holds once_global_mutex
    place,      \* where a caller stands
    control,    \* the control it was called with
    calls       \* history: how often a control's function was begun

vars == <<flag, mutex, place, control, calls>>

Places == {"idle", "load", "lock", "check", "func", "unlock", "returned"}

TypeOK ==
    /\ flag \in [Controls -> BOOLEAN] /\ calls \in [Controls -> 0..2]
    /\ mutex \in Callers \cup {None}
    /\ place \in [Callers -> Places]
    /\ control \in [Callers -> Controls \cup {None}]

Init ==
    /\ flag = [c \in Controls |-> FALSE] /\ calls = [c \in Controls |-> 0]
    /\ mutex = None
    /\ place = [p \in Callers |-> "idle"] /\ control = [p \in Callers |-> None]

At(p, from, to) == place[p] = from /\ place' = [place EXCEPT ![p] = to]

Call(p, c) ==
    /\ At(p, "idle", "load")
    /\ control' = [control EXCEPT ![p] = c]
    /\ UNCHANGED <<flag, mutex, calls>>

FastPath(p) ==
    /\ At(p, "load", IF flag[control[p]] THEN "returned" ELSE "lock")
    /\ UNCHANGED <<flag, mutex, control, calls>>

Lock(p) ==
    /\ At(p, "lock", "check")
    /\ mutex = None /\ mutex' = p
    /\ UNCHANGED <<flag, control, calls>>

DoubleCheck_Bug(p) ==
    /\ At(p, "check", "func")
    /\ calls' = [calls EXCEPT ![control[p]] = @ + 1]
    /\ UNCHANGED <<flag, mutex, control>>

DoubleCheck(p) ==
    /\ At(p, "check", IF flag[control[p]] THEN "unlock" ELSE "func")
    /\ calls' = [calls EXCEPT ![control[p]] = IF flag[control[p]] THEN @ ELSE @ + 1]
    /\ UNCHANGED <<flag, mutex, control>>

\* The function has returned, and only then the flag is set.
Mark(p) ==
    /\ At(p, "func", "unlock")
    /\ flag' = [flag EXCEPT ![control[p]] = TRUE]
    /\ UNCHANGED <<mutex, control, calls>>

Unlock(p) ==
    /\ At(p, "unlock", "returned")
    /\ mutex' = None
    /\ UNCHANGED <<flag, control, calls>>

Next == \E p \in Callers :
    \/ \E c \in Controls : Call(p, c)
    \/ FastPath(p) \/ Lock(p) \/ DoubleCheck(p) \/ Mark(p) \/ Unlock(p)

Spec == Init /\ [][Next]_vars

-----------------------------------------------------------------------------
\* However calls race, a control's function is called once, and it has returned
\* before any call for that control returns.
ExactlyOnce ==
    /\ \A c \in Controls : calls[c] <= 1
    /\ \A p \in Callers : place[p] = "returned" =>
          /\ calls[control[p]] = 1
          /\ \A q \in Callers : place[q] = "func" => control[q] # control[p]
=============================================================================
