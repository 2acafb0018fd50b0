------------------------------ MODULE TaskPool ------------------------------
(***************************************************************************)
(* What the thread pool of core/thread.c promises its clients, without     *)
(* workers, locks or condition variables: a task that submit accepted      *)
(* stays pending until it is executed, it is executed at most once, and    *)
(* wait is a barrier: it returns only when every task that was pending at  *)
(* the call has left the pool.                                             *)
(***************************************************************************)
CONSTANTS
    Tasks,      \* the tasks that may be submitted
    Clients     \* the threads that call submit and wait

VARIABLES
    pending,    \* accepted and not yet executed
    finished,   \* executed
    discarded,  \* thrown away by wingo_thread_pool_free
    waiting,    \* the clients inside wingo_thread_pool_wait
    owed        \* owed[c]: what was pending when c called wait

vars == <<pending, finished, discarded, waiting, owed>>

Init ==
    /\ pending = {}
    /\ finished = {}
    /\ discarded = {}
    /\ waiting = {}
    /\ owed = [c \in Clients |-> {}]

\* submit returns WINGO_SUCCESS for a task object it has not seen before.
Accept(t) ==
    /\ t \notin pending \cup finished \cup discarded
    /\ pending' = pending \cup {t}
    /\ UNCHANGED <<finished, discarded, waiting, owed>>

\* Some worker has run the task's function to its end.
Finish(t) ==
    /\ t \in pending
    /\ pending' = pending \ {t}
    /\ finished' = finished \cup {t}
    /\ UNCHANGED <<discarded, waiting, owed>>

WaitCall(c) ==
    /\ c \notin waiting
    /\ waiting' = waiting \cup {c}
    /\ owed' = [owed EXCEPT ![c] = pending]
    /\ UNCHANGED <<pending, finished, discarded>>

\* The barrier: nothing c was owed is still pending.
WaitReturn(c) ==
    /\ c \in waiting
    /\ owed[c] \cap pending = {}
    /\ waiting' = waiting \ {c}
    /\ owed' = [owed EXCEPT ![c] = {}]
    /\ UNCHANGED <<pending, finished, discarded>>

\* free throws away what no worker took.
Discard ==
    /\ waiting = {}
    /\ pending' = {}
    /\ discarded' = discarded \cup pending
    /\ UNCHANGED <<finished, waiting, owed>>

Next ==
    \/ \E t \in Tasks : Accept(t) \/ Finish(t)
    \/ \E c \in Clients : WaitCall(c) \/ WaitReturn(c)
    \/ Discard

Spec == Init /\ [][Next]_vars
=============================================================================
