---------------------------- MODULE ThreadObject ----------------------------
(***************************************************************************)
(* The thread object of core/src/core/thread.c: an owner starts, stops,    *)
(* joins or detaches, and frees it, while the new thread runs              *)
(* thread_wrapper.  The state is written under thread->mutex by stop and   *)
(* the wrapper, and without it by a start that fails.                      *)
(***************************************************************************)
EXTENDS Integers

CONSTANTS
    MaxStarts,      \* bound: calls of wingo_thread_start
    Stubborn        \* may the thread's function ignore a requested stop?

ThreadAssumption == MaxStarts \in Nat /\ Stubborn \in BOOLEAN

VARIABLES
    state, running, stop_requested, handle_valid,
    wrapper,        \* where thread_wrapper stands
    owner,          \* the owner's call: "idle", "join" or "free", or "freed"
    detached,       \* history: was the thread that runs detached?
    misused,        \* history: did the wrapper write to a freed object?
    starts          \* calls of start so far

vars == <<state, running, stop_requested, handle_valid, wrapper, owner, detached, misused, starts>>

States == {"CREATED", "RUNNING", "STOPPING", "STOPPED", "ERROR"}

TypeOK ==
    /\ state \in States
    /\ running \in BOOLEAN /\ stop_requested \in BOOLEAN /\ handle_valid \in BOOLEAN
    /\ wrapper \in {"none", "begin", "func", "end"}
    /\ owner \in {"idle", "join", "free", "freed"}
    /\ detached \in BOOLEAN /\ misused \in BOOLEAN /\ starts \in 0..MaxStarts

\* wingo_thread_new
Init ==
    /\ state = "CREATED" /\ running = FALSE /\ stop_requested = FALSE /\ handle_valid = FALSE
    /\ wrapper = "none" /\ owner = "idle" /\ detached = FALSE /\ misused = FALSE /\ starts = 0

objectVars == <<state, running, stop_requested>>

\* wingo_thread_start.  A detached thread that still runs has no valid handle:
\* the bound keeps a second one from running beside it.
Start ==
    /\ owner = "idle" /\ ~handle_valid /\ wrapper = "none" /\ starts < MaxStarts
    /\ handle_valid' = TRUE /\ wrapper' = "begin" /\ detached' = FALSE /\ starts' = starts + 1
    /\ UNCHANGED <<objectVars, owner, misused>>

StartFails ==
    /\ owner = "idle" /\ ~handle_valid /\ wrapper = "none" /\ starts < MaxStarts
    /\ state' = "ERROR" /\ starts' = starts + 1
    /\ UNCHANGED <<running, stop_requested, handle_valid, wrapper, owner, detached, misused>>

Stop ==
    /\ owner = "idle"
    /\ stop_requested' = TRUE /\ state' = "STOPPING"
    /\ UNCHANGED <<running, handle_valid, wrapper, owner, detached, misused, starts>>

\* wingo_thread_join and _free wait for the thread; free only if its handle is
\* valid, that is, if it was neither joined nor detached.
Join ==
    /\ owner = "idle" /\ handle_valid /\ owner' = "join"
    /\ UNCHANGED <<objectVars, handle_valid, wrapper, detached, misused, starts>>

Joined ==
    /\ owner = "join" /\ wrapper = "none"
    /\ owner' = "idle" /\ handle_valid' = FALSE
    /\ UNCHANGED <<objectVars, wrapper, detached, misused, starts>>

Detach ==
    /\ owner = "idle" /\ handle_valid
    /\ handle_valid' = FALSE /\ detached' = (wrapper # "none")
    /\ UNCHANGED <<objectVars, wrapper, owner, misused, starts>>

Free ==
    /\ owner = "idle" /\ owner' = "free"
    /\ UNCHANGED <<objectVars, handle_valid, wrapper, detached, misused, starts>>

Awaited == handle_valid => wrapper = "none"

Freed ==
    /\ owner = "free" /\ Awaited
    /\ owner' = "freed"
    /\ UNCHANGED <<objectVars, handle_valid, wrapper, detached, misused, starts>>

-----------------------------------------------------------------------------
(* thread_wrapper                                                          *)

\* What a step of the wrapper does to an object that was freed is undefined.
Touches == misused' = (misused \/ owner = "freed")

WrapperBegins_Bug ==
    /\ wrapper = "begin" /\ wrapper' = "func"
    /\ state' = "RUNNING" /\ running' = TRUE /\ stop_requested' = FALSE /\ Touches
    /\ UNCHANGED <<handle_valid, owner, detached, starts>>

\* A stop requested before is not forgotten, though the state no longer shows it.
WrapperBegins ==
    /\ wrapper = "begin" /\ wrapper' = "func"
    /\ state' = "RUNNING" /\ running' = TRUE /\ Touches
    /\ UNCHANGED <<stop_requested, handle_valid, owner, detached, starts>>

\* The function returns by itself, or because wingo_thread_should_stop told it to.
FunctionReturns ==
    /\ wrapper = "func" /\ wrapper' = "end"
    /\ UNCHANGED <<objectVars, handle_valid, owner, detached, misused, starts>>

WrapperEnds ==
    /\ wrapper = "end" /\ wrapper' = "none"
    /\ state' = "STOPPED" /\ running' = FALSE /\ Touches
    /\ UNCHANGED <<stop_requested, handle_valid, owner, detached, starts>>

Next ==
    \/ Start \/ StartFails \/ Stop \/ Join \/ Joined \/ Detach \/ Free \/ Freed
    \/ WrapperBegins \/ FunctionReturns \/ WrapperEnds

\* The thread is scheduled; its function returns once it is told to stop, unless
\* it is stubborn; a call of join or free goes on when the thread has ended.
Fair ==
    /\ WF_vars(WrapperBegins) /\ WF_vars(WrapperEnds)
    /\ WF_vars(stop_requested /\ ~Stubborn /\ FunctionReturns)
    /\ WF_vars(Joined) /\ WF_vars(Freed)

Spec == Init /\ [][Next]_vars /\ Fair

-----------------------------------------------------------------------------
\* Only a detached thread can outlive its object: free waits for any other,
\* through restarts, failed starts and stops at any moment.
OnlyDetachedOutlives == misused => detached

\* What the owner reads of a thread it has joined: it does not run, and its state
\* is STOPPED, or STOPPING when the stop came after the thread's last word, or
\* ERROR when a later start failed.
JoinedIsOver ==
    ~handle_valid /\ wrapper = "none" /\ starts > 0 => ~running /\ state # "RUNNING"

\* A stop is never lost: whenever it is requested, before the thread runs or
\* after, an owner that joins or frees it gets an answer.
StopEnds == stop_requested /\ owner \in {"join", "free"} ~> owner \in {"idle", "freed"}
=============================================================================
