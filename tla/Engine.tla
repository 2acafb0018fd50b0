------------------------------- MODULE Engine -------------------------------
(***************************************************************************)
(* The life cycle of the engine, core/src/core/engine.c.  An engine owns a *)
(* state machine, an event loop and a thread pool, which init creates and  *)
(* shutdown releases.  A thread runs it; others, and a signal handler,     *)
(* stop it.  No lock protects engine->state or engine->stop_requested.     *)
(*                                                                         *)
(* The event loop is what the engine sees of it: wingo_event_loop_run      *)
(* clears the loop's stop flag and returns after the flag was set again,   *)
(* which is the module EventLoop's concern.  The operators here take the   *)
(* engine as a parameter; EngineHosts says which programs call them.       *)
(***************************************************************************)
EXTENDS Integers, Sequences, FiniteSets

CONSTANTS
    Engines,        \* the objects wingo_engine_new returns, 1, 2, ...
    MayFail         \* can the steps of init, or adding a timer, fail?

ASSUME EnginesAssumption ==
    /\ IsFiniteSet(Engines) /\ Engines = 1..Cardinality(Engines)
    /\ MayFail \in BOOLEAN

VARIABLES
    state,          \* engine->state, "none" before wingo_engine_new
    machine,        \* the state machine's current state, "null" without one
    loop,           \* engine->event_loop
    pool,           \* engine->thread_pool
    stop_requested, \* engine->stop_requested
    loop_stop,      \* engine->event_loop->stop_requested
    tick,           \* the tick timer
    run,            \* where the thread stands that runs the engine
    freed,          \* engines given to free
    g_engine_for_signal, \* 0 is the null pointer
    started         \* history: engines whose run began

engineVars == <<state, machine, loop, pool, stop_requested, loop_stop, tick, run,
                freed, g_engine_for_signal, started>>

States == {"CREATED", "INITIALIZING", "READY", "RUNNING", "STOPPING", "STOPPED", "ERROR"}
RunPlaces == {"none", "enter", "clear", "add_tick", "enter_loop", "looping", "leave",
              "returned", "done"}

EngineTypeOK ==
    /\ state \in [Engines -> States \cup {"none"}]
    /\ \A e \in Engines : machine[e] \in {state[e], "null"}
    /\ loop \in [Engines -> {"null", "live"}]
    /\ pool \in [Engines -> {"null", "idle", "started"}]
    /\ stop_requested \in [Engines -> BOOLEAN]
    /\ loop_stop \in [Engines -> BOOLEAN]
    /\ tick \in [Engines -> {"none", "queued", "unlinked"}]
    /\ run \in [Engines -> RunPlaces]
    /\ freed \subseteq Engines /\ started \subseteq Engines
    /\ g_engine_for_signal \in Engines \cup {0}

EngineInit ==
    /\ state = [e \in Engines |-> "none"]
    /\ machine = [e \in Engines |-> "null"]
    /\ loop = [e \in Engines |-> "null"]
    /\ pool = [e \in Engines |-> "null"]
    /\ stop_requested = [e \in Engines |-> FALSE]
    /\ loop_stop = [e \in Engines |-> FALSE]
    /\ tick = [e \in Engines |-> "none"]
    /\ run = [e \in Engines |-> "none"]
    /\ freed = {} /\ started = {} /\ g_engine_for_signal = 0

-----------------------------------------------------------------------------
SetState_Bug(e, s) == state' = [state EXCEPT ![e] = s] /\ UNCHANGED machine

\* engine_set_state: the state machine, if there is one, is forced along.
SetState(e, s) ==
    /\ state' = [state EXCEPT ![e] = s]
    /\ machine' = [machine EXCEPT ![e] = IF @ = "null" THEN @ ELSE s]

\* wingo_engine_new, of the next object
New(e) ==
    /\ state[e] = "none" /\ \A d \in 1..(e - 1) : state[d] # "none"
    /\ state' = [state EXCEPT ![e] = "CREATED"]
    /\ UNCHANGED <<machine, loop, pool, stop_requested, loop_stop, tick, run, freed,
                   g_engine_for_signal, started>>

\* The steps of wingo_engine_init that create something, in order.
InitSteps == <<"log", "machine", "loop", "pool", "start", "id", "signals">>

\* wingo_engine_init, of which the first n steps succeed.  When a step fails,
\* the state is ERROR and what was created stays until shutdown.  The handler
\* is set before the calls of sigaction that may fail.
InitEngine(e, n) ==
    LET ok == n = Len(InitSteps)
        outcome == IF ok THEN "READY" ELSE "ERROR"
    IN /\ state[e] \in {"CREATED", "STOPPED"}
       /\ ok \/ MayFail
       /\ state' = [state EXCEPT ![e] = outcome]
       /\ machine' = [machine EXCEPT ![e] = IF n >= 2 THEN outcome ELSE @]
       /\ loop' = [loop EXCEPT ![e] = IF n >= 3 THEN "live" ELSE @]
       /\ pool' = [pool EXCEPT ![e] = IF n >= 5 THEN "started" ELSE IF n = 4 THEN "idle" ELSE @]
       /\ g_engine_for_signal' = IF n >= 6 THEN e ELSE g_engine_for_signal
       /\ UNCHANGED <<stop_requested, loop_stop, tick, run, freed, started>>

-----------------------------------------------------------------------------
(* wingo_engine_run, by the thread that runs e.  Between two of its steps  *)
(* another thread may stop the engine, or shut it down.                    *)

\* May the thread still use the engine?  Once the engine, or the loop the
\* thread is in, was freed, what it does next is undefined.
Gone(e) ==
    \/ e \in freed /\ run[e] \notin {"none", "returned", "done"}
    \/ run[e] \in {"looping", "leave"} /\ loop[e] = "null"

Step(e, from, to) == run[e] = from /\ ~Gone(e) /\ run' = [run EXCEPT ![e] = to]

runUnchanged == <<pool, freed, g_engine_for_signal>>

RunRefused(e) ==
    /\ Step(e, "enter", "returned")
    /\ state[e] \notin {"READY", "STOPPED"}
    /\ UNCHANGED <<state, machine, loop, stop_requested, loop_stop, tick, started, runUnchanged>>

RunBegins(e) ==
    /\ Step(e, "enter", "clear")
    /\ state[e] \in {"READY", "STOPPED"}
    /\ SetState(e, "RUNNING")
    /\ started' = started \cup {e}
    /\ UNCHANGED <<loop, stop_requested, loop_stop, tick, runUnchanged>>

\* engine->stop_requested = false, whatever was requested so far
RunClears(e) ==
    /\ Step(e, "clear", "add_tick")
    /\ stop_requested' = [stop_requested EXCEPT ![e] = FALSE]
    /\ UNCHANGED <<state, machine, loop, loop_stop, tick, started, runUnchanged>>

AddTick(e) ==
    /\ Step(e, "add_tick", "enter_loop")
    /\ loop[e] = "live"
    /\ tick' = [tick EXCEPT ![e] = "queued"]
    /\ UNCHANGED <<state, machine, loop, stop_requested, loop_stop, started, runUnchanged>>

AddTickFails(e) ==
    /\ Step(e, "add_tick", "returned")
    /\ MayFail \/ loop[e] = "null"
    /\ SetState(e, "ERROR")
    /\ UNCHANGED <<loop, stop_requested, loop_stop, tick, started, runUnchanged>>

\* wingo_event_loop_run clears the loop's flag too.
EnterLoop(e) ==
    /\ Step(e, "enter_loop", "looping")
    /\ loop[e] = "live"
    /\ loop_stop' = [loop_stop EXCEPT ![e] = FALSE]
    /\ UNCHANGED <<state, machine, loop, stop_requested, tick, started, runUnchanged>>

\* The loop is gone before it is entered, or epoll_wait fails.
LoopFails(e) ==
    /\ \/ Step(e, "enter_loop", "returned") /\ loop[e] = "null"
       \/ Step(e, "looping", "returned") /\ MayFail
    /\ SetState(e, "ERROR")
    /\ UNCHANGED <<loop, stop_requested, loop_stop, tick, started, runUnchanged>>

\* engine_tick_callback.  The loop has unlinked the timer, and setting a new
\* deadline does not link it again: the engine ticks once.
Tick(e) ==
    /\ Step(e, "looping", "looping")
    /\ tick[e] = "queued"
    /\ tick' = [tick EXCEPT ![e] = "unlinked"]
    /\ UNCHANGED <<state, machine, loop, stop_requested, loop_stop, started, runUnchanged>>

LeaveLoop(e) ==
    /\ Step(e, "looping", "leave")
    /\ loop_stop[e]
    /\ SetState(e, "STOPPING")
    /\ UNCHANGED <<loop, stop_requested, loop_stop, tick, started, runUnchanged>>

\* wingo_event_remove_timer, and the run is over
RunEnds(e) ==
    /\ Step(e, "leave", "returned")
    /\ SetState(e, "STOPPED")
    /\ tick' = [tick EXCEPT ![e] = "none"]
    /\ UNCHANGED <<loop, stop_requested, loop_stop, started, runUnchanged>>

RunStep(e) ==
    \/ RunRefused(e) \/ RunBegins(e) \/ RunClears(e) \/ AddTick(e) \/ AddTickFails(e)
    \/ EnterLoop(e) \/ LoopFails(e) \/ Tick(e) \/ LeaveLoop(e) \/ RunEnds(e)

-----------------------------------------------------------------------------
(* Stopping and releasing.                                                 *)

\* wingo_engine_stop and engine_signal_handler: two stores, one after the other
StopEngine(e) ==
    /\ stop_requested' = [stop_requested EXCEPT ![e] = TRUE]
    /\ UNCHANGED <<state, machine, loop, loop_stop, tick, run, started, runUnchanged>>

StopLoop(e) ==
    /\ loop_stop' = [loop_stop EXCEPT ![e] = @ \/ loop[e] = "live"]
    /\ UNCHANGED <<state, machine, loop, stop_requested, tick, run, started, runUnchanged>>

NothingToShutDown_Bug(e) == state[e] \in {"CREATED", "STOPPED", "ERROR"}

\* wingo_engine_shutdown has "nothing to do" in these states.
NothingToShutDown(e) == state[e] \in {"CREATED", "STOPPED"}

\* The rest of wingo_engine_shutdown, in three steps.  Freeing the pool stops
\* and joins its workers.
ReleasePool(e) ==
    /\ pool' = [pool EXCEPT ![e] = "null"]
    /\ UNCHANGED <<state, machine, loop, stop_requested, loop_stop, tick, run, freed,
                   g_engine_for_signal, started>>

ReleaseLoop(e) ==
    /\ loop' = [loop EXCEPT ![e] = "null"]
    /\ loop_stop' = [loop_stop EXCEPT ![e] = FALSE]
    /\ tick' = [tick EXCEPT ![e] = "none"]
    /\ UNCHANGED <<state, machine, pool, stop_requested, run, freed, g_engine_for_signal, started>>

ReleaseMachine(e) ==
    /\ machine' = [machine EXCEPT ![e] = "null"]
    /\ state' = [state EXCEPT ![e] = "STOPPED"]
    /\ UNCHANGED <<loop, pool, stop_requested, loop_stop, tick, run, freed,
                   g_engine_for_signal, started>>

\* The end of wingo_engine_free.  g_engine_for_signal keeps pointing at it.
FreeEngine(e) ==
    /\ freed' = freed \cup {e}
    /\ UNCHANGED <<state, machine, loop, pool, stop_requested, loop_stop, tick, run,
                   g_engine_for_signal, started>>
=============================================================================
