---------------------------- MODULE EngineHosts ----------------------------
(***************************************************************************)
(* The two programs that run an engine.  On Linux (platforms/linux/main.c) *)
(* one thread creates, runs and frees it, and signals stop it.  On Android *)
(* (bowie_jni.c) the VPN service's thread starts an engine in a thread of  *)
(* its own and stops it: it requests the stop, waits for g_running to be   *)
(* cleared, five seconds at most, and frees the engine.                    *)
(***************************************************************************)
EXTENDS Engine

CONSTANTS
    Hosts,          \* "linux", "android"
    SlowLoop,       \* may a loop that was told to stop go on for five seconds?
    MaxSignals      \* bound: signals delivered on Linux

ASSUME HostsAssumption ==
    Hosts \subseteq {"linux", "android"} /\ SlowLoop \in BOOLEAN /\ MaxSignals \in Nat

VARIABLES
    host,       \* the program
    host_pc,    \* where its own thread stands
    g_engine,   \* the engine of the program, 0 is the null pointer
    g_running,  \* bowie_jni.c: was an engine thread started that has not ended?
    handler,    \* the engine a signal handler has half stopped, 0 for none
    signals,    \* signals so far
    swallowed,  \* history: engines that forgot a stop
    misuse      \* history: who used memory that was freed

hostVars == <<host, host_pc, g_engine, g_running, handler, signals, swallowed, misuse>>
vars == <<engineVars, hostVars>>

HostPlaces == {"idle", "created", "handlers", "running", "stop", "stop_loop", "wait", "shutdown",
               "release_pool", "release_loop", "release_machine", "free", "exit"}

Init ==
    /\ EngineInit
    /\ host \in Hosts
    /\ host_pc = "idle"
    /\ g_engine = 0 /\ g_running = FALSE
    /\ handler = 0 /\ signals = 0
    /\ swallowed = {} /\ misuse = {}

\* The host's thread goes from one place to another.
Goes(from, to) == host_pc = from /\ host_pc' = to

-----------------------------------------------------------------------------
(* The program of main.c.                                                  *)

MainCreates ==
    /\ host = "linux" /\ Goes("idle", "created")
    /\ g_engine = 0
    /\ \E e \in Engines : New(e) /\ g_engine' = e
    /\ UNCHANGED <<host, g_running, handler, signals, swallowed, misuse>>

\* install_signal_handlers; if it fails, the engine is freed
MainInstalls ==
    /\ host = "linux"
    /\ \/ Goes("created", "handlers")
       \/ MayFail /\ Goes("created", "shutdown")
    /\ UNCHANGED <<engineVars, host, g_engine, g_running, handler, signals, swallowed, misuse>>

MainInits ==
    /\ host = "linux"
    /\ \E n \in 0..Len(InitSteps) :
          /\ Goes("handlers", IF n = Len(InitSteps) THEN "running" ELSE "shutdown")
          /\ InitEngine(g_engine, n)
    /\ UNCHANGED <<host, g_engine, g_running, handler, signals, swallowed, misuse>>

\* main calls wingo_engine_run itself.
MainRuns ==
    /\ host = "linux" /\ host_pc = "running" /\ run[g_engine] = "none"
    /\ run' = [run EXCEPT ![g_engine] = "enter"]
    /\ UNCHANGED <<state, machine, loop, stop_requested, loop_stop, tick, started, runUnchanged,
                   hostVars>>

\* A run that failed ends the program at once.
MainReturns_Bug ==
    /\ host = "linux" /\ Goes("running", IF state[g_engine] = "ERROR" THEN "exit" ELSE "shutdown")
    /\ run[g_engine] = "returned"
    /\ run' = [run EXCEPT ![g_engine] = "done"]
    /\ UNCHANGED <<state, machine, loop, stop_requested, loop_stop, tick, started, runUnchanged,
                   host, g_engine, g_running, handler, signals, swallowed, misuse>>

MainReturns ==
    /\ host = "linux" /\ Goes("running", "shutdown")
    /\ run[g_engine] = "returned"
    /\ run' = [run EXCEPT ![g_engine] = "done"]
    /\ UNCHANGED <<state, machine, loop, stop_requested, loop_stop, tick, started, runUnchanged,
                   host, g_engine, g_running, handler, signals, swallowed, misuse>>

\* A signal, once main has installed handlers.  Its handler is main's until
\* wingo_engine_init has installed the engine's; either stops its engine.
Signalled == IF g_engine_for_signal # 0 THEN g_engine_for_signal ELSE g_engine

Signal ==
    /\ host = "linux" /\ host_pc \notin {"idle", "created"}
    /\ signals < MaxSignals /\ handler = 0 /\ Signalled # 0
    /\ signals' = signals + 1
    /\ IF Signalled \in freed
       THEN misuse' = misuse \cup {"handler"} /\ UNCHANGED <<engineVars, handler>>
       ELSE StopEngine(Signalled) /\ handler' = Signalled /\ UNCHANGED misuse
    /\ UNCHANGED <<host, host_pc, g_engine, g_running, swallowed>>

SignalEnds ==
    /\ handler # 0 /\ handler' = 0
    /\ IF handler \in freed
       THEN misuse' = misuse \cup {"handler"} /\ UNCHANGED engineVars
       ELSE StopLoop(handler) /\ UNCHANGED misuse
    /\ UNCHANGED <<host, host_pc, g_engine, g_running, signals, swallowed>>

-----------------------------------------------------------------------------
(* The program of bowie_jni.c.  g_mutex is held by the service's thread    *)
(* but for its naps in `wait', and by an engine's thread for its last step.*)

MutexFree == host_pc \in {"idle", "wait"}

\* startWithFd creates the engine if there is none ...
JniCreates ==
    /\ host = "android" /\ Goes("idle", "created")
    /\ g_engine = 0
    /\ \E e \in Engines : New(e) /\ g_engine' = e
    /\ UNCHANGED <<host, g_running, handler, signals, swallowed, misuse>>

JniInits ==
    /\ host = "android"
    /\ \E n \in 0..Len(InitSteps) :
          /\ Goes("created", IF n = Len(InitSteps) THEN "handlers" ELSE "shutdown")
          /\ InitEngine(g_engine, n)
    /\ UNCHANGED <<host, g_engine, g_running, handler, signals, swallowed, misuse>>

\* ... or takes one whose thread could not be created before ...
JniReuses ==
    /\ host = "android" /\ Goes("idle", "handlers")
    /\ g_engine # 0 /\ run[g_engine] = "none"
    /\ UNCHANGED <<engineVars, host, g_engine, g_running, handler, signals, swallowed, misuse>>

\* ... and starts the thread.
JniStarts ==
    /\ host = "android" /\ Goes("handlers", "idle")
    /\ \/ /\ run' = [run EXCEPT ![g_engine] = "enter"]
          /\ g_running' = TRUE
       \/ MayFail /\ UNCHANGED <<run, g_running>>
    /\ UNCHANGED <<state, machine, loop, stop_requested, loop_stop, tick, started, runUnchanged,
                   host, g_engine, handler, signals, swallowed, misuse>>

\* The end of engine_thread_func
ThreadEnds(e) ==
    /\ host = "android" /\ run[e] = "returned" /\ MutexFree
    /\ run' = [run EXCEPT ![e] = "done"]
    /\ g_running' = FALSE
    /\ UNCHANGED <<state, machine, loop, stop_requested, loop_stop, tick, started, runUnchanged,
                   host, host_pc, g_engine, handler, signals, swallowed, misuse>>

\* stop: wingo_engine_stop is two stores.  The service calls it for a VPN that
\* was started, so the engine has a thread.
JniStop ==
    /\ host = "android" /\ Goes("idle", "stop_loop")
    /\ g_engine # 0 /\ run[g_engine] # "none"
    /\ StopEngine(g_engine)
    /\ UNCHANGED <<host, g_engine, g_running, handler, signals, swallowed, misuse>>

JniStopsLoop ==
    /\ host = "android" /\ Goes("stop_loop", "wait")
    /\ StopLoop(g_engine)
    /\ UNCHANGED <<host, g_engine, g_running, handler, signals, swallowed, misuse>>

Waited_Bug == TRUE

\* The wait ends when g_running is cleared, or after five seconds.  A thread
\* with a stop to honour does not need that long unless SlowLoop.
Waited ==
    \/ ~g_running
    \/ SlowLoop
    \/ run[g_engine] = "looping" /\ ~loop_stop[g_engine]

JniWaited ==
    /\ host = "android" /\ Goes("wait", "shutdown")
    /\ Waited
    /\ UNCHANGED <<engineVars, host, g_engine, g_running, handler, signals, swallowed, misuse>>

-----------------------------------------------------------------------------
(* wingo_engine_free, for either program.                                  *)

hostUnchanged == <<host, g_engine, g_running, handler, signals, swallowed, misuse>>

\* An engine that still runs is stopped first.
Shutdown ==
    /\ host_pc = "shutdown"
    /\ IF NothingToShutDown(g_engine) THEN host_pc' = "free" ELSE host_pc' = "release_pool"
    /\ IF state[g_engine] = "RUNNING"
       THEN /\ stop_requested' = [stop_requested EXCEPT ![g_engine] = TRUE]
            /\ loop_stop' = [loop_stop EXCEPT ![g_engine] = @ \/ loop[g_engine] = "live"]
       ELSE UNCHANGED <<stop_requested, loop_stop>>
    /\ UNCHANGED <<state, machine, loop, tick, run, started, runUnchanged, hostUnchanged>>

Release ==
    /\ \/ Goes("release_pool", "release_loop") /\ ReleasePool(g_engine)
       \/ Goes("release_loop", "release_machine") /\ ReleaseLoop(g_engine)
       \/ Goes("release_machine", "free") /\ ReleaseMachine(g_engine)
    /\ UNCHANGED hostUnchanged

\* Then the program ends, or the service may start again.
Free ==
    /\ Goes("free", IF host = "linux" THEN "exit" ELSE "idle")
    /\ FreeEngine(g_engine)
    /\ g_engine' = IF host = "android" \/ run[g_engine] = "done" THEN 0 ELSE g_engine
    /\ g_running' = FALSE
    /\ UNCHANGED <<host, handler, signals, swallowed, misuse>>

-----------------------------------------------------------------------------
\* Does this step of e's thread clear a stop that was requested?
Swallows(e) ==
    \/ run[e] = "clear" /\ stop_requested[e]
    \/ run[e] = "enter_loop" /\ loop_stop[e]

ThreadRuns(e) ==
    /\ RunStep(e)
    /\ swallowed' = IF Swallows(e) THEN swallowed \cup {e} ELSE swallowed
    /\ UNCHANGED <<host, host_pc, g_engine, g_running, handler, signals, misuse>>

\* e's thread goes on after the engine was freed: nothing more can be said.
ThreadMisuses(e) ==
    /\ Gone(e)
    /\ misuse' = misuse \cup {"thread"}
    /\ UNCHANGED <<engineVars, host, host_pc, g_engine, g_running, handler, signals, swallowed>>

Next ==
    /\ misuse = {}
    /\ \/ MainCreates \/ MainInstalls \/ MainInits \/ MainRuns \/ MainReturns
       \/ Signal \/ SignalEnds
       \/ JniCreates \/ JniInits \/ JniReuses \/ JniStarts
       \/ JniStop \/ JniStopsLoop \/ JniWaited
       \/ Shutdown \/ Release \/ Free
       \/ \E e \in Engines : ThreadRuns(e) \/ ThreadMisuses(e) \/ ThreadEnds(e)

Spec == Init /\ [][Next]_vars

\* The engine's thread is scheduled, and its loop fails or leaves when it must;
\* a call that a program or a handler began goes on.
FairSpec ==
    /\ Spec
    /\ \A e \in Engines : WF_vars(misuse = {} /\ (ThreadRuns(e) \/ ThreadEnds(e)))
    /\ WF_vars(misuse = {} /\ (MainReturns \/ JniStopsLoop \/ JniWaited \/ Shutdown
                              \/ Release \/ Free))
    /\ WF_vars(misuse = {} /\ SignalEnds)

-----------------------------------------------------------------------------
(* Properties.                                                             *)

TypeOK ==
    /\ EngineTypeOK
    /\ host \in Hosts /\ host_pc \in HostPlaces
    /\ g_engine \in Engines \cup {0} /\ handler \in Engines \cup {0}
    /\ g_running \in BOOLEAN /\ signals \in 0..MaxSignals
    /\ swallowed \subseteq Engines /\ misuse \subseteq {"thread", "handler"}

\* wingo_engine_free pulls the engine from under its thread only after the
\* run forgot a stop: the wait for g_running sees to it otherwise, through
\* failed starts, engines that end by themselves, and threads that end late.
FreedUnderThread ==
    ~SlowLoop /\ "thread" \in misuse => swallowed # {}

\* An engine that was never run leaves nothing behind, whichever step of init
\* failed: shutdown releases what init left in state READY or ERROR.
FailedStartIsReleased ==
    \A e \in freed \ started : loop[e] = "null" /\ pool[e] = "null" /\ machine[e] = "null"

\* A stop that reaches the loop ends the run, and the engine is freed.
StoppedIsFreed ==
    \A e \in Engines :
        run[e] = "looping" /\ loop_stop[e] ~> e \in freed \/ misuse # {}
=============================================================================
