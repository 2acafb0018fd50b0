---------------------------- MODULE EngineProofs ----------------------------
(***************************************************************************)
(* Proofs about the engine and the programs that run it, for any number of *)
(* engines and signals.                                                    *)
(*                                                                         *)
(* The argument follows the host's own thread: from its place one can tell *)
(* what the engine it holds has.  An engine that was never run changes     *)
(* only by that thread's steps, so what init left behind is what shutdown  *)
(* finds; and while no stop was swallowed, an engine's thread runs only    *)
(* where the host has not yet begun to release.                            *)
(***************************************************************************)
EXTENDS EngineHosts, FiniteSetTheorems, TLAPS

Types ==
    /\ TypeOK
    /\ machine \in [Engines -> States \cup {"null"}]

\* Neither run nor freed so far.
Fresh(e) == run[e] = "none" /\ e \notin started /\ e \notin freed

Empty(e) == loop[e] = "null" /\ pool[e] = "null" /\ machine[e] = "null"

Releasing == {"shutdown", "release_pool", "release_loop", "release_machine", "free"}

\* The host's place tells what engine it holds.
HostSound ==
    /\ \A e \in Engines : state[e] = "none" => Fresh(e) /\ Empty(e)
    /\ host_pc \notin {"idle", "exit"} => g_engine # 0
    /\ host_pc # "exit" /\ g_engine # 0 => state[g_engine] # "none" /\ g_engine \notin freed
    /\ host = "linux" => host_pc \in {"idle", "created", "handlers", "running", "exit"} \cup Releasing
    /\ host = "android" => host_pc \in {"idle", "created", "handlers", "stop_loop", "wait"} \cup Releasing
    /\ host_pc = "created" \/ (host = "linux" /\ host_pc = "handlers") => Fresh(g_engine)

\* What an engine that was never run holds.
UnstartedSound ==
    \A e \in Engines \ started :
        /\ run[e] \in {"none", "enter", "returned", "done"}
        /\ state[e] \in {"none", "CREATED", "READY", "ERROR", "STOPPED"}
        /\ state[e] \in {"none", "CREATED", "STOPPED"} => Empty(e)
        /\ e \in freed => Empty(e)
        /\ e = g_engine /\ host_pc = "release_loop" => pool[e] = "null"
        /\ e = g_engine /\ host_pc = "release_machine" => pool[e] = "null" /\ loop[e] = "null"
        /\ e = g_engine /\ host_pc = "free" => Empty(e)

\* Where a thread may run, its engine has a loop.
LoopLive ==
    /\ host = "android" /\ g_engine # 0 /\ host_pc \in {"idle", "handlers", "stop_loop", "wait"}
            => loop[g_engine] = "live"
    /\ host = "linux" /\ host_pc = "running" => loop[g_engine] = "live"
    /\ host = "android" /\ host_pc = "handlers" => run[g_engine] = "none"

\* Where e's thread may be under way.
Undisturbed(e) ==
    /\ e = g_engine
    /\ host = "linux" => host_pc = "running"
    /\ host = "android" => g_running /\ host_pc \in {"idle", "stop_loop", "wait"}

ThreadSafe ==
    ~SlowLoop /\ swallowed = {} =>
        /\ "thread" \notin misuse
        /\ \A e \in Engines : run[e] \notin {"none", "done"} => Undisturbed(e)
        /\ host = "android" /\ host_pc = "wait" => loop_stop[g_engine]

IInv == Types /\ HostSound /\ UnstartedSound /\ LoopLive /\ ThreadSafe

-----------------------------------------------------------------------------
\* An engine is not the null pointer.
LEMMA EngineNumbers == 0 \notin Engines
BY EnginesAssumption, FS_CardinalityType

LEMMA InitStepsCount == Len(InitSteps) = 7
BY DEF InitSteps

LEMMA InitSound == Init => IInv
<1> SUFFICES ASSUME Init PROVE IInv
  OBVIOUS
<1> USE EngineNumbers DEF Init, EngineInit
<1>1. Types
  <2>1. EngineTypeOK /\ machine \in [Engines -> States \cup {"null"}]
    BY DEF EngineTypeOK, States, RunPlaces
  <2>2. signals \in 0..MaxSignals
    BY HostsAssumption
  <2>3. host \in Hosts /\ host_pc \in HostPlaces /\ g_engine = 0 /\ handler = 0
        /\ g_running = FALSE /\ swallowed = {} /\ misuse = {}
    BY DEF HostPlaces
  <2> QED BY <2>1, <2>2, <2>3 DEF Types, TypeOK
<1>2. HostSound
  BY HostsAssumption DEF HostSound, Fresh, Empty, Releasing
<1>3. UnstartedSound
  BY DEF UnstartedSound, Empty
<1>4. LoopLive
  BY DEF LoopLive
<1>5. ThreadSafe
  BY DEF ThreadSafe
<1> QED BY <1>1, <1>2, <1>3, <1>4, <1>5 DEF IInv

-----------------------------------------------------------------------------
(* The programs' own threads: each lemma is one of their steps, each of its *)
(* steps a part of the invariant.                                           *)

LEMMA MainCreatesSound == IInv /\ MainCreates => IInv'
<1> SUFFICES ASSUME IInv, MainCreates PROVE IInv'
  OBVIOUS
<1> USE EngineNumbers DEF IInv, MainCreates, New, Types, TypeOK, EngineTypeOK, engineVars,
      hostVars, hostUnchanged, runUnchanged, Goes
<1>1. Types'
  BY DEF States, RunPlaces, HostPlaces, HostSound, UnstartedSound, Empty
<1>2. HostSound'
  BY DEF HostSound, Fresh, Empty, Releasing, UnstartedSound, LoopLive
<1>3. UnstartedSound'
  <2>1. PICK e \in Engines : New(e) /\ g_engine' = e
    OBVIOUS
  <2>2. Fresh(e) /\ Empty(e) /\ state' = [state EXCEPT ![e] = "CREATED"] /\ host_pc' = "created"
    BY <2>1 DEF HostSound
  <2>3. UNCHANGED <<machine, loop, pool, run, freed, started>>
    BY <2>1
  <2> QED BY <2>1, <2>2, <2>3 DEF UnstartedSound, Fresh, Empty
<1>4. LoopLive'
  BY DEF LoopLive, HostSound, Fresh, UnstartedSound, Empty, Releasing
<1>5. ThreadSafe'
  BY DEF ThreadSafe, Undisturbed, HostSound, Fresh, LoopLive, Releasing
<1> QED BY <1>1, <1>2, <1>3, <1>4, <1>5 DEF IInv

LEMMA MainInstallsSound == IInv /\ MainInstalls => IInv'
<1> SUFFICES ASSUME IInv, MainInstalls PROVE IInv'
  OBVIOUS
<1> USE EngineNumbers DEF IInv, MainInstalls, Types, TypeOK, EngineTypeOK, engineVars, hostVars,
      hostUnchanged, runUnchanged, Goes
<1>1. Types'
  BY DEF States, RunPlaces, HostPlaces, HostSound, UnstartedSound, Empty
<1>2. HostSound'
  BY DEF HostSound, Fresh, Empty, Releasing, UnstartedSound, LoopLive
<1>3. UnstartedSound'
  BY DEF UnstartedSound, HostSound, Fresh, Empty
<1>4. LoopLive'
  BY DEF LoopLive, HostSound, Fresh, UnstartedSound, Empty, Releasing
<1>5. ThreadSafe'
  BY DEF ThreadSafe, Undisturbed, HostSound, Fresh, LoopLive, Releasing
<1> QED BY <1>1, <1>2, <1>3, <1>4, <1>5 DEF IInv

LEMMA MainRunsSound == IInv /\ MainRuns => IInv'
<1> SUFFICES ASSUME IInv, MainRuns PROVE IInv'
  OBVIOUS
<1> USE EngineNumbers DEF IInv, MainRuns, Types, TypeOK, EngineTypeOK, engineVars, hostVars,
      hostUnchanged, runUnchanged, Goes
<1>1. Types'
  BY DEF States, RunPlaces, HostPlaces, HostSound, UnstartedSound, Empty
<1>2. HostSound'
  BY DEF HostSound, Fresh, Empty, Releasing, UnstartedSound, LoopLive
<1>3. UnstartedSound'
  BY DEF UnstartedSound, HostSound, Fresh, Empty
<1>4. LoopLive'
  BY DEF LoopLive, HostSound, Fresh, UnstartedSound, Empty, Releasing
<1>5. ThreadSafe'
  BY DEF ThreadSafe, Undisturbed, HostSound, Fresh, LoopLive, Releasing
<1> QED BY <1>1, <1>2, <1>3, <1>4, <1>5 DEF IInv

LEMMA MainReturnsSound == IInv /\ MainReturns => IInv'
<1> SUFFICES ASSUME IInv, MainReturns PROVE IInv'
  OBVIOUS
<1> USE EngineNumbers DEF IInv, MainReturns, Types, TypeOK, EngineTypeOK, engineVars, hostVars,
      hostUnchanged, runUnchanged, Goes
<1>1. Types'
  BY DEF States, RunPlaces, HostPlaces, HostSound, UnstartedSound, Empty
<1>2. HostSound'
  BY DEF HostSound, Fresh, Empty, Releasing, UnstartedSound, LoopLive
<1>3. UnstartedSound'
  BY DEF UnstartedSound, HostSound, Fresh, Empty
<1>4. LoopLive'
  BY DEF LoopLive, HostSound, Fresh, UnstartedSound, Empty, Releasing
<1>5. ThreadSafe'
  BY DEF ThreadSafe, Undisturbed, HostSound, Fresh, LoopLive, Releasing
<1> QED BY <1>1, <1>2, <1>3, <1>4, <1>5 DEF IInv

LEMMA JniCreatesSound == IInv /\ JniCreates => IInv'
<1> SUFFICES ASSUME IInv, JniCreates PROVE IInv'
  OBVIOUS
<1> USE EngineNumbers DEF IInv, JniCreates, New, Types, TypeOK, EngineTypeOK, engineVars,
      hostVars, hostUnchanged, runUnchanged, Goes
<1>1. Types'
  BY DEF States, RunPlaces, HostPlaces, HostSound, UnstartedSound, Empty
<1>2. HostSound'
  BY DEF HostSound, Fresh, Empty, Releasing, UnstartedSound, LoopLive
<1>3. UnstartedSound'
  <2>1. PICK e \in Engines : New(e) /\ g_engine' = e
    OBVIOUS
  <2>2. Fresh(e) /\ Empty(e) /\ state' = [state EXCEPT ![e] = "CREATED"] /\ host_pc' = "created"
    BY <2>1 DEF HostSound
  <2>3. UNCHANGED <<machine, loop, pool, run, freed, started>>
    BY <2>1
  <2> QED BY <2>1, <2>2, <2>3 DEF UnstartedSound, Fresh, Empty
<1>4. LoopLive'
  BY DEF LoopLive, HostSound, Fresh, UnstartedSound, Empty, Releasing
<1>5. ThreadSafe'
  BY DEF ThreadSafe, Undisturbed, HostSound, Fresh, LoopLive, Releasing
<1> QED BY <1>1, <1>2, <1>3, <1>4, <1>5 DEF IInv

LEMMA JniReusesSound == IInv /\ JniReuses => IInv'
<1> SUFFICES ASSUME IInv, JniReuses PROVE IInv'
  OBVIOUS
<1> USE EngineNumbers DEF IInv, JniReuses, Types, TypeOK, EngineTypeOK, engineVars, hostVars,
      hostUnchanged, runUnchanged, Goes
<1>1. Types'
  BY DEF States, RunPlaces, HostPlaces, HostSound, UnstartedSound, Empty
<1>2. HostSound'
  BY DEF HostSound, Fresh, Empty, Releasing, UnstartedSound, LoopLive
<1>3. UnstartedSound'
  BY DEF UnstartedSound, HostSound, Fresh, Empty
<1>4. LoopLive'
  BY DEF LoopLive, HostSound, Fresh, UnstartedSound, Empty, Releasing
<1>5. ThreadSafe'
  BY DEF ThreadSafe, Undisturbed, HostSound, Fresh, LoopLive, Releasing
<1> QED BY <1>1, <1>2, <1>3, <1>4, <1>5 DEF IInv

LEMMA JniStartsSound == IInv /\ JniStarts => IInv'
<1> SUFFICES ASSUME IInv, JniStarts PROVE IInv'
  OBVIOUS
<1> USE EngineNumbers DEF IInv, JniStarts, Types, TypeOK, EngineTypeOK, engineVars, hostVars,
      hostUnchanged, runUnchanged, Goes
<1>1. Types'
  <2>1. EngineTypeOK'
    BY DEF States, RunPlaces, HostPlaces, HostSound, UnstartedSound, Empty
  <2>2. (machine \in [Engines -> States \cup {"null"}])'
    BY DEF States, RunPlaces, HostPlaces, HostSound, UnstartedSound, Empty
  <2>3. (/\ host \in Hosts /\ host_pc \in HostPlaces
         /\ g_engine \in Engines \cup {0} /\ handler \in Engines \cup {0}
         /\ g_running \in BOOLEAN
         /\ swallowed \subseteq Engines /\ misuse \subseteq {"thread", "handler"})'
    BY DEF HostPlaces, HostSound
  <2>4. (signals \in 0..MaxSignals)'
    BY HostsAssumption
  <2> QED BY <2>1, <2>2, <2>3, <2>4
<1>2. HostSound'
  BY DEF HostSound, Fresh, Empty, Releasing, UnstartedSound, LoopLive
<1>3. UnstartedSound'
  BY DEF UnstartedSound, HostSound, Fresh, Empty
<1>4. LoopLive'
  BY DEF LoopLive, HostSound, Fresh, UnstartedSound, Empty, Releasing
<1>5. ThreadSafe'
  BY DEF ThreadSafe, Undisturbed, HostSound, Fresh, LoopLive, Releasing
<1> QED BY <1>1, <1>2, <1>3, <1>4, <1>5 DEF IInv

LEMMA JniStopSound == IInv /\ JniStop => IInv'
<1> SUFFICES ASSUME IInv, JniStop PROVE IInv'
  OBVIOUS
<1> USE EngineNumbers DEF IInv, JniStop, StopEngine, Types, TypeOK, EngineTypeOK, engineVars,
      hostVars, hostUnchanged, runUnchanged, Goes
<1>1. Types'
  BY DEF States, RunPlaces, HostPlaces, HostSound, UnstartedSound, Empty
<1>2. HostSound'
  BY DEF HostSound, Fresh, Empty, Releasing, UnstartedSound, LoopLive
<1>3. UnstartedSound'
  BY DEF UnstartedSound, HostSound, Fresh, Empty
<1>4. LoopLive'
  BY DEF LoopLive, HostSound, Fresh, UnstartedSound, Empty, Releasing
<1>5. ThreadSafe'
  BY DEF ThreadSafe, Undisturbed, HostSound, Fresh, LoopLive, Releasing
<1> QED BY <1>1, <1>2, <1>3, <1>4, <1>5 DEF IInv

LEMMA JniStopsLoopSound == IInv /\ JniStopsLoop => IInv'
<1> SUFFICES ASSUME IInv, JniStopsLoop PROVE IInv'
  OBVIOUS
<1> USE EngineNumbers DEF IInv, JniStopsLoop, StopLoop, Types, TypeOK, EngineTypeOK, engineVars,
      hostVars, hostUnchanged, runUnchanged, Goes
<1>1. Types'
  BY DEF States, RunPlaces, HostPlaces, HostSound, UnstartedSound, Empty
<1>2. HostSound'
  BY DEF HostSound, Fresh, Empty, Releasing, UnstartedSound, LoopLive
<1>3. UnstartedSound'
  BY DEF UnstartedSound, HostSound, Fresh, Empty
<1>4. LoopLive'
  BY DEF LoopLive, HostSound, Fresh, UnstartedSound, Empty, Releasing
<1>5. ThreadSafe'
  BY DEF ThreadSafe, Undisturbed, HostSound, Fresh, LoopLive, Releasing
<1> QED BY <1>1, <1>2, <1>3, <1>4, <1>5 DEF IInv

LEMMA JniWaitedSound == IInv /\ JniWaited => IInv'
<1> SUFFICES ASSUME IInv, JniWaited PROVE IInv'
  OBVIOUS
<1> USE EngineNumbers DEF IInv, JniWaited, Waited, Types, TypeOK, EngineTypeOK, engineVars,
      hostVars, hostUnchanged, runUnchanged, Goes
<1>1. Types'
  BY DEF States, RunPlaces, HostPlaces, HostSound, UnstartedSound, Empty
<1>2. HostSound'
  BY DEF HostSound, Fresh, Empty, Releasing, UnstartedSound, LoopLive
<1>3. UnstartedSound'
  BY DEF UnstartedSound, HostSound, Fresh, Empty
<1>4. LoopLive'
  BY DEF LoopLive, HostSound, Fresh, UnstartedSound, Empty, Releasing
<1>5. ThreadSafe'
  BY DEF ThreadSafe, Undisturbed, HostSound, Fresh, LoopLive, Releasing
<1> QED BY <1>1, <1>2, <1>3, <1>4, <1>5 DEF IInv

LEMMA MainInitsSound == IInv /\ MainInits => IInv'
<1> SUFFICES ASSUME IInv, MainInits PROVE IInv'
  OBVIOUS
<1> USE EngineNumbers, InitStepsCount DEF IInv, MainInits, InitEngine, Types, TypeOK,
      EngineTypeOK, engineVars, hostVars, hostUnchanged, runUnchanged, Goes
<1>1. Types'
  <2>1. EngineTypeOK'
    <3>1. (/\ state \in [Engines -> States \cup {"none"}]
           /\ loop \in [Engines -> {"null", "live"}]
           /\ pool \in [Engines -> {"null", "idle", "started"}]
           /\ tick \in [Engines -> {"none", "queued", "unlinked"}]
           /\ run \in [Engines -> RunPlaces])'
      BY DEF States, HostSound
    <3>2. (stop_requested \in [Engines -> BOOLEAN] /\ loop_stop \in [Engines -> BOOLEAN])'
      OBVIOUS
    <3>3. (\A e \in Engines : machine[e] \in {state[e], "null"})'
      BY DEF HostSound, UnstartedSound, Empty, Fresh
    <3>4. (/\ freed \subseteq Engines /\ started \subseteq Engines
           /\ g_engine_for_signal \in Engines \cup {0})'
      BY DEF HostSound
    <3> QED BY <3>1, <3>2, <3>3, <3>4
  <2>2. (machine \in [Engines -> States \cup {"null"}])'
    BY DEF States, RunPlaces, HostPlaces, HostSound, UnstartedSound, Empty
  <2>3. (/\ host \in Hosts /\ host_pc \in HostPlaces
         /\ g_engine \in Engines \cup {0} /\ handler \in Engines \cup {0}
         /\ g_running \in BOOLEAN
         /\ swallowed \subseteq Engines /\ misuse \subseteq {"thread", "handler"})'
    BY DEF HostPlaces, HostSound
  <2>4. (signals \in 0..MaxSignals)'
    BY HostsAssumption
  <2> QED BY <2>1, <2>2, <2>3, <2>4
<1>2. HostSound'
  BY DEF HostSound, Fresh, Empty, Releasing, UnstartedSound, LoopLive
<1>3. UnstartedSound'
  BY DEF UnstartedSound, HostSound, Fresh, Empty
<1>4. LoopLive'
  BY DEF LoopLive, HostSound, Fresh, UnstartedSound, Empty, Releasing
<1>5. ThreadSafe'
  BY DEF ThreadSafe, Undisturbed, HostSound, Fresh, LoopLive, Releasing
<1> QED BY <1>1, <1>2, <1>3, <1>4, <1>5 DEF IInv

LEMMA JniInitsSound == IInv /\ JniInits => IInv'
<1> SUFFICES ASSUME IInv, JniInits PROVE IInv'
  OBVIOUS
<1> USE EngineNumbers, InitStepsCount DEF IInv, JniInits, InitEngine, Types, TypeOK,
      EngineTypeOK, engineVars, hostVars, hostUnchanged, runUnchanged, Goes
<1>1. Types'
  <2>1. EngineTypeOK'
    <3>1. (/\ state \in [Engines -> States \cup {"none"}]
           /\ loop \in [Engines -> {"null", "live"}]
           /\ pool \in [Engines -> {"null", "idle", "started"}]
           /\ tick \in [Engines -> {"none", "queued", "unlinked"}]
           /\ run \in [Engines -> RunPlaces])'
      BY DEF States, HostSound
    <3>2. (stop_requested \in [Engines -> BOOLEAN] /\ loop_stop \in [Engines -> BOOLEAN])'
      OBVIOUS
    <3>3. (\A e \in Engines : machine[e] \in {state[e], "null"})'
      BY DEF HostSound, UnstartedSound, Empty, Fresh
    <3>4. (/\ freed \subseteq Engines /\ started \subseteq Engines
           /\ g_engine_for_signal \in Engines \cup {0})'
      BY DEF HostSound
    <3> QED BY <3>1, <3>2, <3>3, <3>4
  <2>2. (machine \in [Engines -> States \cup {"null"}])'
    BY DEF States, RunPlaces, HostPlaces, HostSound, UnstartedSound, Empty
  <2>3. (/\ host \in Hosts /\ host_pc \in HostPlaces
         /\ g_engine \in Engines \cup {0} /\ handler \in Engines \cup {0}
         /\ g_running \in BOOLEAN
         /\ swallowed \subseteq Engines /\ misuse \subseteq {"thread", "handler"})'
    BY DEF HostPlaces, HostSound
  <2>4. (signals \in 0..MaxSignals)'
    BY HostsAssumption
  <2> QED BY <2>1, <2>2, <2>3, <2>4
<1>2. HostSound'
  BY DEF HostSound, Fresh, Empty, Releasing, UnstartedSound, LoopLive
<1>3. UnstartedSound'
  BY DEF UnstartedSound, HostSound, Fresh, Empty
<1>4. LoopLive'
  BY DEF LoopLive, HostSound, Fresh, UnstartedSound, Empty, Releasing
<1>5. ThreadSafe'
  BY DEF ThreadSafe, Undisturbed, HostSound, Fresh, LoopLive, Releasing
<1> QED BY <1>1, <1>2, <1>3, <1>4, <1>5 DEF IInv

LEMMA SignalSound == IInv /\ Signal => IInv'
<1> SUFFICES ASSUME IInv, Signal PROVE IInv'
  OBVIOUS
<1> USE EngineNumbers DEF IInv, Signal, Signalled, StopEngine, Types, TypeOK, EngineTypeOK,
      engineVars, hostVars, hostUnchanged, runUnchanged, Goes
<1>1. Types'
  <2>1. EngineTypeOK'
    <3>1. (/\ state \in [Engines -> States \cup {"none"}]
           /\ loop \in [Engines -> {"null", "live"}]
           /\ pool \in [Engines -> {"null", "idle", "started"}]
           /\ tick \in [Engines -> {"none", "queued", "unlinked"}]
           /\ run \in [Engines -> RunPlaces])'
      BY DEF States, HostSound
    <3>2. (stop_requested \in [Engines -> BOOLEAN] /\ loop_stop \in [Engines -> BOOLEAN])'
      OBVIOUS
    <3>3. (\A e \in Engines : machine[e] \in {state[e], "null"})'
      BY DEF HostSound, UnstartedSound, Empty, Fresh
    <3>4. (/\ freed \subseteq Engines /\ started \subseteq Engines
           /\ g_engine_for_signal \in Engines \cup {0})'
      BY DEF HostSound
    <3> QED BY <3>1, <3>2, <3>3, <3>4
  <2>2. (machine \in [Engines -> States \cup {"null"}])'
    BY DEF States, RunPlaces, HostPlaces, HostSound, UnstartedSound, Empty
  <2>3. (/\ host \in Hosts /\ host_pc \in HostPlaces
         /\ g_engine \in Engines \cup {0} /\ handler \in Engines \cup {0}
         /\ swallowed \subseteq Engines)'
    OBVIOUS
  <2>4. (signals \in 0..MaxSignals)'
    BY HostsAssumption
  <2>5. (misuse \subseteq {"thread", "handler"})'
    <3>1. misuse' = misuse \/ misuse' = misuse \cup {"handler"}
      OBVIOUS
    <3>2. misuse \subseteq {"thread", "handler"}
      OBVIOUS
    <3> QED BY <3>1, <3>2
  <2>6. (g_running \in BOOLEAN)'
    OBVIOUS
  <2> QED BY <2>1, <2>2, <2>3, <2>4, <2>5, <2>6
<1>2. HostSound'
  BY DEF HostSound, Fresh, Empty, Releasing, UnstartedSound, LoopLive
<1>3. UnstartedSound'
  BY DEF UnstartedSound, HostSound, Fresh, Empty
<1>4. LoopLive'
  BY DEF LoopLive, HostSound, Fresh, UnstartedSound, Empty, Releasing
<1>5. ThreadSafe'
  BY DEF ThreadSafe, Undisturbed, HostSound, Fresh, LoopLive, Releasing
<1> QED BY <1>1, <1>2, <1>3, <1>4, <1>5 DEF IInv

LEMMA SignalEndsSound == IInv /\ SignalEnds => IInv'
<1> SUFFICES ASSUME IInv, SignalEnds PROVE IInv'
  OBVIOUS
<1> USE EngineNumbers DEF IInv, SignalEnds, StopLoop, Types, TypeOK, EngineTypeOK, engineVars,
      hostVars, hostUnchanged, runUnchanged, Goes
<1>1. Types'
  <2>1. EngineTypeOK'
    <3>1. (/\ state \in [Engines -> States \cup {"none"}]
           /\ loop \in [Engines -> {"null", "live"}]
           /\ pool \in [Engines -> {"null", "idle", "started"}]
           /\ tick \in [Engines -> {"none", "queued", "unlinked"}]
           /\ run \in [Engines -> RunPlaces])'
      BY DEF States, HostSound
    <3>2. (stop_requested \in [Engines -> BOOLEAN] /\ loop_stop \in [Engines -> BOOLEAN])'
      OBVIOUS
    <3>3. (\A e \in Engines : machine[e] \in {state[e], "null"})'
      BY DEF HostSound, UnstartedSound, Empty, Fresh
    <3>4. (/\ freed \subseteq Engines /\ started \subseteq Engines
           /\ g_engine_for_signal \in Engines \cup {0})'
      BY DEF HostSound
    <3> QED BY <3>1, <3>2, <3>3, <3>4
  <2>2. (machine \in [Engines -> States \cup {"null"}])'
    BY DEF States, RunPlaces, HostPlaces, HostSound, UnstartedSound, Empty
  <2>3. (/\ host \in Hosts /\ host_pc \in HostPlaces
         /\ g_engine \in Engines \cup {0} /\ handler \in Engines \cup {0}
         /\ swallowed \subseteq Engines)'
    OBVIOUS
  <2>4. (signals \in 0..MaxSignals)'
    BY HostsAssumption
  <2>5. (misuse \subseteq {"thread", "handler"})'
    <3>1. misuse' = misuse \/ misuse' = misuse \cup {"handler"}
      OBVIOUS
    <3>2. misuse \subseteq {"thread", "handler"}
      OBVIOUS
    <3> QED BY <3>1, <3>2
  <2>6. (g_running \in BOOLEAN)'
    OBVIOUS
  <2> QED BY <2>1, <2>2, <2>3, <2>4, <2>5, <2>6
<1>2. HostSound'
  BY DEF HostSound, Fresh, Empty, Releasing, UnstartedSound, LoopLive
<1>3. UnstartedSound'
  BY DEF UnstartedSound, HostSound, Fresh, Empty
<1>4. LoopLive'
  BY DEF LoopLive, HostSound, Fresh, UnstartedSound, Empty, Releasing
<1>5. ThreadSafe'
  BY DEF ThreadSafe, Undisturbed, HostSound, Fresh, LoopLive, Releasing
<1> QED BY <1>1, <1>2, <1>3, <1>4, <1>5 DEF IInv

LEMMA ShutdownSound == IInv /\ Shutdown => IInv'
<1> SUFFICES ASSUME IInv, Shutdown PROVE IInv'
  OBVIOUS
<1> USE EngineNumbers DEF IInv, Shutdown, NothingToShutDown, Types, TypeOK, EngineTypeOK,
      engineVars, hostVars, hostUnchanged, runUnchanged, Goes
<1>1. Types'
  <2>1. EngineTypeOK'
    <3>1. (/\ state \in [Engines -> States \cup {"none"}]
           /\ loop \in [Engines -> {"null", "live"}]
           /\ pool \in [Engines -> {"null", "idle", "started"}]
           /\ tick \in [Engines -> {"none", "queued", "unlinked"}]
           /\ run \in [Engines -> RunPlaces])'
      BY DEF States, HostSound
    <3>2. (stop_requested \in [Engines -> BOOLEAN] /\ loop_stop \in [Engines -> BOOLEAN])'
      OBVIOUS
    <3>3. (\A e \in Engines : machine[e] \in {state[e], "null"})'
      BY DEF HostSound, UnstartedSound, Empty, Fresh
    <3>4. (/\ freed \subseteq Engines /\ started \subseteq Engines
           /\ g_engine_for_signal \in Engines \cup {0})'
      BY DEF HostSound
    <3> QED BY <3>1, <3>2, <3>3, <3>4
  <2>2. (machine \in [Engines -> States \cup {"null"}])'
    BY DEF States, RunPlaces, HostPlaces, HostSound, UnstartedSound, Empty
  <2>3. (/\ host \in Hosts /\ host_pc \in HostPlaces
         /\ g_engine \in Engines \cup {0} /\ handler \in Engines \cup {0}
         /\ g_running \in BOOLEAN
         /\ swallowed \subseteq Engines /\ misuse \subseteq {"thread", "handler"})'
    BY DEF HostPlaces, HostSound
  <2>4. (signals \in 0..MaxSignals)'
    BY HostsAssumption
  <2> QED BY <2>1, <2>2, <2>3, <2>4
<1>2. HostSound'
  BY DEF HostSound, Fresh, Empty, Releasing, UnstartedSound, LoopLive
<1>3. UnstartedSound'
  BY DEF UnstartedSound, HostSound, Fresh, Empty
<1>4. LoopLive'
  BY DEF LoopLive, HostSound, Fresh, UnstartedSound, Empty, Releasing
<1>5. ThreadSafe'
  BY DEF ThreadSafe, Undisturbed, HostSound, Fresh, LoopLive, Releasing
<1> QED BY <1>1, <1>2, <1>3, <1>4, <1>5 DEF IInv

LEMMA ReleaseSound == IInv /\ Release => IInv'
<1> SUFFICES ASSUME IInv, Release PROVE IInv'
  OBVIOUS
<1> USE EngineNumbers DEF IInv, Release, ReleasePool, ReleaseLoop, ReleaseMachine, Types,
      TypeOK, EngineTypeOK, engineVars, hostVars, hostUnchanged, runUnchanged, Goes
<1>1. Types'
  <2>1. EngineTypeOK'
    <3>1. (/\ state \in [Engines -> States \cup {"none"}]
           /\ loop \in [Engines -> {"null", "live"}]
           /\ pool \in [Engines -> {"null", "idle", "started"}]
           /\ tick \in [Engines -> {"none", "queued", "unlinked"}]
           /\ run \in [Engines -> RunPlaces])'
      BY DEF States, HostSound
    <3>2. (stop_requested \in [Engines -> BOOLEAN] /\ loop_stop \in [Engines -> BOOLEAN])'
      OBVIOUS
    <3>3. (\A e \in Engines : machine[e] \in {state[e], "null"})'
      BY DEF HostSound, UnstartedSound, Empty, Fresh
    <3>4. (/\ freed \subseteq Engines /\ started \subseteq Engines
           /\ g_engine_for_signal \in Engines \cup {0})'
      BY DEF HostSound
    <3> QED BY <3>1, <3>2, <3>3, <3>4
  <2>2. (machine \in [Engines -> States \cup {"null"}])'
    BY DEF States, RunPlaces, HostPlaces, HostSound, UnstartedSound, Empty
  <2>3. (/\ host \in Hosts /\ host_pc \in HostPlaces
         /\ g_engine \in Engines \cup {0} /\ handler \in Engines \cup {0}
         /\ g_running \in BOOLEAN
         /\ swallowed \subseteq Engines /\ misuse \subseteq {"thread", "handler"})'
    BY DEF HostPlaces, HostSound
  <2>4. (signals \in 0..MaxSignals)'
    BY HostsAssumption
  <2> QED BY <2>1, <2>2, <2>3, <2>4
<1>2. HostSound'
  BY DEF HostSound, Fresh, Empty, Releasing, UnstartedSound, LoopLive
<1>3. UnstartedSound'
  BY DEF UnstartedSound, HostSound, Fresh, Empty
<1>4. LoopLive'
  BY DEF LoopLive, HostSound, Fresh, UnstartedSound, Empty, Releasing
<1>5. ThreadSafe'
  BY DEF ThreadSafe, Undisturbed, HostSound, Fresh, LoopLive, Releasing
<1> QED BY <1>1, <1>2, <1>3, <1>4, <1>5 DEF IInv

LEMMA FreeSound == IInv /\ Free => IInv'
<1> SUFFICES ASSUME IInv, Free PROVE IInv'
  OBVIOUS
<1> USE EngineNumbers DEF IInv, Free, FreeEngine, Types, TypeOK, EngineTypeOK, engineVars,
      hostVars, hostUnchanged, runUnchanged, Goes
<1>1. Types'
  <2>1. EngineTypeOK'
    BY DEF States, RunPlaces, HostPlaces, HostSound, UnstartedSound, Empty
  <2>2. (machine \in [Engines -> States \cup {"null"}])'
    BY DEF States, RunPlaces, HostPlaces, HostSound, UnstartedSound, Empty
  <2>3. (/\ host \in Hosts /\ host_pc \in HostPlaces
         /\ g_engine \in Engines \cup {0} /\ handler \in Engines \cup {0}
         /\ g_running \in BOOLEAN
         /\ swallowed \subseteq Engines /\ misuse \subseteq {"thread", "handler"})'
    BY DEF HostPlaces, HostSound
  <2>4. (signals \in 0..MaxSignals)'
    BY HostsAssumption
  <2> QED BY <2>1, <2>2, <2>3, <2>4
<1>2. HostSound'
  BY HostsAssumption DEF HostSound, Fresh, Empty, Releasing
<1>3. UnstartedSound'
  BY DEF UnstartedSound, HostSound, Fresh, Empty
<1>4. LoopLive'
  BY DEF LoopLive, HostSound, Fresh, UnstartedSound, Empty, Releasing
<1>5. ThreadSafe'
  BY DEF ThreadSafe, Undisturbed, HostSound, Fresh, LoopLive, Releasing
<1> QED BY <1>1, <1>2, <1>3, <1>4, <1>5 DEF IInv

-----------------------------------------------------------------------------
(* The engine's thread.                                                    *)

\* A step of the thread leaves its program alone, but for the note of a lost stop.
Noted(e) ==
    /\ swallowed' = (IF Swallows(e) THEN swallowed \cup {e} ELSE swallowed)
    /\ UNCHANGED <<host, host_pc, g_engine, g_running, handler, signals, misuse>>

LEMMA RunRefusedSound ==
    ASSUME NEW e \in Engines, IInv, RunRefused(e), Noted(e)
    PROVE  IInv'
<1> USE EngineNumbers DEF IInv, RunRefused, Noted, Step, Gone, Types, TypeOK, EngineTypeOK,
      engineVars, hostVars, hostUnchanged, runUnchanged, Goes
<1>1. Types'
  BY DEF States, RunPlaces, HostPlaces, HostSound, UnstartedSound, Empty, Swallows
<1>2. HostSound'
  BY DEF HostSound, Fresh, Empty, Releasing, UnstartedSound, LoopLive
<1>3. UnstartedSound'
  BY DEF UnstartedSound, HostSound, Fresh, Empty
<1>4. LoopLive'
  BY DEF LoopLive, HostSound, Fresh, UnstartedSound, Empty, Releasing
<1>5. ThreadSafe'
  BY DEF ThreadSafe, Undisturbed, HostSound, Fresh, LoopLive, Releasing, Swallows
<1> QED BY <1>1, <1>2, <1>3, <1>4, <1>5 DEF IInv

LEMMA RunBeginsSound ==
    ASSUME NEW e \in Engines, IInv, RunBegins(e), Noted(e)
    PROVE  IInv'
<1> USE EngineNumbers DEF IInv, RunBegins, Noted, Step, Gone, SetState, Types, TypeOK,
      EngineTypeOK, engineVars, hostVars, hostUnchanged, runUnchanged, Goes
<1>1. Types'
  BY DEF States, RunPlaces, HostPlaces, HostSound, UnstartedSound, Empty, Swallows
<1>2. HostSound'
  BY DEF HostSound, Fresh, Empty, Releasing, UnstartedSound, LoopLive
<1>3. UnstartedSound'
  BY DEF UnstartedSound, HostSound, Fresh, Empty
<1>4. LoopLive'
  BY DEF LoopLive, HostSound, Fresh, UnstartedSound, Empty, Releasing
<1>5. ThreadSafe'
  BY DEF ThreadSafe, Undisturbed, HostSound, Fresh, LoopLive, Releasing, Swallows
<1> QED BY <1>1, <1>2, <1>3, <1>4, <1>5 DEF IInv

LEMMA RunClearsSound ==
    ASSUME NEW e \in Engines, IInv, RunClears(e), Noted(e)
    PROVE  IInv'
<1> USE EngineNumbers DEF IInv, RunClears, Noted, Step, Gone, Types, TypeOK, EngineTypeOK,
      engineVars, hostVars, hostUnchanged, runUnchanged, Goes
<1>1. Types'
  BY DEF States, RunPlaces, HostPlaces, HostSound, UnstartedSound, Empty, Swallows
<1>2. HostSound'
  BY DEF HostSound, Fresh, Empty, Releasing, UnstartedSound, LoopLive
<1>3. UnstartedSound'
  BY DEF UnstartedSound, HostSound, Fresh, Empty
<1>4. LoopLive'
  BY DEF LoopLive, HostSound, Fresh, UnstartedSound, Empty, Releasing
<1>5. ThreadSafe'
  BY DEF ThreadSafe, Undisturbed, HostSound, Fresh, LoopLive, Releasing, Swallows
<1> QED BY <1>1, <1>2, <1>3, <1>4, <1>5 DEF IInv

LEMMA AddTickSound ==
    ASSUME NEW e \in Engines, IInv, AddTick(e), Noted(e)
    PROVE  IInv'
<1> USE EngineNumbers DEF IInv, AddTick, Noted, Step, Gone, Types, TypeOK, EngineTypeOK,
      engineVars, hostVars, hostUnchanged, runUnchanged, Goes
<1>1. Types'
  BY DEF States, RunPlaces, HostPlaces, HostSound, UnstartedSound, Empty, Swallows
<1>2. HostSound'
  BY DEF HostSound, Fresh, Empty, Releasing, UnstartedSound, LoopLive
<1>3. UnstartedSound'
  BY DEF UnstartedSound, HostSound, Fresh, Empty
<1>4. LoopLive'
  BY DEF LoopLive, HostSound, Fresh, UnstartedSound, Empty, Releasing
<1>5. ThreadSafe'
  BY DEF ThreadSafe, Undisturbed, HostSound, Fresh, LoopLive, Releasing, Swallows
<1> QED BY <1>1, <1>2, <1>3, <1>4, <1>5 DEF IInv

LEMMA AddTickFailsSound ==
    ASSUME NEW e \in Engines, IInv, AddTickFails(e), Noted(e)
    PROVE  IInv'
<1> USE EngineNumbers DEF IInv, AddTickFails, Noted, Step, Gone, SetState, Types, TypeOK,
      EngineTypeOK, engineVars, hostVars, hostUnchanged, runUnchanged, Goes
<1>1. Types'
  BY DEF States, RunPlaces, HostPlaces, HostSound, UnstartedSound, Empty, Swallows
<1>2. HostSound'
  BY DEF HostSound, Fresh, Empty, Releasing, UnstartedSound, LoopLive
<1>3. UnstartedSound'
  BY DEF UnstartedSound, HostSound, Fresh, Empty
<1>4. LoopLive'
  BY DEF LoopLive, HostSound, Fresh, UnstartedSound, Empty, Releasing
<1>5. ThreadSafe'
  BY DEF ThreadSafe, Undisturbed, HostSound, Fresh, LoopLive, Releasing, Swallows
<1> QED BY <1>1, <1>2, <1>3, <1>4, <1>5 DEF IInv

LEMMA EnterLoopSound ==
    ASSUME NEW e \in Engines, IInv, EnterLoop(e), Noted(e)
    PROVE  IInv'
<1> USE EngineNumbers DEF IInv, EnterLoop, Noted, Step, Gone, Types, TypeOK, EngineTypeOK,
      engineVars, hostVars, hostUnchanged, runUnchanged, Goes
<1>1. Types'
  BY DEF States, RunPlaces, HostPlaces, HostSound, UnstartedSound, Empty, Swallows
<1>2. HostSound'
  BY DEF HostSound, Fresh, Empty, Releasing, UnstartedSound, LoopLive
<1>3. UnstartedSound'
  BY DEF UnstartedSound, HostSound, Fresh, Empty
<1>4. LoopLive'
  BY DEF LoopLive, HostSound, Fresh, UnstartedSound, Empty, Releasing
<1>5. ThreadSafe'
  BY DEF ThreadSafe, Undisturbed, HostSound, Fresh, LoopLive, Releasing, Swallows
<1> QED BY <1>1, <1>2, <1>3, <1>4, <1>5 DEF IInv

LEMMA LoopFailsSound ==
    ASSUME NEW e \in Engines, IInv, LoopFails(e), Noted(e)
    PROVE  IInv'
<1> USE EngineNumbers DEF IInv, LoopFails, Noted, Step, Gone, SetState, Types, TypeOK,
      EngineTypeOK, engineVars, hostVars, hostUnchanged, runUnchanged, Goes
<1>1. Types'
  BY DEF States, RunPlaces, HostPlaces, HostSound, UnstartedSound, Empty, Swallows
<1>2. HostSound'
  BY DEF HostSound, Fresh, Empty, Releasing, UnstartedSound, LoopLive
<1>3. UnstartedSound'
  BY DEF UnstartedSound, HostSound, Fresh, Empty
<1>4. LoopLive'
  BY DEF LoopLive, HostSound, Fresh, UnstartedSound, Empty, Releasing
<1>5. ThreadSafe'
  BY DEF ThreadSafe, Undisturbed, HostSound, Fresh, LoopLive, Releasing, Swallows
<1> QED BY <1>1, <1>2, <1>3, <1>4, <1>5 DEF IInv

LEMMA TickSound ==
    ASSUME NEW e \in Engines, IInv, Tick(e), Noted(e)
    PROVE  IInv'
<1> USE EngineNumbers DEF IInv, Tick, Noted, Step, Gone, Types, TypeOK, EngineTypeOK,
      engineVars, hostVars, hostUnchanged, runUnchanged, Goes
<1>1. Types'
  BY DEF States, RunPlaces, HostPlaces, HostSound, UnstartedSound, Empty, Swallows
<1>2. HostSound'
  BY DEF HostSound, Fresh, Empty, Releasing, UnstartedSound, LoopLive
<1>3. UnstartedSound'
  BY DEF UnstartedSound, HostSound, Fresh, Empty
<1>4. LoopLive'
  BY DEF LoopLive, HostSound, Fresh, UnstartedSound, Empty, Releasing
<1>5. ThreadSafe'
  BY DEF ThreadSafe, Undisturbed, HostSound, Fresh, LoopLive, Releasing, Swallows
<1> QED BY <1>1, <1>2, <1>3, <1>4, <1>5 DEF IInv

LEMMA LeaveLoopSound ==
    ASSUME NEW e \in Engines, IInv, LeaveLoop(e), Noted(e)
    PROVE  IInv'
<1> USE EngineNumbers DEF IInv, LeaveLoop, Noted, Step, Gone, SetState, Types, TypeOK,
      EngineTypeOK, engineVars, hostVars, hostUnchanged, runUnchanged, Goes
<1>1. Types'
  BY DEF States, RunPlaces, HostPlaces, HostSound, UnstartedSound, Empty, Swallows
<1>2. HostSound'
  BY DEF HostSound, Fresh, Empty, Releasing, UnstartedSound, LoopLive
<1>3. UnstartedSound'
  BY DEF UnstartedSound, HostSound, Fresh, Empty
<1>4. LoopLive'
  BY DEF LoopLive, HostSound, Fresh, UnstartedSound, Empty, Releasing
<1>5. ThreadSafe'
  BY DEF ThreadSafe, Undisturbed, HostSound, Fresh, LoopLive, Releasing, Swallows
<1> QED BY <1>1, <1>2, <1>3, <1>4, <1>5 DEF IInv

LEMMA RunEndsSound ==
    ASSUME NEW e \in Engines, IInv, RunEnds(e), Noted(e)
    PROVE  IInv'
<1> USE EngineNumbers DEF IInv, RunEnds, Noted, Step, Gone, SetState, Types, TypeOK,
      EngineTypeOK, engineVars, hostVars, hostUnchanged, runUnchanged, Goes
<1>1. Types'
  BY DEF States, RunPlaces, HostPlaces, HostSound, UnstartedSound, Empty, Swallows
<1>2. HostSound'
  BY DEF HostSound, Fresh, Empty, Releasing, UnstartedSound, LoopLive
<1>3. UnstartedSound'
  BY DEF UnstartedSound, HostSound, Fresh, Empty
<1>4. LoopLive'
  BY DEF LoopLive, HostSound, Fresh, UnstartedSound, Empty, Releasing
<1>5. ThreadSafe'
  BY DEF ThreadSafe, Undisturbed, HostSound, Fresh, LoopLive, Releasing, Swallows
<1> QED BY <1>1, <1>2, <1>3, <1>4, <1>5 DEF IInv

LEMMA ThreadMisusesSound ==
    ASSUME NEW e \in Engines, IInv, ThreadMisuses(e)
    PROVE  IInv'
<1> USE EngineNumbers DEF IInv, ThreadMisuses, Gone, Types, TypeOK, EngineTypeOK, engineVars,
      hostVars, hostUnchanged, runUnchanged, Goes
<1>1. Types'
  BY DEF States, RunPlaces, HostPlaces, HostSound, UnstartedSound, Empty
<1>2. HostSound'
  BY DEF HostSound, Fresh, Empty, Releasing, UnstartedSound, LoopLive
<1>3. UnstartedSound'
  BY DEF UnstartedSound, HostSound, Fresh, Empty
<1>4. LoopLive'
  BY DEF LoopLive, HostSound, Fresh, UnstartedSound, Empty, Releasing
<1>5. ThreadSafe'
  BY HostsAssumption DEF ThreadSafe, Undisturbed, HostSound, LoopLive
<1> QED BY <1>1, <1>2, <1>3, <1>4, <1>5 DEF IInv

LEMMA ThreadEndsSound ==
    ASSUME NEW e \in Engines, IInv, ThreadEnds(e)
    PROVE  IInv'
<1> USE EngineNumbers DEF IInv, ThreadEnds, Gone, Types, TypeOK, EngineTypeOK, engineVars,
      hostVars, hostUnchanged, runUnchanged, Goes
<1>1. Types'
  BY DEF States, RunPlaces, HostPlaces, HostSound, UnstartedSound, Empty
<1>2. HostSound'
  BY DEF HostSound, Fresh, Empty, Releasing, UnstartedSound, LoopLive
<1>3. UnstartedSound'
  BY DEF UnstartedSound, HostSound, Fresh, Empty
<1>4. LoopLive'
  BY DEF LoopLive, HostSound, Fresh, UnstartedSound, Empty, Releasing
<1>5. ThreadSafe'
  BY DEF ThreadSafe, Undisturbed, HostSound, Fresh, LoopLive, Releasing
<1> QED BY <1>1, <1>2, <1>3, <1>4, <1>5 DEF IInv

-----------------------------------------------------------------------------
LEMMA ThreadRunsSound ==
    ASSUME NEW e \in Engines, IInv, ThreadRuns(e)
    PROVE  IInv'
<1>1. RunStep(e)
  BY DEF ThreadRuns
<1>2. Noted(e)
  BY DEF ThreadRuns, Noted
<1> QED
  BY <1>1, <1>2, RunRefusedSound, RunBeginsSound, RunClearsSound, AddTickSound,
     AddTickFailsSound, EnterLoopSound, LoopFailsSound, TickSound, LeaveLoopSound, RunEndsSound
  DEF RunStep

LEMMA StutterSound == IInv /\ UNCHANGED vars => IInv'
BY DEF IInv, Types, TypeOK, EngineTypeOK, HostSound, Fresh, Empty, UnstartedSound, LoopLive,
       ThreadSafe, Undisturbed, vars, engineVars, hostVars

LEMMA StepSound == IInv /\ [Next]_vars => IInv'
<1> SUFFICES ASSUME IInv, [Next]_vars PROVE IInv'
  OBVIOUS
<1>1. CASE \E e \in Engines : ThreadRuns(e) \/ ThreadMisuses(e) \/ ThreadEnds(e)
  BY <1>1, ThreadRunsSound, ThreadMisusesSound, ThreadEndsSound
<1>2. CASE MainCreates \/ MainInstalls \/ MainInits \/ MainRuns \/ MainReturns \/ Signal \/ SignalEnds
  BY <1>2, MainCreatesSound, MainInstallsSound, MainInitsSound, MainRunsSound, MainReturnsSound,
     SignalSound, SignalEndsSound
<1>3. CASE JniCreates \/ JniInits \/ JniReuses \/ JniStarts \/ JniStop \/ JniStopsLoop \/ JniWaited
  BY <1>3, JniCreatesSound, JniInitsSound, JniReusesSound, JniStartsSound, JniStopSound,
     JniStopsLoopSound, JniWaitedSound
<1>4. CASE Shutdown \/ Release \/ Free
  BY <1>4, ShutdownSound, ReleaseSound, FreeSound
<1>5. CASE UNCHANGED vars
  BY <1>5, StutterSound
<1> QED BY <1>1, <1>2, <1>3, <1>4, <1>5 DEF Next

\* The argument's invariant.
THEOREM EngineInv == Spec => []IInv
<1> QED BY InitSound, StepSound, PTL DEF Spec

\* Every variable of an engine and of its program keeps its type.
THEOREM EngineTypes == Spec => []TypeOK
<1>1. IInv => TypeOK
  BY DEF IInv, Types
<1> QED BY <1>1, EngineInv, PTL

\* However many engines a program starts, and whenever signals, failures and stops
\* come: an engine is freed under its own thread only if a run forgot a stop.
THEOREM EngineNotFreedUnderThread == Spec => []FreedUnderThread
<1>1. IInv => FreedUnderThread
  BY DEF IInv, ThreadSafe, FreedUnderThread
<1> QED BY <1>1, EngineInv, PTL

\* An engine whose start failed, at any step of init, is freed with all it created.
THEOREM EngineFailedStartIsReleased == Spec => []FailedStartIsReleased
<1>1. IInv => FailedStartIsReleased
  BY DEF IInv, Types, TypeOK, EngineTypeOK, UnstartedSound, Empty, FailedStartIsReleased
<1> QED BY <1>1, EngineInv, PTL
=============================================================================
