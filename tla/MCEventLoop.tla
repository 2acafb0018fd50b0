---------------------------- MODULE MCEventLoop ----------------------------
(* The event loop on small instances, for TLC. *)
EXTENDS EventLoop, TLC

ShortDelays == {0, 2}
UnitDelays == {0, 1}

\* Events, and stoppers, are interchangeable in the safety run.
LoopSymmetry == Permutations(Events) \cup Permutations(Stoppers)

\* No guard reads event->active or event->oneshot, and no property of the
\* safety run but the type invariant mentions them.
LoopView == <<kind, delay_ms, timers, flagVars, epollVars, pc, walkVars,
              batchVars, spc, now, runs, histVars>>
=============================================================================
