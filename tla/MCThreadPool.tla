---------------------------- MODULE MCThreadPool ----------------------------
(* The thread pool on small instances, for TLC. *)
EXTENDS ThreadPool, TLC

\* Workers, clients and tasks are interchangeable in the safety runs.
PoolSymmetry ==
    Permutations(Workers) \cup Permutations(Clients) \cup Permutations(Tasks)
=============================================================================
