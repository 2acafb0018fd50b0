------------------------------- MODULE Lookup -------------------------------
(***************************************************************************)
(* What the iterative search of net/dht/dht_search.c promises its caller,  *)
(* without arrays and clocks: it asks the nodes it knows from the nearest  *)
(* on, each at most once, succeeds only when the nearest ones it knows     *)
(* have all been asked, and comes to one verdict, which stands.            *)
(*                                                                         *)
(* A node is its distance from the target.                                 *)
(***************************************************************************)
EXTENDS Integers, FiniteSets

CONSTANTS
    Nodes,      \* the nodes of the network, as distances
    Inflight    \* how many of the nearest nodes decide

VARIABLES
    state,      \* "init", "running", or the verdict
    known,      \* the nodes the search keeps
    asked,      \* those it told its caller to query
    heard       \* those that replied, asked or not

vars == <<state, known, asked, heard>>

Init == state = "init" /\ known = {} /\ asked = {} /\ heard = {}

Nearest(S) == {n \in S : Cardinality({m \in S : m < n}) < Inflight}

Begin ==
    /\ state = "init" /\ state' = "running"
    /\ UNCHANGED <<known, asked, heard>>

\* The caller heard of a node, perhaps from itself.
Learn(n) ==
    /\ state \in {"init", "running"}
    /\ known' = known \cup {n}
    /\ heard' \in {heard, heard \cup {n}}
    /\ UNCHANGED <<state, asked>>

Hear(n) ==
    /\ n \in known
    /\ heard' = heard \cup {n}
    /\ UNCHANGED <<state, known, asked>>

Forget(n) ==
    /\ known' = known \ {n} /\ asked' = asked \ {n} /\ heard' = heard \ {n}
    /\ UNCHANGED state

\* The nearest of those neither asked nor heard.
Ask(n) ==
    /\ state = "running"
    /\ n \in known \ (asked \cup heard)
    /\ \A m \in known : m < n => m \in asked \cup heard
    /\ asked' = asked \cup {n}
    /\ UNCHANGED <<state, known, heard>>

Succeed ==
    /\ state = "running" /\ Nearest(known) \subseteq asked
    /\ state' = "done"
    /\ UNCHANGED <<known, asked, heard>>

GiveUp ==
    /\ state \in {"init", "running"}
    /\ state' \in {"timeout", "canceled"}
    /\ UNCHANGED <<known, asked, heard>>

Next ==
    \/ Begin \/ Succeed \/ GiveUp
    \/ \E n \in Nodes : Learn(n) \/ Hear(n) \/ Forget(n) \/ Ask(n)

Spec == Init /\ [][Next]_vars
=============================================================================
