--------------------------- MODULE SearchManager ----------------------------
(***************************************************************************)
(* The array of searches of the manager in net/dht/dht_search.c.  Its      *)
(* calls walk the array one place after another, and what they call may    *)
(* take a search out of the array they walk: wingo_dht_search_free does,   *)
(* and a done callback may free its search.  The walk is a variable, one   *)
(* step for each place.  What a search does by itself is in DhtSearch;     *)
(* transaction ids, which nothing looks up, are left out.                 *)
(***************************************************************************)
EXTENDS Integers, Sequences, SequencesExt

CONSTANTS
    Searches,           \* the objects
    StartCapacity,      \* 16
    Expire,             \* WINGO_DHT_SEARCH_EXPIRE
    MaxTime             \* bound: the clock's last value, which stands for all later

VARIABLES
    allocated,
    searches, capacity, \* mgr->searches, the first mgr->count; 0 is NULL
    phase,              \* of each search: "init", "running" or "done"
    frees,              \* the searches whose done callback frees them
    began,              \* started_at
    walk,               \* the call that walks the array and its place
    now

objects == <<allocated, searches, phase, frees, began>>
managerVars == <<objects, capacity, walk>>

ManagerAssumption ==
    /\ Searches \subseteq Nat \ {0} /\ StartCapacity \in Nat \ {0}
    /\ Expire \in Nat /\ MaxTime \in Nat

Resting == [call |-> "none", at |-> 0]

TypeOK ==
    /\ allocated \subseteq Searches /\ frees \subseteq Searches
    /\ searches \in Seq(Searches \cup {0}) /\ Len(searches) <= capacity
    /\ phase \in [Searches -> {"init", "running", "done"}]
    /\ began \in [Searches -> 0..MaxTime]
    /\ walk.call \in {"none", "step", "expire", "clear"}

\* wingo_dht_search_mgr_new
Init ==
    /\ allocated = {} /\ searches = <<>> /\ capacity = StartCapacity
    /\ phase = [s \in Searches |-> "init"] /\ frees = {}
    /\ began = [s \in Searches |-> 0]
    /\ walk = Resting

Idle == walk.call = "none"

-----------------------------------------------------------------------------
(* Searches come and go between the walks.                                 *)

\* wingo_dht_search_new, mgr_add_search and mgr_grow: max_searches bounds nothing.
New(s, freeing) ==
    /\ Idle /\ s \notin allocated /\ now + Expire <= MaxTime
    /\ allocated' = allocated \cup {s}
    /\ capacity' = IF Len(searches) >= capacity THEN 2 * capacity ELSE capacity
    /\ searches' = Append(searches, s)
    /\ phase' = [phase EXCEPT ![s] = "init"]
    /\ frees' = IF freeing THEN frees \cup {s} ELSE frees \ {s}
    /\ began' = [began EXCEPT ![s] = now]
    /\ UNCHANGED <<walk, now>>

Start(s) ==
    /\ Idle /\ s \in allocated /\ phase[s] = "init" /\ now + Expire <= MaxTime
    /\ phase' = [phase EXCEPT ![s] = "running"] /\ began' = [began EXCEPT ![s] = now]
    /\ UNCHANGED <<allocated, searches, capacity, frees, walk, now>>

\* mgr_remove_search: the later ones move up.
Without_Bug(s) == SubSeq(searches, 1, Len(searches) - 1)
Without(s) == RemoveFirst(searches, s)

\* wingo_dht_search_free, for one or more searches
Released(gone) ==
    /\ allocated' = allocated \ gone /\ frees' = frees \ gone
    /\ phase' = [s \in Searches |-> IF s \in gone THEN "init" ELSE phase[s]]
    /\ began' = [s \in Searches |-> IF s \in gone THEN 0 ELSE began[s]]

Free(s) ==
    /\ Idle /\ s \in allocated
    /\ Released({s}) /\ searches' = Without(s)
    /\ UNCHANGED <<capacity, walk, now>>

\* A search ends and its done callback runs.
Finished(s) ==
    IF s \in frees
    THEN Released({s}) /\ searches' = Without(s)
    ELSE /\ phase' = [phase EXCEPT ![s] = "done"]
         /\ UNCHANGED <<allocated, searches, frees, began>>

Cancel(s) ==
    /\ Idle /\ s \in allocated /\ phase[s] # "done"
    /\ Finished(s)
    /\ UNCHANGED <<capacity, walk, now>>

-----------------------------------------------------------------------------
(* The walks                                                               *)

Begin(call) ==
    /\ Idle /\ walk' = [call |-> call, at |-> 1]
    /\ UNCHANGED <<allocated, searches, capacity, phase, frees, began, now>>

Here == searches[walk.at]
Walking(call) == walk.call = call /\ walk.at <= Len(searches)
Onward == walk' = [walk EXCEPT !.at = @ + 1]

\* wingo_dht_search_mgr_step: a step may end the search (DhtSearch says when).
StepHere ==
    /\ Walking("step") /\ Onward
    /\ \/ Here # 0 /\ phase[Here] = "running" /\ Finished(Here)
       \/ UNCHANGED objects
    /\ UNCHANGED <<capacity, now>>

\* A search that was never started is as old as its creation.
Overdue(s) == s # 0 /\ phase[s] # "done" /\ now - began[s] >= Expire

\* wingo_dht_search_mgr_expire
ExpireHere ==
    /\ Walking("expire") /\ Onward
    /\ IF Overdue(Here) THEN Finished(Here) ELSE UNCHANGED objects
    /\ UNCHANGED <<capacity, now>>

\* wingo_dht_search_mgr_clear, and mgr_free without the NULL: free takes the search
\* out of the array, and the place it leaves, with the next one in it, is cleared.
ClearHere ==
    /\ Walking("clear") /\ Onward
    /\ LET rest == Without(Here) IN
       IF Here = 0 THEN UNCHANGED objects
       ELSE /\ Released({Here})
            /\ searches' = IF walk.at <= Len(rest) THEN [rest EXCEPT ![walk.at] = 0] ELSE rest
    /\ UNCHANGED <<capacity, now>>

End ==
    /\ ~Idle /\ walk.at > Len(searches)
    /\ walk' = IF walk.call = "step" THEN [call |-> "expire", at |-> 1] ELSE Resting
    /\ searches' = IF walk.call = "clear" THEN <<>> ELSE searches
    /\ UNCHANGED <<allocated, capacity, phase, frees, began, now>>

Tick ==
    /\ Idle /\ now < MaxTime /\ now' = now + 1
    /\ UNCHANGED managerVars

Next ==
    \/ \E s \in Searches, f \in BOOLEAN : New(s, f)
    \/ \E s \in Searches : Start(s) \/ Free(s) \/ Cancel(s)
    \/ Begin("step") \/ Begin("clear")
    \/ StepHere \/ ExpireHere \/ ClearHere \/ End \/ Tick

vars == <<managerVars, now>>

\* wingo_dht_periodic is called again and again, and a call that began ends.
Fair ==
    /\ SF_vars(Begin("step"))
    /\ WF_vars(StepHere) /\ WF_vars(ExpireHere) /\ WF_vars(ClearHere) /\ WF_vars(End)
    /\ SF_vars(Tick)

Spec == Init /\ now = 0 /\ [][Next]_vars /\ Fair

-----------------------------------------------------------------------------
\* No call reads a search that a callback has freed, whatever order they end in.
NoneFreed == \A i \in DOMAIN searches : searches[i] = 0 \/ searches[i] \in allocated

\* Between calls the array holds each of its searches once and no NULL.
EachOnce ==
    Idle => \A i, j \in DOMAIN searches :
                searches[i] # 0 /\ (searches[i] = searches[j] => i = j)

\* A running search that stays in the array ends, although a callback that frees an
\* earlier one makes the walk pass over its neighbour.
Managed(s) == phase[s] = "running" /\ \E i \in DOMAIN searches : searches[i] = s
SearchesEnd == \A s \in Searches : Managed(s) ~> ~Managed(s)
=============================================================================
