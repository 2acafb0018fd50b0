---------------------------- MODULE StateMachine ----------------------------
(***************************************************************************)
(* The state machine of core/src/core/state.c: rules, callbacks, a ring    *)
(* buffer of past transitions, and the time spent in each state.           *)
(*                                                                         *)
(* Every function holds the machine's mutex from its first read to its     *)
(* return, callbacks included, so one call is one step.  A callback is     *)
(* what it returns; one that calls the machine back waits for its own lock.*)
(***************************************************************************)
EXTENDS Integers, Sequences

CONSTANTS
    Values,             \* wingo_state_value_t
    max_transitions,    \* WINGO_STATE_MAX_TRANSITIONS in the code
    max_callbacks,      \* 64 in the code
    max_history,        \* 64 in the code
    MaxTime             \* bound: the clock

StateAssumption ==
    /\ Values # {}
    /\ max_transitions \in Nat /\ max_callbacks \in Nat /\ MaxTime \in Nat
    /\ max_history \in Nat \ {0}

VARIABLES
    current, strict,
    transitions,        \* rules [from, to]
    callbacks,          \* entries [type, value, result]
    history,            \* the array of max_history records
    history_head, num_history,
    time_in_state, last_state_change,
    clock,              \* wingo_time_now_ms
    recent,             \* history: the last max_history records since the last clear
    spent               \* history: the ticks of the clock in each state

vars == <<current, strict, transitions, callbacks, history, history_head, num_history,
          time_in_state, last_state_change, clock, recent, spent>>

CbTypes == {"ON_EXIT", "ON_TRANS", "ON_ENTER"}
Rules == [from : Values, to : Values]
Entries == [type : CbTypes, value : Values, result : {"SUCCESS", "CALLBACK"}]
Records == [from : Values, to : Values, result : {"SUCCESS", "CALLBACK", "INVALID_STATE"}]

TypeOK ==
    /\ current \in Values /\ strict \in BOOLEAN
    /\ transitions \in Seq(Rules) /\ Len(transitions) <= max_transitions
    /\ callbacks \in Seq(Entries) /\ Len(callbacks) <= max_callbacks
    /\ history_head \in 0..(max_history - 1) /\ num_history \in 0..max_history
    /\ \A i \in 0..(num_history - 1) : history[i] \in Records
    /\ time_in_state \in [Values -> 0..MaxTime]
    /\ last_state_change \in 0..clock /\ clock \in 0..MaxTime

\* wingo_state_new
Init ==
    /\ current = (CHOOSE v \in Values : TRUE) /\ strict = FALSE
    /\ transitions = <<>> /\ callbacks = <<>>
    /\ history = [i \in 0..(max_history - 1) |-> "unset"]
    /\ history_head = 0 /\ num_history = 0
    /\ time_in_state = [v \in Values |-> 0] /\ last_state_change = 0
    /\ clock = 0 /\ recent = <<>> /\ spent = [v \in Values |-> 0]

historyVars == <<history, history_head, num_history, recent>>
timeVars == <<time_in_state, last_state_change>>
clockVars == <<clock, spent>>
configVars == <<strict, transitions, callbacks>>

-----------------------------------------------------------------------------
HasRule(from, to) == \E i \in DOMAIN transitions : transitions[i] = [from |-> from, to |-> to]

\* transition_allowed: rules count in either mode, but without any rule only
\* strict mode forbids.
Allowed(from, to) == HasRule(from, to) \/ (~strict /\ transitions = <<>>)

\* call_callbacks: an entry for a state is called when that state is entered
\* and when it is left, whichever of the two it was registered for.
Called(type, from, to) ==
    SelectSeq(callbacks, LAMBDA c : c.type = type /\ (type = "ON_TRANS" \/ c.value \in {from, to}))

Rejected(type, from, to) == \E i \in DOMAIN Called(type, from, to) :
                                Called(type, from, to)[i].result = "CALLBACK"

\* The last n elements of a sequence
LastN(s, n) == IF Len(s) <= n THEN s ELSE SubSeq(s, Len(s) - n + 1, Len(s))

Record_Bug(from, to, result) ==
    LET r == [from |-> from, to |-> to, result |-> result] IN
    /\ history' = [history EXCEPT ![history_head] = r]
    /\ num_history' = (num_history + 1) % (max_history + 1)
    /\ history_head' = (history_head + 1) % max_history
    /\ recent' = LastN(Append(recent, r), max_history)

\* record_history
Record(from, to, result) ==
    LET r == [from |-> from, to |-> to, result |-> result] IN
    /\ history' = [history EXCEPT ![history_head] = r]
    /\ history_head' = (history_head + 1) % max_history
    /\ num_history' = IF num_history < max_history THEN num_history + 1 ELSE num_history
    /\ recent' = LastN(Append(recent, r), max_history)

\* The time tracking and the update of wingo_state_transition and _force.
MoveTo(to) ==
    /\ time_in_state' = [time_in_state EXCEPT ![current] = @ + (clock - last_state_change)]
    /\ current' = to /\ last_state_change' = clock

\* wingo_state_transition.  An error of an ON_ENTER callback is returned after
\* the state has changed and stays changed, although state.h:127 says of any
\* callback "error code to reject transition".
Transition(to) ==
    /\ to # current
    /\ LET stays == UNCHANGED <<current, timeVars>> IN
       IF ~Allowed(current, to)
       THEN Record(current, to, "INVALID_STATE") /\ stays
       ELSE IF Rejected("ON_EXIT", current, to) \/ Rejected("ON_TRANS", current, to)
       THEN Record(current, to, "CALLBACK") /\ stays
       ELSE /\ MoveTo(to)
            /\ Record(current, to, IF Rejected("ON_ENTER", current, to) THEN "CALLBACK" ELSE "SUCCESS")
    /\ UNCHANGED <<configVars, clockVars>>

\* wingo_state_force: no rule is looked at, and what callbacks return is ignored.
Force(to) ==
    /\ to # current
    /\ MoveTo(to)
    /\ Record(current, to, "SUCCESS")
    /\ UNCHANGED <<configVars, clockVars>>

-----------------------------------------------------------------------------
\* The array without the first e: the entries behind it move up.
Without(s, e) ==
    LET i == CHOOSE i \in DOMAIN s : s[i] = e /\ \A j \in 1..(i - 1) : s[j] # e
    IN  SubSeq(s, 1, i - 1) \o SubSeq(s, i + 1, Len(s))

AddTransition(r) ==
    /\ ~HasRule(r.from, r.to) /\ Len(transitions) < max_transitions
    /\ transitions' = Append(transitions, r)
    /\ UNCHANGED <<current, strict, callbacks, historyVars, timeVars, clockVars>>

RemoveTransition(r) ==
    /\ HasRule(r.from, r.to)
    /\ transitions' = Without(transitions, r)
    /\ UNCHANGED <<current, strict, callbacks, historyVars, timeVars, clockVars>>

ClearTransitions ==
    /\ transitions' = <<>>
    /\ UNCHANGED <<current, strict, callbacks, historyVars, timeVars, clockVars>>

SetStrict(b) ==
    /\ strict' = b
    /\ UNCHANGED <<current, transitions, callbacks, historyVars, timeVars, clockVars>>

\* The same callback may be registered twice.
AddCallback(c) ==
    /\ Len(callbacks) < max_callbacks
    /\ callbacks' = Append(callbacks, c)
    /\ UNCHANGED <<current, strict, transitions, historyVars, timeVars, clockVars>>

\* The first that matches is removed.
RemoveCallback(c) ==
    /\ \E i \in DOMAIN callbacks : callbacks[i] = c
    /\ callbacks' = Without(callbacks, c)
    /\ UNCHANGED <<current, strict, transitions, historyVars, timeVars, clockVars>>

ClearCallbacks ==
    /\ callbacks' = <<>>
    /\ UNCHANGED <<current, strict, transitions, historyVars, timeVars, clockVars>>

\* wingo_state_clear_history; the array keeps its records
ClearHistory ==
    /\ num_history' = 0 /\ history_head' = 0 /\ recent' = <<>>
    /\ UNCHANGED <<current, configVars, history, timeVars, clockVars>>

Tick ==
    /\ clock < MaxTime /\ clock' = clock + 1
    /\ spent' = [spent EXCEPT ![current] = @ + 1]
    /\ UNCHANGED <<current, configVars, historyVars, timeVars>>

Next ==
    \/ \E v \in Values : Transition(v) \/ Force(v)
    \/ \E r \in Rules : AddTransition(r) \/ RemoveTransition(r)
    \/ \E c \in Entries : AddCallback(c) \/ RemoveCallback(c)
    \/ \E b \in BOOLEAN : SetStrict(b)
    \/ ClearTransitions \/ ClearCallbacks \/ ClearHistory \/ Tick

Spec == Init /\ [][Next]_vars

-----------------------------------------------------------------------------
\* wingo_state_get_history: from the oldest record on
GetHistory(max) ==
    LET start == IF num_history < max_history THEN 0 ELSE history_head
    IN [i \in 1..(IF num_history < max THEN num_history ELSE max) |->
            history[(start + i - 1) % max_history]]

\* wingo_state_get_time_in
GetTimeIn(v) == time_in_state[v] + (IF v = current THEN clock - last_state_change ELSE 0)

\* After any mix of calls, clears and wraps of the ring, get_history returns the
\* latest records in the order they were made, and the last of them agrees with
\* the current state: the target of a success and the origin of a refusal.  When
\* a callback failed it is the origin for one called before the change (ON_EXIT,
\* ON_TRANS) and the target for an ON_ENTER callback: against state.h:127, that
\* error does not reject the transition, and the record does not tell which it was.
HistoryIsRecent ==
    /\ GetHistory(max_history) = recent
    /\ recent # <<>> =>
          LET r == recent[Len(recent)] IN
          current \in CASE r.result = "SUCCESS" -> {r.to}
                        [] r.result = "INVALID_STATE" -> {r.from}
                        [] OTHER -> {r.from, r.to}

\* No time is lost or counted twice: what get_time_in tells of a state is the time
\* the machine was in it, whether changes were asked for, forced or refused.
TimeAccounted == \A v \in Values : GetTimeIn(v) = spent[v]
=============================================================================
