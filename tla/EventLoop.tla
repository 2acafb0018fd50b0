----------------------------- MODULE EventLoop -----------------------------
(***************************************************************************)
(* The event loop of core/src/core/event.c.  One thread runs the loop and  *)
(* every callback; lists are touched by that thread only (or, while no     *)
(* call is in progress, by the owner), so a function that a callback calls *)
(* is one action.  Other threads and signal handlers stop or wake the loop *)
(* at any moment: a store and a write of the eventfd, two steps.           *)
(*                                                                         *)
(* A callback is any program over the loop's interface: it adds events,    *)
(* resets, removes, posts, stops, reads its descriptor, and returns.       *)
(***************************************************************************)
EXTENDS Integers, Sequences, FiniteSets, SequencesExt

CONSTANTS
    Events,     \* struct wingo_event objects
    NoEvent,    \* the null pointer
    Stoppers,   \* threads and signal handlers that stop or wake the loop
    Delays,     \* the delays timers are given, in ticks of the clock
    Interface,  \* the optional functions the callbacks may call
    MaxTime,    \* bound: no deadline is later; the clock's last value stands
                \* for every later time
    MaxRuns     \* bound: how often the owner enters the loop

\* The interface allows negative delays; no caller in the repository has one.
ASSUME NoEventAssumption == NoEvent \notin Events
ASSUME DelaysAssumption == Delays \subseteq Nat
ASSUME InterfaceAssumption == Interface \subseteq {"reset", "remove", "modify", "signal"}
ASSUME LoopBoundsAssumption == MaxTime \in Nat /\ MaxRuns \in Nat

VARIABLES
    kind,           \* event->type, "new" before event_alloc
    delay_ms,       \* event->delay_ms: the absolute time a timer is due
    active,         \* event->active
    oneshot,        \* event->oneshot
    timers,         \* loop->timers
    running,        \* loop->running
    stop_requested, \* loop->stop_requested
    wakeup,         \* is loop->wakeup_fd readable?
    armed,          \* what the epoll instance holds for an event's descriptor
    ready,          \* descriptors with data to read
    signalled,      \* is loop->sigfd readable?
    pc,             \* where the loop's thread stands
    timeout_ms,     \* the argument of wingo_event_loop_run_once
    clock_read,     \* local `now' of process_timers
    node,           \* local `node' of process_timers
    cur,            \* the event whose callback runs
    batch,          \* reported descriptors not yet dispatched
    nulls,          \* reported null pointers not yet handled
    spc,            \* where each stopper stands
    now,            \* wingo_time_now_ms
    runs,           \* how often the owner entered the loop
    fired,          \* history: events whose callback was called
    retimed,        \* history: was a timer reset while in the list?
    tested_at,      \* history: when run computed its timeout
    slept_at        \* history: when epoll_wait was entered

eventVars == <<kind, delay_ms, active, oneshot>>
flagVars  == <<running, stop_requested>>
epollVars == <<wakeup, armed, ready, signalled>>
walkVars  == <<timeout_ms, clock_read, node, cur>>
batchVars == <<batch, nulls>>
histVars  == <<fired, retimed, tested_at, slept_at>>
vars == <<eventVars, timers, flagVars, epollVars, pc, walkVars, batchVars,
          spc, now, runs, histVars>>

Forever == -1       \* epoll_wait's timeout for "block until an event"

PC == {"out", "starting", "test", "once", "timers", "poll", "events",
       "callback", "freed"}

\* wingo_event_loop_new
Init ==
    /\ kind = [e \in Events |-> "new"]
    /\ delay_ms = [e \in Events |-> 0]
    /\ active = [e \in Events |-> FALSE]
    /\ oneshot = [e \in Events |-> FALSE]
    /\ timers = <<>>
    /\ running = FALSE /\ stop_requested = FALSE
    /\ wakeup = FALSE /\ signalled = FALSE
    /\ armed = [e \in Events |-> "off"]
    /\ ready = {}
    /\ pc = "out"
    /\ timeout_ms = 0 /\ clock_read = 0 /\ node = NoEvent /\ cur = NoEvent
    /\ batch = {} /\ nulls = 0
    /\ spc = [s \in Stoppers |-> "idle"]
    /\ now = 0 /\ runs = 0
    /\ fired = {} /\ retimed = FALSE /\ tested_at = 0 /\ slept_at = 0

-----------------------------------------------------------------------------
(* What callbacks do, and the owner while no call is in progress.  The     *)
(* operators whose names end in _Bug are faults the checks must notice;    *)
(* nothing below uses them.                                                *)

MayCall == pc \in {"out", "callback"}

\* event_alloc and event_add_to_loop
Alloc(e, k, shot) ==
    /\ MayCall /\ kind[e] = "new"
    /\ kind' = [kind EXCEPT ![e] = k]
    /\ active' = [active EXCEPT ![e] = TRUE]
    /\ oneshot' = [oneshot EXCEPT ![e] = shot]

\* The comparison of timer_compare the wrong way round.
InsertionPoint_Bug(i, t) ==
    /\ \A j \in 1..(i - 1) : delay_ms[timers[j]] >= t
    /\ i <= Len(timers) => t > delay_ms[timers[i]]

\* An event due at time t goes in front of the first that is due later.
InsertionPoint(i, t) ==
    /\ \A j \in 1..(i - 1) : delay_ms[timers[j]] <= t
    /\ i <= Len(timers) => t < delay_ms[timers[i]]

\* A timer goes to the end, as a posted event does.
AddTimer_Bug(e, d) ==
    /\ Alloc(e, "timer", FALSE)
    /\ now + d <= MaxTime
    /\ delay_ms' = [delay_ms EXCEPT ![e] = now + d]
    /\ timers' = Append(timers, e)
    /\ UNCHANGED <<flagVars, epollVars, pc, walkVars, batchVars, spc, now, runs,
                   histVars>>

AddTimer(e, d) ==
    /\ Alloc(e, "timer", FALSE)
    /\ now + d <= MaxTime
    /\ delay_ms' = [delay_ms EXCEPT ![e] = now + d]
    /\ \E i \in 1..(Len(timers) + 1) :
         InsertionPoint(i, now + d) /\ timers' = InsertAt(timers, i, e)
    /\ UNCHANGED <<flagVars, epollVars, pc, walkVars, batchVars, spc, now, runs,
                   histVars>>

\* A user event: due now, but appended behind every timer.
Post(e) ==
    /\ Alloc(e, "user", TRUE)
    /\ delay_ms' = [delay_ms EXCEPT ![e] = now]
    /\ timers' = Append(timers, e)
    /\ wakeup' = TRUE
    /\ UNCHANGED <<flagVars, armed, ready, signalled, pc, walkVars, batchVars,
                   spc, now, runs, histVars>>

AddFd(e, shot) ==
    /\ Alloc(e, "fd", shot)
    /\ armed' = [armed EXCEPT ![e] = IF shot THEN "oneshot" ELSE "level"]
    /\ UNCHANGED <<delay_ms, timers, flagVars, wakeup, ready, signalled, pc,
                   walkVars, batchVars, spc, now, runs, histVars>>

\* The signalfd is registered with a null pointer, like the eventfd.
AddSignal(e) ==
    /\ Alloc(e, "signal", FALSE)
    /\ UNCHANGED <<delay_ms, timers, flagVars, epollVars, pc, walkVars,
                   batchVars, spc, now, runs, histVars>>

\* wingo_event_modify_fd: the epoll instance is not told.
ModifyFd(e, shot) ==
    /\ MayCall /\ kind[e] = "fd"
    /\ oneshot' = [oneshot EXCEPT ![e] = shot]
    /\ UNCHANGED <<kind, delay_ms, active, timers, flagVars, epollVars, pc,
                   walkVars, batchVars, spc, now, runs, histVars>>

\* wingo_event_timer_reset: the list is neither extended nor sorted, so that a
\* timer whose callback was called is not in it afterwards either (ResetRelinks).
TimerReset(e, d) ==
    /\ MayCall /\ kind[e] = "timer" /\ now + d <= MaxTime
    /\ delay_ms' = [delay_ms EXCEPT ![e] = now + d]
    /\ active' = [active EXCEPT ![e] = TRUE]
    /\ retimed' = (retimed \/ Contains(timers, e))
    /\ UNCHANGED <<kind, oneshot, timers, flagVars, epollVars, pc, walkVars,
                   batchVars, spc, now, runs, fired, tested_at, slept_at>>

\* wingo_event_remove_fd, _remove_timer, _remove_signal (post has no handle).
\* process_timers and process_epoll_events call an event that is not active all
\* the same, although event.h:282 says of remove_timer "Cancel a timer."
RemoveEvent(e) ==
    /\ MayCall /\ kind[e] \in {"fd", "timer", "signal"}
    /\ active' = [active EXCEPT ![e] = FALSE]
    /\ UNCHANGED <<kind, delay_ms, oneshot, timers, flagVars, epollVars, pc,
                   walkVars, batchVars, spc, now, runs, histVars>>

\* The loop's own thread is awake, so it need not be woken.
StopHere_Bug ==
    /\ MayCall
    /\ stop_requested' = TRUE
    /\ UNCHANGED <<eventVars, timers, running, epollVars, pc, walkVars,
                   batchVars, spc, now, runs, histVars>>

\* wingo_event_loop_stop on the loop's own thread
StopHere ==
    /\ MayCall
    /\ stop_requested' = TRUE
    /\ wakeup' = TRUE
    /\ UNCHANGED <<eventVars, timers, running, armed, ready, signalled, pc,
                   walkVars, batchVars, spc, now, runs, histVars>>

\* A descriptor's callback reads what there is.
ReadFd ==
    /\ pc = "callback" /\ cur \in ready
    /\ ready' = ready \ {cur}
    /\ UNCHANGED <<eventVars, timers, flagVars, wakeup, armed, signalled, pc,
                   walkVars, batchVars, spc, now, runs, histVars>>

Call ==
    \/ \E e \in Events, d \in Delays : AddTimer(e, d)
    \/ \E e \in Events, shot \in BOOLEAN : AddFd(e, shot)
    \/ \E e \in Events : Post(e)
    \/ StopHere
    \/ ReadFd
    \/ "reset" \in Interface /\ \E e \in Events, d \in Delays : TimerReset(e, d)
    \/ "remove" \in Interface /\ \E e \in Events : RemoveEvent(e)
    \/ "modify" \in Interface /\ \E e \in Events, shot \in BOOLEAN : ModifyFd(e, shot)
    \/ "signal" \in Interface /\ \E e \in Events : AddSignal(e)

-----------------------------------------------------------------------------
(* The loop.                                                               *)

\* wingo_event_loop_run stores the two flags one after the other.
Run ==
    /\ pc = "out" /\ runs < MaxRuns
    /\ runs' = runs + 1
    /\ running' = TRUE
    /\ pc' = "starting"
    /\ UNCHANGED <<eventVars, timers, stop_requested, epollVars, walkVars,
                   batchVars, spc, now, histVars>>

ClearStop ==
    /\ pc = "starting"
    /\ stop_requested' = FALSE
    /\ pc' = "test"
    /\ UNCHANGED <<eventVars, timers, running, epollVars, walkVars, batchVars,
                   spc, now, runs, histVars>>

Leave ==
    /\ pc = "test" /\ stop_requested
    /\ running' = FALSE
    /\ pc' = "out"
    /\ UNCHANGED <<eventVars, timers, stop_requested, epollVars, walkVars,
                   batchVars, spc, now, runs, histVars>>

\* A timer that is overdue gives a negative timeout: block for ever.
Timeout_Bug ==
    IF timers = <<>> THEN Forever
    ELSE delay_ms[Head(timers)] - now

\* How long epoll_wait may block, from the head of the timer list.
Timeout ==
    IF timers = <<>> THEN Forever
    ELSE LET delay == delay_ms[Head(timers)] - now
         IN IF delay < 0 THEN 0 ELSE delay

ComputeTimeout ==
    /\ pc = "test" /\ ~stop_requested
    /\ timeout_ms' = Timeout
    /\ tested_at' = now
    /\ pc' = "once"
    /\ UNCHANGED <<eventVars, timers, flagVars, epollVars, clock_read, node, cur,
                   batchVars, spc, now, runs, fired, retimed, slept_at>>

\* The owner calls wingo_event_loop_run_once itself.
RunOnce(t) ==
    /\ pc = "out" /\ runs < MaxRuns
    /\ runs' = runs + 1
    /\ timeout_ms' = t
    /\ pc' = "once"
    /\ UNCHANGED <<eventVars, timers, flagVars, epollVars, clock_read, node, cur,
                   batchVars, spc, now, histVars>>

ReadClock ==
    /\ pc = "once"
    /\ clock_read' = now
    /\ node' = IF timers = <<>> THEN NoEvent ELSE Head(timers)
    /\ pc' = "timers"
    /\ UNCHANGED <<eventVars, timers, flagVars, epollVars, timeout_ms, cur,
                   batchVars, spc, now, runs, histVars>>

Expired(e) == e # NoEvent /\ delay_ms[e] <= clock_read

\* What fires is taken for the head of the list.
FireTimer_Bug ==
    /\ pc = "timers" /\ Expired(node)
    /\ timers' = Tail(timers)
    /\ node' = IF Len(timers) > 1 THEN timers[2] ELSE NoEvent
    /\ cur' = node
    /\ fired' = fired \cup {node}
    /\ pc' = "callback"
    /\ UNCHANGED <<eventVars, flagVars, epollVars, timeout_ms, clock_read,
                   batchVars, spc, now, runs, retimed, tested_at, slept_at>>

\* The next node is saved before the callback runs.
FireTimer ==
    /\ pc = "timers" /\ Expired(node)
    /\ \E i \in DOMAIN timers :
         /\ timers[i] = node
         /\ timers' = RemoveAt(timers, i)
         /\ node' = IF i < Len(timers) THEN timers[i + 1] ELSE NoEvent
    /\ cur' = node
    /\ fired' = fired \cup {node}
    /\ pc' = "callback"
    /\ UNCHANGED <<eventVars, flagVars, epollVars, timeout_ms, clock_read,
                   batchVars, spc, now, runs, retimed, tested_at, slept_at>>

EnterPoll ==
    /\ pc = "timers" /\ ~Expired(node)
    /\ slept_at' = now
    /\ node' = NoEvent /\ clock_read' = 0
    /\ pc' = "poll"
    /\ UNCHANGED <<eventVars, timers, flagVars, epollVars, timeout_ms,
                   cur, batchVars, spc, now, runs, fired, retimed,
                   tested_at>>

\* Locals that are dead once epoll_wait returned hold no value.
LeavePoll == timeout_ms' = 0 /\ tested_at' = 0 /\ slept_at' = 0

\* epoll_wait reports readable descriptors; EPOLLONESHOT disarms them.
Readable == {e \in ready : armed[e] \in {"level", "oneshot"}}
Nulls == (IF wakeup THEN 1 ELSE 0) + (IF signalled THEN 1 ELSE 0)

\* A wakeup is handled alone, the descriptors in the next round.
PollReturn_Bug ==
    /\ pc = "poll"
    /\ Readable # {} \/ Nulls > 0
    /\ batch' = IF Nulls > 0 THEN {} ELSE Readable
    /\ nulls' = Nulls
    /\ armed' = [e \in Events |->
                   IF e \in Readable /\ armed[e] = "oneshot" THEN "spent"
                   ELSE armed[e]]
    /\ pc' = "events"
    /\ LeavePoll
    /\ UNCHANGED <<eventVars, timers, flagVars, wakeup, ready, signalled,
                   clock_read, node, cur, spc, now, runs, fired, retimed>>

PollReturn ==
    /\ pc = "poll"
    /\ Readable # {} \/ Nulls > 0
    /\ batch' = Readable
    /\ nulls' = Nulls
    /\ armed' = [e \in Events |->
                   IF e \in Readable /\ armed[e] = "oneshot" THEN "spent"
                   ELSE armed[e]]
    /\ pc' = "events"
    /\ LeavePoll
    /\ UNCHANGED <<eventVars, timers, flagVars, wakeup, ready, signalled,
                   clock_read, node, cur, spc, now, runs, fired, retimed>>

\* run_once returns: to the test of run, or to the owner.
Return == pc' = IF running THEN "test" ELSE "out"

PollTimeout ==
    /\ pc = "poll"
    /\ Readable = {} /\ Nulls = 0
    /\ timeout_ms # Forever
    /\ now >= slept_at + timeout_ms \/ now = MaxTime
    /\ Return /\ LeavePoll
    /\ UNCHANGED <<eventVars, timers, flagVars, epollVars, clock_read, node, cur,
                   batchVars, spc, now, runs, fired, retimed>>

\* EINTR: epoll_wait looks for events before it looks for signals.
PollInterrupted ==
    /\ pc = "poll"
    /\ Readable = {} /\ Nulls = 0
    /\ Return /\ LeavePoll
    /\ UNCHANGED <<eventVars, timers, flagVars, epollVars, clock_read, node, cur,
                   batchVars, spc, now, runs, fired, retimed>>

\* A null pointer, be it the eventfd's or the signalfd's: read the eventfd.
DrainWakeup ==
    /\ pc = "events" /\ nulls > 0
    /\ nulls' = nulls - 1
    /\ wakeup' = FALSE
    /\ UNCHANGED <<eventVars, timers, flagVars, armed, ready, signalled, pc,
                   walkVars, batch, spc, now, runs, histVars>>

DispatchFd(e) ==
    /\ pc = "events" /\ e \in batch
    /\ batch' = batch \ {e}
    /\ cur' = e
    /\ fired' = fired \cup {e}
    /\ pc' = "callback"
    /\ UNCHANGED <<eventVars, timers, flagVars, epollVars, timeout_ms,
                   clock_read, node, nulls, spc, now, runs, retimed, tested_at,
                   slept_at>>

EventsDone ==
    /\ pc = "events" /\ batch = {} /\ nulls = 0
    /\ Return
    /\ UNCHANGED <<eventVars, timers, flagVars, epollVars, walkVars, batchVars,
                   spc, now, runs, histVars>>

\* The end of process_event, or of an iteration of process_timers.
CallbackReturn ==
    /\ pc = "callback"
    /\ active' = [active EXCEPT ![cur] = @ /\ ~oneshot[cur]]
    /\ cur' = NoEvent
    /\ pc' = IF kind[cur] = "fd" THEN "events" ELSE "timers"
    /\ UNCHANGED <<kind, delay_ms, oneshot, timers, flagVars, epollVars,
                   timeout_ms, clock_read, node, batchVars, spc, now, runs,
                   histVars>>

Free ==
    /\ pc = "out" /\ \A s \in Stoppers : spc[s] \in {"idle", "done"}
    /\ pc' = "freed"
    /\ UNCHANGED <<eventVars, timers, flagVars, epollVars, walkVars, batchVars,
                   spc, now, runs, histVars>>

-----------------------------------------------------------------------------
(* Everybody else.                                                         *)

\* A signal handler stores the flag and relies on EINTR.
RequestStop_Bug(s) ==
    /\ pc # "freed" /\ spc[s] = "idle"
    /\ stop_requested' = TRUE
    /\ spc' = [spc EXCEPT ![s] = "done"]
    /\ UNCHANGED <<eventVars, timers, running, epollVars, pc, walkVars,
                   batchVars, now, runs, histVars>>

\* wingo_event_loop_stop from elsewhere: the store, then the eventfd.  A
\* store made before run was entered is told apart: run may discard that.
RequestStop(s) ==
    /\ pc # "freed" /\ spc[s] = "idle"
    /\ stop_requested' = TRUE
    /\ spc' = [spc EXCEPT ![s] = IF running THEN "waking" ELSE "early"]
    /\ UNCHANGED <<eventVars, timers, running, epollVars, pc, walkVars,
                   batchVars, now, runs, histVars>>

\* wingo_event_wakeup, on its own or as the end of a stop
Wakeup(s) ==
    /\ pc # "freed" /\ spc[s] # "done"
    /\ wakeup' = TRUE
    /\ spc' = [spc EXCEPT ![s] = "done"]
    /\ UNCHANGED <<eventVars, timers, flagVars, armed, ready, signalled, pc,
                   walkVars, batchVars, now, runs, histVars>>

Tick ==
    /\ now < MaxTime
    /\ now' = now + 1
    /\ UNCHANGED <<eventVars, timers, flagVars, epollVars, pc, walkVars,
                   batchVars, spc, runs, histVars>>

DataArrives(e) ==
    /\ kind[e] = "fd"
    /\ ready' = ready \cup {e}
    /\ UNCHANGED <<eventVars, timers, flagVars, wakeup, armed, signalled, pc,
                   walkVars, batchVars, spc, now, runs, histVars>>

SignalArrives ==
    /\ \E e \in Events : kind[e] = "signal"
    /\ signalled' = TRUE
    /\ UNCHANGED <<eventVars, timers, flagVars, wakeup, armed, ready, pc,
                   walkVars, batchVars, spc, now, runs, histVars>>

LoopStep ==
    \/ ClearStop \/ Leave \/ ComputeTimeout
    \/ ReadClock \/ FireTimer \/ EnterPoll
    \/ PollReturn \/ PollTimeout \/ DrainWakeup \/ EventsDone
    \/ \E e \in Events : DispatchFd(e)
    \/ CallbackReturn

Next ==
    \/ LoopStep
    \/ Call
    \/ Run \/ Free \/ PollInterrupted
    \/ \E t \in Delays \cup {Forever} : RunOnce(t)
    \/ \E s \in Stoppers : RequestStop(s) \/ Wakeup(s)
    \/ Tick
    \/ \E e \in Events : DataArrives(e)
    \/ SignalArrives

Spec == Init /\ [][Next]_vars

(* The loop's thread is scheduled, its callbacks return, time passes, and a *)
(* stop that began is completed.  Nobody has to call anything.              *)
Fairness ==
    /\ WF_vars(LoopStep)
    /\ WF_vars(Tick)
    /\ \A s \in Stoppers : WF_vars(spc[s] # "idle" /\ Wakeup(s))

FairSpec == Spec /\ Fairness

-----------------------------------------------------------------------------
(* Properties.                                                             *)

\* The range of every variable; cur holds an event exactly while its callback
\* runs, and the locals never hold a time that has not come.
TypeOK ==
    /\ kind \in [Events -> {"new", "timer", "user", "fd", "signal"}]
    /\ delay_ms \in [Events -> 0..MaxTime]
    /\ active \in [Events -> BOOLEAN] /\ oneshot \in [Events -> BOOLEAN]
    /\ timers \in Seq(Events)
    /\ running \in BOOLEAN /\ stop_requested \in BOOLEAN
    /\ wakeup \in BOOLEAN /\ signalled \in BOOLEAN
    /\ armed \in [Events -> {"off", "level", "oneshot", "spent"}]
    /\ ready \subseteq Events
    /\ pc \in PC
    /\ timeout_ms \in Nat \cup {Forever}
    /\ clock_read \in 0..now
    /\ node \in Events \cup {NoEvent}
    /\ cur \in IF pc = "callback" THEN Events ELSE {NoEvent}
    /\ batch \subseteq Events /\ nulls \in 0..2
    /\ spc \in [Stoppers -> {"idle", "early", "waking", "done"}]
    /\ now \in 0..MaxTime /\ runs \in 0..MaxRuns
    /\ fired \subseteq Events /\ retimed \in BOOLEAN
    /\ tested_at \in 0..now /\ slept_at \in 0..now

\* Timers and posted events are called from the timer list only.
Timed(e) == kind[e] \in {"timer", "user"}

\* Every timer and every posted event is in the list until its callback is
\* called, and then no more: none is linked twice, called twice or lost,
\* whatever the callbacks add while process_timers walks the list.  This is
\* what the code does, and on two calls it is not what event.h says: a timer
\* that is reset after its callback was called does not fire again (event.h:256
\* and 271, see ResetRelinks), and one that was removed is called nonetheless
\* (event.h:282).
OnceEach ==
    /\ \A i, j \in DOMAIN timers : timers[i] = timers[j] => i = j
    /\ \A e \in Events : Contains(timers, e) => Timed(e) /\ e \notin fired
    /\ \A e \in Events : Timed(e) => Contains(timers, e) \/ e \in fired

\* The saved next pointer of process_timers never dangles: while a callback
\* runs, the node the walk goes on with stays in the list.
CursorLinked == node # NoEvent => Contains(timers, node)

\* In the list no timer stands behind one that is due later.  Posted events
\* may; and all of it fails once a timer is reset while it is in the list.
Sorted ==
    ~retimed =>
      \A i, j \in DOMAIN timers :
        i < j /\ kind[timers[j]] = "timer" =>
          delay_ms[timers[i]] <= delay_ms[timers[j]]

\* The list process_timers walks stays walkable and in order, whatever callbacks
\* insert, append and remove under it (event.c:532).
ListSound == CursorLinked /\ Sorted

\* When process_timers calls a timer, no timer in the list is due earlier,
\* although a callback may have inserted one in front of the saved pointer.
FiresInOrder ==
    [][FireTimer /\ ~retimed =>
         \A i \in DOMAIN timers :
           kind[timers[i]] = "timer" => delay_ms[node] <= delay_ms[timers[i]]]_vars

\* run computes the timeout of epoll_wait before the callbacks of due timers
\* run, which may add timers.  Still the loop never oversleeps the head of
\* the list by more than the time it took from there to epoll_wait.
SleepBounded ==
    pc = "poll" /\ running /\ timers # <<>> =>
      LET due == delay_ms[Head(timers)]
          latest == IF due < slept_at THEN slept_at ELSE due
      IN /\ timeout_ms # Forever
         /\ slept_at + timeout_ms <= latest + (slept_at - tested_at)

\* The loop of wingo_event_loop_run is never asleep with a stop pending that
\* nothing will wake it for: the eventfd is readable, or about to be.
NoLostWakeup ==
    pc = "poll" /\ running /\ stop_requested =>
      wakeup \/ \E s \in Stoppers : spc[s] = "waking"

\* The loop sleeps neither past its next timer nor through a stop.
SleepsSafely == SleepBounded /\ NoLostWakeup

\* Once the flag stands, the loop leaves; a stop from a callback, another
\* thread or a signal handler is never slept through.
StopExits ==
    pc # "starting" /\ running /\ stop_requested ~> ~running

\* A running loop calls every timer and every posted event in its list,
\* however descriptors, signals and resets keep it busy.
QueuedFires ==
    \A e \in Events :
      Contains(timers, e) /\ running ~> (e \in fired \/ ~running)

\* A running loop serves a readable descriptor it watches: neither timers
\* nor wakeups starve it, and a one-shot report is not thrown away.
ReadableServed ==
    \A e \in Events :
      running /\ e \in Readable ~>
        (pc = "callback" /\ cur = e) \/ ~running

\* A running loop starves neither timers nor descriptors.
Served == QueuedFires /\ ReadableServed

(* What the documentation says and the code does not do.                   *)

\* A stop issued while the loop is running ends it.  event.h says that the
\* loop will exit at the next iteration, from any thread or signal handler.
StopHonoured ==
    \A s \in Stoppers : running /\ spc[s] = "waking" ~> ~running

\* A timer that was reset fires again: when the loop goes to sleep, a timer that
\* is active and not yet due is in the list.  event.h:256 says "For a repeating
\* timer, use wingo_event_timer_reset() in the callback", and event.c:844 "The
\* timer is already in the loop's timer list"; process_timers has unlinked it.
ResetRelinks ==
    \A e \in Events :
      pc = "poll" /\ kind[e] = "timer" /\ active[e] /\ delay_ms[e] > now =>
        Contains(timers, e)
=============================================================================
