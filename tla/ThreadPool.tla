----------------------------- MODULE ThreadPool -----------------------------
(***************************************************************************)
(* The worker pool of core/src/core/thread.c.  Every field of the pool is  *)
(* read and written under pool->mutex, except `running', so a critical     *)
(* section (from pthread_mutex_lock to the unlock, or to the               *)
(* pthread_cond_wait that releases the lock) is one action.  A thread that *)
(* sleeps on a condition variable holds a sleeping program counter;        *)
(* signalling it moves it back to the counter of the loop test, which it   *)
(* evaluates again once it has the lock.                                   *)
(*                                                                         *)
(* Actors: the workers, the clients (submit and wait), and one owner that  *)
(* starts, stops and frees the pool.                                       *)
(***************************************************************************)
EXTENDS Naturals, Sequences, FiniteSets

CONSTANTS
    Workers,        \* pool->workers, one per num_threads
    Clients,        \* threads that call submit and wait
    Tasks,          \* task objects
    NoTask,         \* "no task in hand"
    QueueSize,      \* pool->queue_size, 0 for unlimited
    MaxStarts,      \* bound: how often the owner starts the pool
    CreateMayFail,  \* may pthread_create fail?
    AllocMayFail    \* may wingo_queue_push run out of memory?

\* wingo_thread_pool_new refuses num_threads <= 0; wingo_size is unsigned.
ASSUME WorkersAssumption == IsFiniteSet(Workers) /\ Workers # {}
ASSUME ClientsAssumption == IsFiniteSet(Clients)
ASSUME NoTaskAssumption == NoTask \notin Tasks
ASSUME QueueSizeAssumption == QueueSize \in Nat
ASSUME BoundsAssumption ==
    MaxStarts \in Nat /\ CreateMayFail \in BOOLEAN /\ AllocMayFail \in BOOLEAN

VARIABLES
    queue,          \* pool->tasks
    queue_count,    \* pool->queue_count
    stat_pending,   \* pool->stat_pending
    stat_active,    \* pool->stat_active
    stat_total,     \* pool->stat_total
    running,        \* pool->running
    stop_requested, \* pool->stop_requested
    wpc,            \* where each worker stands
    wtask,          \* the task a worker has taken and not yet run
    cpc,            \* where each client stands
    ctask,          \* the task a client is submitting
    opc,            \* where the owner stands
    starts,         \* how often the pool was started
    accepted,       \* history: tasks submit returned WINGO_SUCCESS for
    executed,       \* history: tasks whose function has run
    dropped,        \* history: tasks free threw away
    owed,           \* history: what was unfinished when a client called wait
    abandoned       \* history: some submitter left without pushing

poolVars   == <<queue, queue_count, stat_pending, stat_active, stat_total>>
flagVars   == <<running, stop_requested>>
workerVars == <<wpc, wtask>>
clientVars == <<cpc, ctask>>
ownerVars  == <<opc, starts>>
histVars   == <<accepted, executed, dropped, owed, abandoned>>
vars == <<poolVars, flagVars, workerVars, clientVars, ownerVars, histVars>>

\* "none": no thread; "top": about to lock and test the wait loop; "asleep": in
\* pthread_cond_wait(cond_not_empty); "run": has a task, lock released; "ran":
\* the function has returned, about to lock again; "exited": left the loop.
WorkerPC == {"none", "top", "asleep", "run", "ran", "exited"}

\* "out": outside the pool; "submit": past the `running' test, about to lock;
\* "blocked": in pthread_cond_wait(cond_not_full); "wait": about to lock in
\* wingo_thread_pool_wait; "idling": in pthread_cond_wait(cond_idle).
ClientPC == {"out", "submit", "blocked", "wait", "idling"}

OwnerPC == {"idle", "creating", "failing", "stopping", "freed"}

At(pc, S) == {x \in DOMAIN pc : pc[x] \in S}
WorkersAt(S) == At(wpc, S)
ClientsAt(S) == At(cpc, S)

InQueue == {queue[i] : i \in DOMAIN queue}
InHand  == {wtask[w] : w \in Workers} \ {NoTask}

Init ==
    /\ queue = <<>>
    /\ queue_count = 0 /\ stat_pending = 0 /\ stat_active = 0 /\ stat_total = 0
    /\ running = FALSE /\ stop_requested = FALSE
    /\ wpc = [w \in Workers |-> "none"]
    /\ wtask = [w \in Workers |-> NoTask]
    /\ cpc = [c \in Clients |-> "out"]
    /\ ctask = [c \in Clients |-> NoTask]
    /\ opc = "idle" /\ starts = 0
    /\ accepted = {} /\ executed = {} /\ dropped = {}
    /\ owed = [c \in Clients |-> {}]
    /\ abandoned = FALSE

-----------------------------------------------------------------------------
(* Condition variables.  The operators whose names end in _Bug and _Bug2   *)
(* are faults the checks must notice; nothing below uses them.             *)

\* pthread_cond_signal: one sleeper, if there is one, goes back to its loop.
WakeOne(pc, asleep, awake) ==
    IF \E x \in DOMAIN pc : pc[x] = asleep
    THEN {[pc EXCEPT ![x] = awake] : x \in {y \in DOMAIN pc : pc[y] = asleep}}
    ELSE {pc}

\* pthread_cond_broadcast: every sleeper does.
WakeAll(pc, asleep, awake) ==
    [x \in DOMAIN pc |-> IF pc[x] = asleep THEN awake ELSE pc[x]]

-----------------------------------------------------------------------------
(* Workers: pool_worker_func                                               *)

WorkerSleep(w) ==
    /\ wpc[w] = "top"
    /\ queue_count = 0 /\ ~stop_requested
    /\ wpc' = [wpc EXCEPT ![w] = "asleep"]
    /\ UNCHANGED <<poolVars, flagVars, wtask, clientVars, ownerVars, histVars>>

\* The worker leaves as soon as stop is requested, with tasks still queued.
WorkerExit_Bug(w) ==
    /\ wpc[w] = "top"
    /\ stop_requested
    /\ wpc' = [wpc EXCEPT ![w] = "exited"]
    /\ UNCHANGED <<poolVars, flagVars, wtask, clientVars, ownerVars, histVars>>

\* The worker's leaving counts as the end of a task.
WorkerExit_Bug2(w) ==
    /\ wpc[w] = "top"
    /\ stop_requested /\ queue_count = 0
    /\ wpc' = [wpc EXCEPT ![w] = "exited"]
    /\ stat_active' = stat_active - 1
    /\ UNCHANGED <<queue, queue_count, stat_pending, stat_total, flagVars, wtask,
                   clientVars, ownerVars, histVars>>

WorkerExit(w) ==
    /\ wpc[w] = "top"
    /\ stop_requested /\ queue_count = 0
    /\ wpc' = [wpc EXCEPT ![w] = "exited"]
    /\ UNCHANGED <<poolVars, flagVars, wtask, clientVars, ownerVars, histVars>>

\* cond_not_full is signalled only when the queue was full before the pop.
SignalNotFull_Bug ==
    IF queue_count = QueueSize THEN cpc' \in WakeOne(cpc, "blocked", "submit")
                               ELSE UNCHANGED cpc

\* cond_not_full is never signalled.
SignalNotFull_Bug2 == UNCHANGED cpc

SignalNotFull == cpc' \in WakeOne(cpc, "blocked", "submit")

WorkerTake(w) ==
    /\ wpc[w] = "top"
    /\ queue_count > 0
    /\ queue' = Tail(queue)
    /\ wtask' = [wtask EXCEPT ![w] = Head(queue)]
    /\ queue_count' = queue_count - 1
    /\ stat_pending' = stat_pending - 1
    /\ stat_active' = stat_active + 1
    /\ SignalNotFull
    /\ wpc' = [wpc EXCEPT ![w] = "run"]
    /\ UNCHANGED <<stat_total, flagVars, ctask, ownerVars, histVars>>

\* The task in hand is forgotten before its function runs.
WorkerRun_Bug(w) ==
    /\ wpc[w] = "run"
    /\ wtask' = [wtask EXCEPT ![w] = NoTask]
    /\ wpc' = [wpc EXCEPT ![w] = "ran"]
    /\ UNCHANGED <<poolVars, flagVars, clientVars, ownerVars, histVars>>

\* task->func(task->arg), free_arg and free(task), without the lock.
WorkerRun(w) ==
    /\ wpc[w] = "run"
    /\ executed' = executed \cup {wtask[w]}
    /\ wtask' = [wtask EXCEPT ![w] = NoTask]
    /\ wpc' = [wpc EXCEPT ![w] = "ran"]
    /\ UNCHANGED <<poolVars, flagVars, clientVars, ownerVars,
                   accepted, dropped, owed, abandoned>>

\* The idle test looks at the active count before this task is taken off it.
BroadcastIdle_Bug ==
    cpc' = IF queue_count = 0 /\ stat_active = 0
           THEN WakeAll(cpc, "idling", "wait")
           ELSE cpc

BroadcastIdle ==
    cpc' = IF queue_count = 0 /\ stat_active' = 0
           THEN WakeAll(cpc, "idling", "wait")
           ELSE cpc

WorkerFinish(w) ==
    /\ wpc[w] = "ran"
    /\ stat_active' = stat_active - 1
    /\ stat_total' = stat_total + 1
    /\ BroadcastIdle
    /\ wpc' = [wpc EXCEPT ![w] = "top"]
    /\ UNCHANGED <<queue, queue_count, stat_pending, flagVars, wtask, ctask,
                   ownerVars, histVars>>

-----------------------------------------------------------------------------
(* Clients: wingo_thread_pool_submit and wingo_thread_pool_wait            *)

Full == QueueSize > 0 /\ queue_count >= QueueSize

\* The unlocked test of pool->running, and a fresh task object.
SubmitEnter(c, t) ==
    /\ cpc[c] = "out" /\ opc # "freed"
    /\ running
    /\ t \notin accepted /\ \A d \in Clients : ctask[d] # t
    /\ cpc' = [cpc EXCEPT ![c] = "submit"]
    /\ ctask' = [ctask EXCEPT ![c] = t]
    /\ UNCHANGED <<poolVars, flagVars, workerVars, ownerVars, histVars>>

SubmitBlock(c) ==
    /\ cpc[c] = "submit"
    /\ Full /\ ~stop_requested
    /\ cpc' = [cpc EXCEPT ![c] = "blocked"]
    /\ UNCHANGED <<poolVars, flagVars, workerVars, ctask, ownerVars, histVars>>

\* The task object is freed and the call returns an error.
SubmitGiveUp(c) ==
    /\ cpc' = [cpc EXCEPT ![c] = "out"]
    /\ ctask' = [ctask EXCEPT ![c] = NoTask]
    /\ abandoned' = TRUE
    /\ UNCHANGED <<poolVars, flagVars, workerVars, ownerVars,
                   accepted, executed, dropped, owed>>

\* WINGO_ERR_CANCELED.
SubmitCancel(c) ==
    /\ cpc[c] = "submit"
    /\ stop_requested
    /\ SubmitGiveUp(c)

\* wingo_queue_push failed: WINGO_ERR_NOMEM.
SubmitNoMem(c) ==
    /\ AllocMayFail
    /\ cpc[c] = "submit"
    /\ ~Full /\ ~stop_requested
    /\ SubmitGiveUp(c)

SubmitPush(c) ==
    /\ cpc[c] = "submit"
    /\ ~Full /\ ~stop_requested
    /\ queue' = Append(queue, ctask[c])
    /\ queue_count' = queue_count + 1
    /\ stat_pending' = stat_pending + 1
    /\ wpc' \in WakeOne(wpc, "asleep", "top")
    /\ cpc' = [cpc EXCEPT ![c] = "out"]
    /\ ctask' = [ctask EXCEPT ![c] = NoTask]
    /\ accepted' = accepted \cup {ctask[c]}
    /\ UNCHANGED <<stat_active, stat_total, flagVars, wtask, ownerVars,
                   executed, dropped, owed, abandoned>>

WaitEnter(c) ==
    /\ cpc[c] = "out" /\ opc # "freed"
    /\ cpc' = [cpc EXCEPT ![c] = "wait"]
    /\ owed' = [owed EXCEPT ![c] = accepted \ (executed \cup dropped)]
    /\ UNCHANGED <<poolVars, flagVars, workerVars, ctask, ownerVars,
                   accepted, executed, dropped, abandoned>>

\* Only the queue is looked at, not the tasks the workers have in hand.
Busy_Bug == queue_count > 0

Busy == queue_count > 0 \/ stat_active > 0

WaitSleep(c) ==
    /\ cpc[c] = "wait"
    /\ Busy
    /\ cpc' = [cpc EXCEPT ![c] = "idling"]
    /\ UNCHANGED <<poolVars, flagVars, workerVars, ctask, ownerVars, histVars>>

WaitReturn(c) ==
    /\ cpc[c] = "wait"
    /\ ~Busy
    /\ cpc' = [cpc EXCEPT ![c] = "out"]
    /\ owed' = [owed EXCEPT ![c] = {}]
    /\ UNCHANGED <<poolVars, flagVars, workerVars, ctask, ownerVars,
                   accepted, executed, dropped, abandoned>>

-----------------------------------------------------------------------------
(* The owner: wingo_thread_pool_start, _stop and _free                     *)

Start ==
    /\ opc = "idle" /\ starts < MaxStarts
    /\ ~running
    /\ stop_requested' = FALSE
    /\ opc' = "creating"
    /\ starts' = starts + 1
    /\ UNCHANGED <<poolVars, running, workerVars, clientVars, histVars>>

CreateWorker(w) ==
    /\ opc = "creating"
    /\ wpc[w] = "none"
    /\ wpc' = [wpc EXCEPT ![w] = "top"]
    /\ UNCHANGED <<poolVars, flagVars, wtask, clientVars, ownerVars, histVars>>

\* stop_requested under the lock, and the broadcast on cond_not_empty.
RequestStop ==
    /\ stop_requested' = TRUE
    /\ wpc' = WakeAll(wpc, "asleep", "top")

\* pthread_create failed: the workers created so far are told to leave.
CreateFails ==
    /\ CreateMayFail
    /\ opc = "creating"
    /\ \E w \in Workers : wpc[w] = "none"
    /\ RequestStop
    /\ opc' = "failing"
    /\ UNCHANGED <<poolVars, running, wtask, clientVars, starts, histVars>>

Started ==
    /\ opc = "creating"
    /\ \A w \in Workers : wpc[w] # "none"
    /\ running' = TRUE
    /\ opc' = "idle"
    /\ UNCHANGED <<poolVars, stop_requested, workerVars, clientVars, starts,
                   histVars>>

Stop ==
    /\ opc = "idle"
    /\ running
    /\ RequestStop
    /\ opc' = "stopping"
    /\ UNCHANGED <<poolVars, running, wtask, clientVars, starts, histVars>>

\* pthread_join of every worker that was created.
JoinWorkers ==
    /\ \A w \in Workers : wpc[w] \in {"none", "exited"}
    /\ wpc' = [w \in Workers |-> "none"]

StartFailed ==
    /\ opc = "failing"
    /\ JoinWorkers
    /\ opc' = "idle"
    /\ UNCHANGED <<poolVars, flagVars, wtask, clientVars, starts, histVars>>

Stopped ==
    /\ opc = "stopping"
    /\ JoinWorkers
    /\ running' = FALSE
    /\ opc' = "idle"
    /\ UNCHANGED <<poolVars, stop_requested, wtask, clientVars, starts,
                   histVars>>

\* The part of free that follows its own call of stop.  Its caller must not
\* free a pool that another thread is inside.
Free ==
    /\ opc = "idle" /\ ~running
    /\ \A c \in Clients : cpc[c] = "out"
    /\ queue' = <<>>
    /\ dropped' = dropped \cup InQueue
    /\ opc' = "freed"
    /\ UNCHANGED <<queue_count, stat_pending, stat_active, stat_total, flagVars,
                   workerVars, clientVars, starts, accepted, executed, owed,
                   abandoned>>

-----------------------------------------------------------------------------
\* POSIX lets pthread_cond_wait return without a signal.
SpuriousWakeup ==
    \/ \E w \in Workers :
         /\ wpc[w] = "asleep"
         /\ wpc' = [wpc EXCEPT ![w] = "top"]
         /\ UNCHANGED cpc
    \/ \E c \in Clients :
         /\ cpc[c] \in {"blocked", "idling"}
         /\ cpc' = [cpc EXCEPT ![c] = IF cpc[c] = "blocked" THEN "submit" ELSE "wait"]
         /\ UNCHANGED wpc

Spurious ==
    /\ SpuriousWakeup
    /\ UNCHANGED <<poolVars, flagVars, wtask, ctask, ownerVars, histVars>>

WorkerStep(w) ==
    WorkerSleep(w) \/ WorkerExit(w) \/ WorkerTake(w) \/ WorkerRun(w) \/ WorkerFinish(w)

\* What a client does inside a call, once it has the lock.
ClientStep(c) ==
    \/ SubmitBlock(c) \/ SubmitCancel(c) \/ SubmitNoMem(c) \/ SubmitPush(c)
    \/ WaitSleep(c) \/ WaitReturn(c)

\* What the owner does inside start or stop.
OwnerStep ==
    \/ \E w \in Workers : CreateWorker(w)
    \/ CreateFails \/ Started \/ StartFailed \/ Stopped

Next ==
    \/ \E w \in Workers : WorkerStep(w)
    \/ \E c \in Clients : ClientStep(c)
    \/ \E c \in Clients, t \in Tasks : SubmitEnter(c, t)
    \/ \E c \in Clients : WaitEnter(c)
    \/ OwnerStep
    \/ Start \/ Stop \/ Free
    \/ Spurious

Spec == Init /\ [][Next]_vars

\* The scheduler runs every thread that can run, the mutex is not withheld
\* from a thread for ever, and task functions return.  Nobody has to call
\* submit, wait, start, stop or free, and no wakeup is spurious by duty.
Fairness ==
    /\ \A w \in Workers : WF_vars(WorkerStep(w))
    /\ \A c \in Clients : WF_vars(ClientStep(c))
    /\ WF_vars(OwnerStep)

FairSpec == Spec /\ Fairness

-----------------------------------------------------------------------------
(* Safety                                                                  *)

\* Every variable stays in its range.
TypeOK ==
    /\ queue \in Seq(Tasks)
    /\ queue_count \in Nat /\ stat_pending \in Nat
    /\ stat_active \in Nat /\ stat_total \in Nat
    /\ running \in BOOLEAN /\ stop_requested \in BOOLEAN
    /\ wpc \in [Workers -> WorkerPC]
    /\ wtask \in [Workers -> Tasks \cup {NoTask}]
    /\ cpc \in [Clients -> ClientPC]
    /\ ctask \in [Clients -> Tasks \cup {NoTask}]
    /\ opc \in OwnerPC /\ starts \in 0..MaxStarts
    /\ accepted \subseteq Tasks
    /\ executed \subseteq Tasks
    /\ dropped \subseteq Tasks
    /\ owed \in [Clients -> SUBSET Tasks]
    /\ abandoned \in BOOLEAN

\* The counters, which the wait loops test in place of the queue and the
\* workers themselves, tell the truth whenever the lock is free: queue_count
\* is the queue's length and within queue_size, stat_active the number of
\* workers between a pop and the second lock of pool_worker_func.
Accounting ==
    /\ opc # "freed" => queue_count = Len(queue)
    /\ stat_pending = queue_count
    /\ QueueSize > 0 => queue_count <= QueueSize
    /\ stat_active = Cardinality(WorkersAt({"run", "ran"}))

NoDuplicates ==
    /\ \A i, j \in DOMAIN queue : queue[i] = queue[j] => i = j
    /\ \A v, w \in Workers : wtask[v] = wtask[w] /\ wtask[v] # NoTask => v = w

\* A task submit accepted is in exactly one place: queued, in one worker's
\* hand, executed, or thrown away by free.  So none is lost and none runs twice.
Conservation ==
    /\ accepted = InQueue \cup InHand \cup executed \cup dropped
    /\ InQueue \cap (InHand \cup executed \cup dropped) = {}
    /\ InHand \cap (executed \cup dropped) = {}
    /\ executed \cap dropped = {}
    /\ NoDuplicates

\* The pool's books balance: its counters and its tasks, through failed starts,
\* stops and restarts (thread.c: submit, pool_worker_func, stop, free).
BooksBalance == Accounting /\ Conservation

\* No wakeup of a worker is lost: while some worker sleeps on cond_not_empty,
\* every queued task has a worker of its own on the way to the queue.
NoLostWorkerWakeup ==
    WorkersAt({"asleep"}) = {} \/ queue_count <= Cardinality(WorkersAt({"top"}))

\* No wakeup of a submitter is lost: while some submitter sleeps on
\* cond_not_full, every free slot of the queue has a submitter on the way to
\* it, unless a submitter that was woken for a slot left without using it.
NoLostSubmitterWakeup ==
    abandoned \/ ClientsAt({"blocked"}) = {}
    \/ QueueSize <= queue_count + Cardinality(ClientsAt({"submit"}))

\* A client asleep in wingo_thread_pool_wait has something left to wait for:
\* the broadcast on cond_idle is never missed.
NoForgottenWaiter == ClientsAt({"idling"}) # {} => Busy

\* No wakeup on any of the three condition variables is lost.
NoLostWakeups == NoLostWorkerWakeup /\ NoLostSubmitterWakeup /\ NoForgottenWaiter

\* Whoever has left the worker loop left nothing behind, and nothing is
\* queued after it: stop drains the queue before it returns.
DrainedAtExit ==
    WorkersAt({"exited"}) # {} => stop_requested /\ queue_count = 0

\* wingo_thread_pool_wait returns only when every task that was unfinished at
\* the call has been executed ("Wait for all pending tasks to complete").
WaitIsBarrier ==
    [][\A c \in Clients : WaitReturn(c) => owed[c] \subseteq executed \cup dropped]_vars

\* wingo_thread_pool_stop returns only when every accepted task was executed.
StopDrains == [][Stopped => accepted \subseteq executed]_vars

\* The pool implements the promise to its clients.
Promise == INSTANCE TaskPool WITH
    pending <- accepted \ (executed \cup dropped),
    finished <- executed,
    discarded <- dropped,
    waiting <- ClientsAt({"wait", "idling"}),
    owed <- owed

ImplementsTaskPool == Promise!Spec

-----------------------------------------------------------------------------
(* Liveness                                                                *)

\* What submit accepted is executed.
AcceptedRuns == \A t \in Tasks : t \in accepted ~> t \in executed

\* wingo_thread_pool_stop and _start return.
OwnerReturns == opc \in {"creating", "stopping", "failing"} ~> opc = "idle"

\* wingo_thread_pool_wait returns.
WaitReturns == \A c \in Clients : cpc[c] \in {"wait", "idling"} ~> cpc[c] = "out"

\* Neither the owner nor a waiting client is kept for ever.
CallsReturn == OwnerReturns /\ WaitReturns

\* wingo_thread_pool_submit returns unless the pool is stopped meanwhile.
SubmitReturnsUnlessStopped ==
    \A c \in Clients :
        cpc[c] \in {"submit", "blocked"} ~> cpc[c] = "out" \/ stop_requested
=============================================================================
