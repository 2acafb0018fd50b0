# A TLA+ project for Bowie

Bowie is a peer-to-peer engine in C. Its core library, *wingo*, has a runtime
(threads, event loop, engine, state machine), a network layer (sockets, peers, a
BitTorrent-style Kademlia DHT) and utilities. This directory holds TLA+ modules of
the parts of that library whose correctness depends on order, concurrency, time or
long histories, the TLC configurations that check them, and TLAPS proofs.
All paths below are relative to the repository.

## 1. Inventory

| Part | State it keeps | Operations | What is hard about it | What makes it correct |
|---|---|---|---|---|
| Thread pool, `core/src/core/thread.c` 57-90, 380-760 | task queue, its count, three statistics, `running`, `stop_requested`, worker handles; one mutex, three condition variables | new, start, stop, free, submit, wait, the worker loop | lost wakeups, stop racing submit, a failing `pthread_create`, restart | counters equal what they count; no accepted task is lost or run twice; `wait` is a barrier; `stop` drains; everyone is woken |
| Thread object, `thread.c` 92-330 | state, `stop_requested`, handle | start, stop, join, detach, free | the wrapper and `stop` write `state` in either order | a finished thread stays finished |
| Event loop, `core/src/core/event.c` | list of events, sorted list of timers, eventfd, signalfd, `running`, `stop_requested` | run, run_once, stop, add/remove fd, timer and signal, timer_reset, post, wakeup | callbacks that change the list being walked; stop and post from other threads; a sleep computed before the callbacks run | every queued event is called once, when due; stop ends the loop |
| State machine, `state.c` | current and previous state, rules, callbacks, history ring, times | transition, force, add and clear rules and callbacks, history | callbacks that fail halfway; a ring that wraps; a clear at any time | the history is the latest transitions in order and agrees with the state; no time is lost |
| Engine, `engine.c`, and its two programs, `platforms/linux/main.c`, `platforms/android/.../bowie_jni.c` | state, event loop, thread pool, state machine, `stop_requested`; the programs' pointer to it and flag that it runs | new, init, run, stop, shutdown, free | stop from a signal handler or another thread at any moment; failure of each step of init; a thread that ends late | nothing is used after it was freed; a failed start leaves nothing; a stop ends the run |
| DHT node, bucket, routing table, `net/dht/dht_node.c`, `dht_bucket.c`, `dht_routing.c` | node status and ages; buckets over ranges of the identifier space, a cached candidate each | pinged, replied, add, split, replace, expire, closest | arithmetic on 160-bit ranges, splitting, replacement | ranges partition the space, nodes lie in their bucket, none twice |
| DHT search, `dht_search.c` | sorted array of at most 64 nodes with queried/replied flags, in-flight count | insert, replied, acked, step, expire | late, lost and unsolicited replies; retransmission; removal during iteration | every search ends, once; it asks from the nearest on; it succeeds when the nearest were asked |
| Search manager, `dht_search.c` 395-560, 1240-1350 | array of searches, transaction ids | add, remove, find, step, expire, clear, free | done callbacks that free searches while the array is walked | no freed search is read, no running search is forgotten |
| DHT tokens, `dht_token.c` | two secrets, the active one, the time of rotation | generate, verify, rotate, reset | a token must outlive one rotation and not two | exactly that |
| DHT storage, `dht_storage.c` | hash table of announced peers with expiry | announce, refresh, get_peers, remove, expire, save, load | limits, partial failure, expiry | a live peer is handed out, an expired one is not; the limits hold |
| DHT security, `dht_security.c` | blacklist, rate buckets, per-subnet counters | blacklist add/remove/expire, rate check/reset, sybil check/register/unregister, validate_source | entries that expire but are still present; permits that come back with time; counters that only grow | a limit bounds what it says it bounds |
| DHT service, `dht.c` | state, the parts above, sockets | start, stop, bootstrap, announce, get_peers, find_node, message handlers, periodic work | a start that fails halfway; messages in any order; late periodic work | no part leaks or is used before it exists; no good token is refused |
| Messages and bencoding, `dht_message.c`, `dht_bencode.c` | values, cursor of the decoder | encode, decode, dup, compare; build and parse each kind of message | nesting, lengths, 64-bit edges; keys a stranger may send | decode inverts encode; a query and its answer mean the same to both ends |
| Peers, `net/peer.c` | array and index of peers with states and sockets, blacklist | add, remove, connect, disconnect, expire, blacklist, ping, clear | two paths that set the state of one peer; removal while the array is walked | no entry names a freed peer; sockets and states agree |
| Sockets, `net/socket.c` | descriptor, state, addresses, blocking mode | new, bind, listen, accept, connect, connect_timeout, sendall, recv, close | the structure beside the kernel's socket; partial writes | what the structure claims the kernel confirms; bytes arrive once and in order |
| Containers, `util/*.c` | list, queue, ring, heap, hash map, buffer | insertion, removal, sort, growth, rehash, read cursor | links, indexes and counters that must agree | they implement sequences, queues, maps and bags |
| Logging, errors, time, random, configuration, crypto stubs, platforms, Android | - | - | input and output, start-up, user interface | outside this project |

How the parts interact: the engine owns one event loop, one thread pool and one state
machine, runs the loop on its own thread, and is stopped from a signal handler or
another thread through `wingo_engine_stop`, which sets a flag and writes the loop's
eventfd. The DHT service owns a routing table, a search manager, a token manager, a
storage and a security object, feeds them from one handler per message type, and is
driven by `wingo_dht_periodic`. Everything in the DHT runs on the loop's thread.

## 2. Plan

Modules, most important first; each is written for proofs as well as for TLC
(parameters and named assumptions, one action per operation or step, no recursion).

1. `TaskPool` (abstract), `ThreadPool`, `MCThreadPool`, `ThreadPoolProofs` - **done**.
2. `EventLoop`, `MCEventLoop`, `EventLoopProofs` - **done**.
3. `Lookup` (abstract), `DhtSearch`, `MCDhtSearch`, `DhtSearchProofs` - **done** for one
   search. `ListLemmas` holds what 2, 3 and 4 prove about lists.
4. `RoutingTable` (the table and what it promises) and `DhtRouting` (its operations),
   `MCDhtRouting`, `DhtRoutingProofs` - **done**.
5. `Engine`, `EngineHosts`, `MCEngine`, `EngineProofs` - **done**.
6. `DhtServer` with `DhtToken`, `DhtStorage` and `DhtSecurity`, composed; `SearchManager`;
   `MCServer`; `ServerProofs` - **done**.
7. `StateMachine`, `ThreadObject`, `Once`, `Queues` and `FifoPromise`, `HashMap`, `Buffer`,
   `Peers`, `Sockets`, `SockStream`, `Addresses`, side by side in `Parts`; `PartsProofs`.
   `MCParts` adds `LinkedLists` and `ListPromise`, `PriorityQueue`, `Bencode` and
   `Messages` - **done**.
8. Left: proofs about the links of `LinkedLists`, with chains as `Queues` has them, once its
   recursive sort is in a module of its own.

Runs: per component one safety run with its refinement where there is an abstract
specification, and one liveness run where the code promises progress. The small parts
share one run, `parts`, and the parts of the DHT node another, `server`: a behaviour picks
one part at its start and the others stay as they are. Four runs show a disagreement
between the code and its own documentation; section 2.1 lists all that were met.
Theorems: every invariant of every passing run but `AlgorithmsRight`, with the inductive
invariant that carries it, every action property, and the refinements of `ThreadPool`,
`DhtSearch` and `Queues`. What stays with TLC is in section 10.

| Run | Module | Expected | Properties |
|---|---|---|---|
| `pool_safety` | `MCThreadPool` | pass | `TypeOK`, `BooksBalance`, `NoLostWakeups`, `StopDrains`, `ImplementsTaskPool` |
| `pool_liveness` | `MCThreadPool` | pass | `AcceptedRuns`, `CallsReturn`, `SubmitReturnsUnlessStopped` |
| `loop_safety` | `MCEventLoop` | pass | `TypeOK`, `OnceEach`, `ListSound`, `SleepsSafely`, `FiresInOrder` |
| `loop_liveness` | `MCEventLoop` | pass | `StopExits`, `Served` |
| `loop_stop_lost` | `MCEventLoop` | violation | `StopHonoured` |
| `loop_reset` | `MCEventLoop` | violation | `ResetRelinks` |
| `search_safety` | `MCDhtSearch` | pass | `TypeOK`, `OrderAndBound`, `NeverIdle`, `KeepsPromise`, `SearchEnds` |
| `routing_order` | `MCDhtRouting` | violation | `NextIsHigher` |
| `engine_safety` | `MCEngine` | pass | `TypeOK`, `FreedUnderThread`, `FailedStartIsReleased`, `StoppedIsFreed` |
| `parts` | `MCParts` | pass | `MachineSound`, `ThreadsSafe`, `SocketsSound`, `CallsEnd`, `ContainersKept`, `PeersSound`, `AlgorithmsRight` |
| `server` | `MCServer` | pass | `PartsSound`, `RateBounded`, `TokensHonoured`, `LiveServed`, `SearchesKept`, `TableTypeOK`, `Reachable`, `LowerHalfOrdered`, `OnlyTheLostLeave` |
| `server_deaf` | `MCServer` | violation | `SubnetLimitsNodes` |

### 2.1 Where the code and its documentation disagree

Four are shown by a run that finds the documented property violated. The others are
passing properties that state what the code does; each says in its comment that the
documentation says otherwise, so that its passing is not read as agreement. Smaller
disagreements are among the limits of each section.

| Shown by | The code | The documentation |
|---|---|---|
| `loop_stop_lost` | a stop between the two stores at `event.c:614-615`, or before, is discarded | `event.h:191`: the loop exits at the next iteration |
| `loop_reset` | a timer that is reset after its callback was called is never linked again (`event.c:838`); the engine ticks once | `event.h:256`: reset it in the callback to repeat; `event.h:271`: "to fire again"; `event.c:844`: "already in the loop's timer list" |
| `loop_safety`, `OnceEach` | a removed timer stays in the list and is called (`event.c:861`) | `event.h:282`: "Cancel a timer" |
| `parts`, `MachineSound` | an error of an ON_ENTER callback is returned, and the new state stays (`state.c:410-420`) | `state.h:127`: an error code rejects the transition |
| `server`, `RateBounded` | one permit a second comes back, up to 20 (`dht_security.c:334`) | `dht_security.h:69`: 20 "messages per second" |
| `server`, `RateBounded` | a bucket for each address with its port (`dht_security.c:273`) | `dht_security.h:69`, `dht_security.c:24`: "per IP" |
| `server_deaf` | messages are counted, not nodes (`dht.c:1186`) | `dht_security.h:84`: "nodes per subnet" |
| `routing_order` | the carry is lost in the upper half (`dht_bucket.c:860`) | `dht_bucket.c:497`, `dht_routing.c:53` |

## 3. The thread pool

### Correspondence

Every field of `struct wingo_thread_pool` is read and written under `pool->mutex`,
except `running`. A critical section is therefore one action of `ThreadPool`; a
`pthread_cond_wait` ends one action (the thread's program counter goes to a sleeping
place) and its return starts another at the loop's test. Signals move one sleeper,
broadcasts move all, and `Spurious` lets any sleeper return unasked.

| Action | Code |
|---|---|
| `WorkerSleep`, `WorkerExit`, `WorkerTake` | `pool_worker_func`, first critical section, its three outcomes |
| `WorkerRun` | the task's function, its `free_arg`, without the lock |
| `WorkerFinish` | the second critical section, with the broadcast on `cond_idle` |
| `SubmitEnter` | the unlocked test of `running` and the new task object |
| `SubmitBlock`, `SubmitCancel`, `SubmitNoMem`, `SubmitPush` | `wingo_thread_pool_submit` under the lock |
| `WaitEnter`, `WaitSleep`, `WaitReturn` | `wingo_thread_pool_wait` |
| `Start`, `CreateWorker`, `CreateFails`, `Started`, `StartFailed` | `wingo_thread_pool_start` |
| `Stop`, `Stopped` | `wingo_thread_pool_stop`, the broadcast and the joins |
| `Free` | the rest of `wingo_thread_pool_free` |

`accepted`, `executed`, `dropped`, `owed` and `abandoned` are history: no guard reads
them except the freshness of a task object, which `calloc` gives. `wingo_queue` is a
FIFO; its push may fail when `AllocMayFail`. Nobody calls the pool after `free`, as in
any C library.

`TaskPool` is what a client may rely on: tasks are pending, then finished (or discarded
by free); `wait` returns only when nothing that was pending at the call still is. The
refinement maps `pending` to `accepted` minus `executed` and `dropped`.

### Runs

| Run | Instance | Shows |
|---|---|---|
| `pool_safety` | 2 workers, 3 clients, 4 tasks, `queue_size` 2, 2 starts, creation and allocation may fail, symmetry | counters and conservation (`BooksBalance`), no lost wakeup on any of the three condition variables (`NoLostWakeups`), draining stop, refinement |
| `pool_liveness` | 2 workers, 2 clients, 3 tasks, `queue_size` 1, 1 start | accepted tasks run, `wait`, `start` and `stop` return (`CallsReturn`), `submit` returns unless stopped |

Two workers are enough for one to sleep while another takes, runs or exits; three
clients give two blocked submitters and one that pushes or waits; `queue_size` 1 and 2
are the smallest sizes at which "was full" and "is full" differ. `MaxStarts` 2 gives a
restart after a stop and after a failed start. Deadlock checking is off because a pool
that is stopped, or freed, stops.

Fairness: weak fairness of each worker, of each client inside a call and of the owner
inside a call. That is what a POSIX scheduler and a mutex that is always released give;
it assumes that task functions return, as `stop` does. Nobody is obliged to call
anything.

**Limits worth knowing.** `wingo_thread_pool_stop` broadcasts `cond_not_empty` only
(`thread.c:617`). With two submitters blocked on a full queue, a worker's pop wakes one,
which leaves with `WINGO_ERR_CANCELED` without signalling on; the other is never woken.
`thread.h:332` promises an error code. `SubmitReturnsUnlessStopped` therefore speaks of
a submit during which the pool is not stopped.

`submit` tests `running` before it locks. A submitter that
passed the test, and gets the lock only after the pool was stopped and is being started
again, pushes its task. If that start fails before any worker exists, the task stays
queued until the next start, or is dropped by `free`, and `wait` sleeps meanwhile. The
safety run covers this path; `pool_liveness` excludes it by `CreateMayFail = FALSE`.

A task function that calls `submit` on a full pool, `wait` or `stop` waits for its own
worker; such tasks are left out.

### Proofs

`ThreadPoolProofs` proves, for every finite set of workers and clients, every
`queue_size` and any set of tasks, from the named assumptions of `ThreadPool` only:

1. *Layer 1* (`Inv1`): `TypeOK`, `PhaseInv` (what the owner's place in start, stop and
   free says about flags and threads), `HandsInv` (who has a task), `DrainedAtExit`
   and `Accounting`. They need each other: `stat_active - 1` stays a number only
   because the counter is the number of running workers, `Head(queue)` exists only
   because `queue_count` is the queue's length, and that holds only because no thread is
   left when `free` empties the queue without resetting the count.
2. *Layer 2* (`Inv2`): the three wakeup invariants. Each says that the number of
   threads on their way is at least the number of things to be had, so the proof counts
   threads at a place (`MoveIn`, `MoveOut`, `WakeOneCounts`).
3. *Layer 3* (`Inv3`): `Conservation`, with `FreshInv` and `HistoryInv`, which make it
   inductive.
4. *Layer 4*: `WaitBarrier`, `StopDrainsQueue` and `Refinement`, each a step property
   that follows from layers 1 and 3. `BooksAlwaysBalance` and `NoWakeupIsLost` put the
   parts together as the run states them.

Only model-checked: the liveness properties, which need fairness.


## 4. The event loop

### Correspondence

One thread runs the loop and every callback, and only that thread touches the lists, so
a function that a callback calls is one action. What another thread or a signal handler
does, `wingo_event_loop_stop` or `wingo_event_wakeup`, is a store and a `write`, two
actions (`RequestStop`, `Wakeup`) between any two steps of the loop.

| Action | Code (`event.c`) |
|---|---|
| `Run`, `ClearStop` | the two stores at the head of `wingo_event_loop_run` |
| `Leave`, `ComputeTimeout` | the test of `stop_requested`, the timeout from the head of the timer list |
| `RunOnce` | the owner calls `wingo_event_loop_run_once` itself |
| `ReadClock`, `FireTimer`, `CallbackReturn`, `EnterPoll` | `process_timers`: the clock is read once, the next node is saved, the due one unlinked and called |
| `PollReturn`, `PollTimeout`, `PollInterrupted` | `epoll_wait` reports, times out, or fails with `EINTR` |
| `DrainWakeup`, `DispatchFd`, `EventsDone` | `process_epoll_events` and `process_event` |
| `AddTimer`, `Post`, `AddFd`, `AddSignal`, `ModifyFd`, `TimerReset`, `RemoveEvent`, `StopHere` | the interface, called by a callback, or by the owner while no call is in progress |
| `RequestStop`, `Wakeup` | other threads and signal handlers |
| `Tick`, `DataArrives`, `SignalArrives`, `ReadFd` | the clock, the descriptors, the signalfd: external |
| `Free` | `wingo_event_loop_free` |

A callback is any program over the interface: while `pc = "callback"` any of the calls
above may happen, any number of times, before `CallbackReturn`.

What the model does with data:
- A null pointer in `epoll_data` stands for the eventfd and, because `add_signal`
  registers it with the same null pointer (`event.c:898`), for the signalfd. `nulls`
  counts them; each makes the loop read the eventfd. The signalfd is therefore never
  read, no signal's callback is ever called, and once a signal is pending `epoll_wait`
  returns at once, for ever.
- `active` and `oneshot` are written and never tested by the loop. They are in the model
  because a property mentions `active`; the safety run leaves them out of its state
  `VIEW`.
- The clock stops at `MaxTime`, whose tick stands for every later time: a sleep may end
  then whatever its timeout. Delays are not negative, as in every call in the repository.
- `EINTR` comes only when nothing is ready, as `epoll_wait` checks in that order.
- Locals are cleared when they are dead, so that they distinguish no states.

Left out: `post` from another thread. It appends to two lists without a lock and so is a
data race; `event.h` calls it thread-safe, nothing in the repository calls it from
another thread. Also an `epoll_wait` that fails for another reason, a callback that runs
the loop again, exhausted memory, and more than 64 ready descriptors at once.

### Runs

| Run | Instance | Shows |
|---|---|---|
| `loop_safety` | 3 events, 1 stopper, delays 0 and 2, clock to 2, whole interface, symmetry, view | the list loses and repeats nothing, the saved pointer stays linked and deadlines in order (`ListSound`), bounded oversleep and no stop slept through (`SleepsSafely`) |
| `loop_liveness` | 2 events, delays 0 and 1, clock to 1, two entries | a stop that stands ends the loop; queued events are called and readable descriptors served (`Served`) |
| `loop_stop_lost` | 1 event, 1 stopper | violated: a stop ends the loop |
| `loop_reset` | 1 event, delays 0 and 1, `reset` | violated: a timer that was reset is in the list when the loop sleeps |

Three events are one that is called, one that its callback adds and one that the saved
pointer refers to; with delays 0 and 2 an event can be due at once, due while the walk
goes on, or due later. One stopper suffices, since `stop_requested` and the eventfd are
both idempotent and each invariant is about one pending stop; callbacks stop too.
Deadlock checking is off because a loop nobody enters again has stopped.

Fairness: weak fairness of the loop's thread, so that it is scheduled and callbacks
return; of the clock; and of a stop that began, which then writes the eventfd. A
callback that adds timers for ever is excluded only by the finite number of events.

**Findings.**
- `loop_stop_lost`: `wingo_event_loop_run` stores `running`, then clears
  `stop_requested` (`event.c:614-615`). A stop between the two, or before, is lost.
  `event.h:191` promises that the loop exits at the next iteration, from any thread or
  handler.
- `loop_reset`: `process_timers` unlinks a timer before its callback and leaves it to the
  callback to link it again (`event.c:554`), but `wingo_event_timer_reset` only stores a
  deadline. A timer reset in its own callback, which is what `event.h:256` advises and
  what the engine's tick does (`engine.c:238`), or later, is called once and never again.
  The comment at `event.c:844` says that it is still in the list, and that the list will
  be sorted again, which does not happen either.
- Removal clears `active` (`event.c:861`), which nothing reads: a cancelled timer
  (`event.h:282`) or a removed descriptor is still called, with `userdata` its owner may
  have freed.

`OnceEach` states what the code keeps with all these calls in its interface, the last two
findings included: a timer that was reset after its call is not linked again, one that
was removed stays linked until it is called. Both are against `event.h`; what is worth
having in `OnceEach` is that nothing is lost or linked twice while the list is walked.

**Limits worth knowing.**
- `post` appends an event that is due now behind timers that are due later, and the walk
  stops at the first timer that is not due. A posted event waits for the timers in front
  of it, although the comment at `event.c:966` says it fires on the next iteration.
  `Sorted` therefore speaks of timers only, and of lists none of whose timers was reset.
  `QueuedFires` says that what is queued is called in the end.

### Proofs

`EventLoopProofs` proves the safety properties of `loop_safety` for any events,
stoppers, delays and bounds (`ListSound` is `CursorLinked` and `Sorted`, `SleepsSafely`
is `SleepBounded` and `NoLostWakeup`):

1. *Layer 1* (`Inv1`): `TypeOK`, `OnceEach`, `CursorLinked`, with `KindInv` (which
   kinds of event can be called, readable or reported). The lemmas of `ListLemmas` say what is in
   a list after an insertion or a removal; that the saved pointer is linked makes `FireTimer` possible.
2. *Layer 2* (`Inv2`): `Sorted`, with `WalkedPast`: what a callback inserts in front of
   the saved pointer is not due at the time the walk read. Without it the walk could
   have skipped a due timer, and `FiresInOrder` would not follow.
3. *Layer 3* (`Inv3`): `SleepBounded` and `NoLostWakeup`. Between the test of the flag
   and `epoll_wait` callbacks run, so the invariant follows the timeout from where it is
   computed: either it still is what the head of the list says (`Planned`), or its timer
   was due when the walk began and the sleep is no longer than the time since
   (`Overtaken`). `WakeInv` carries a pending stop over the same steps.

Only model-checked: the liveness properties, which need fairness.

## 5. The DHT search

A search (`net/dht/dht_search.c`) keeps an array of nodes in the order of their XOR
distance from a target and looks for the nearest. It does no I/O: its caller steps it,
sends the query a step asks for, and reports what it hears. `wingo_dht_periodic` steps
and expires all searches through their manager.

### Correspondence

| Code | `DhtSearch` |
|---|---|
| `search->state`; `done` and `started` follow from it | `state`, `Done` |
| `search->nodes[0..count)` | `nodes`, a sequence |
| `node->queried`, `node->replied`, `node->queried_at` | `queried`, `replied` (sets), `queried_at` |
| `started_at`, `next_step_at`, `wingo_time_now` | the same, and `now` |
| the calls of `done_cb` | `verdicts`, a history |
| `wingo_dht_search_new`, `_start`, `_cancel` | `Init`, `Start`, `Cancel` |
| `_insert_node` with `search_sort_nodes` | `InsertNode`, `Place` |
| `_remove_node`, `_node_replied` | `RemoveNode`, `NodeReplied` |
| `_step`: its four results | `StepTimeout`, `StepDone`, `StepQuery`, `StepWait` |
| `search_has_converged`, `search_find_next_query` | `HasConverged`; `MayQuery` and `Fresh` |
| `_mgr_step` with `_needs_step`, `_mgr_expire` | `MgrStep` (a guarded `Step`), `MgrExpire` |

A node is the number of its place in the order of distance, which is all the search
reads of an identifier; two identifiers never have the same distance. The other fields
of a node (address, token, `acked`, `replied_at`), `last_step_at`, `result` and the
counters are written but never read by the search. The capacity of the array is grown
to the limit and is not modelled, nor is exhausted memory. Calls that the code refuses
(`insert_node` on a finished search or a full array, `start` twice) are disabled.
The caller may call everything at any time, in particular `step` before it is due, and
may report replies nobody asked for, as the interface lets it. It does not call back
from `done_cb`: that, and the manager's array, is `SearchManager` (section 8).

`Lookup` says what the search promises: it asks the nodes it knows from the nearest on
and each at most once, succeeds only when the nearest `Inflight` it knows have all been
asked, and comes to one verdict. `PromiseSpec` is this specification under the mapping
`known <- ToSet(nodes)`, `asked <- queried`, `heard <- replied`.

### Runs

| Run | Instance | Shows |
|---|---|---|
| `search_safety` | 5 nodes, array of 4, 2 in flight, retransmit 2, expire 3, clock to 4 | order and bound on queries in flight (`OrderAndBound`), never idle, one verdict and the refinement (`KeepsPromise`), and that every search ends |

Five nodes fill an array of four and have one refused; four with two in flight leave
nodes behind the nearest two, so that a search asks beyond them, and sees nearer ones
arrive. Retransmission is shorter than expiry, as in the code (10 s against 62 min), so
that queries can time out and others take their place. The clock stops at its last value, which
stands for all later times: `Start` is bounded by `now + Expire <= MaxTime`, and a
search that was started can still expire. Deadlock checking is off: a finished search may stop.

`SearchEnds` assumes that the manager keeps stepping and expiring, as
`wingo_dht_periodic` does at every call, and that time passes; it assumes no reply.

**Limits worth knowing.** `search_has_converged` wants the nearest nodes *queried*
(line 336), while `search_find_next_query` skips nodes that have *replied* (line 392). A
node reported as replied before it was queried (the parameter `replied` of `insert_node`,
or a call of `node_replied`) is never queried, and while it is among the nearest the
search cannot converge: when all others have been asked, `step` returns `WAIT`, "Wait for
in-flight queries" (`dht_search.h:135`), with nothing in flight, until the search times
out. `NeverIdle` holds, and is proved, under the condition that only queried nodes reply.
A search without nodes converges at its first step and reports success (line 329). A full
array refuses a newcomer even if it is nearer than all it holds (line 871). "The K
closest" of the comment on `search_has_converged` are the nearest
`WINGO_DHT_SEARCH_INFLIGHT` (4). The manager's step discards the node it is told to query
(lines 1294-1303) and `dht.c` never reports a reply to a search, so that a search started
there only times its nodes out.

### Proofs

`DhtSearchProofs` proves the safety properties of `search_safety` and the refinement,
for any nodes and limits, from `SearchNodesAssumption` and `SearchLimitsAssumption`.

The invariant `Inv` is `TypeOK`, `NearestFirst`, `OneVerdict` and `InflightBound`
together; it is inductive. (`OrderAndBound` is the second and the fourth, `KeepsPromise`
the third with the refinement.) `AfterInsert` and `AfterRemove` say what the two operations
on the array do to its order and its set, from `ListLemmas` and from two lemmas
on ascending sequences; that the array has no duplicates makes a removed node's flags
go with it, which `TypeOK` needs. `InflightBound` is kept by all steps but `StepQuery` because
the queries in flight become fewer (`FewerFlying`), and by `StepQuery` because of `MayQuery`.
`NeverIdle` follows from `Inv` without induction: if the search has not converged and
awaits nothing, some node was not asked, and the first of these (`LeastOf`) is the next.

In the refinement each action is matched by one of `Lookup` or by a stutter
(`PromiseStep`). `StepDone` needs `RankOfElement`: in an ascending array, an element
with fewer than k smaller ones stands among the first k. `StepQuery` needs the order:
what is nearer stands in front.

Only model-checked: `SearchEnds`.

## 6. The DHT routing table

The table (`net/dht/dht_routing.c`) is an array of buckets, each a range of the
identifier space and at most `bucket_size` nodes. It starts as one bucket; the bucket
that contains our own identifier is split when it is full. Every message the DHT
accepts adds its sender, and `wingo_dht_periodic` runs the maintenance.

### Correspondence

| Action or operator | Code |
|---|---|
| `Init` | `wingo_dht_routing_new` |
| `Finds` | `wingo_dht_routing_find_bucket`: the first bucket whose range has the identifier |
| `Middle`, `Split` | `wingo_dht_bucket_middle`, `wingo_dht_bucket_split` |
| `Pinged`, `Confirm` | the node's status in `dht_node.c`, as `add_node`'s `confirm` sets it |
| `AddKnown`, `AddRoom`, `AddReplace`, `AddSplit` | `wingo_dht_routing_add_node`: the node is there already; there is room; a bad node gives way; the bucket is split and the node tried once more |
| `RemoveNode` | `wingo_dht_routing_remove_node` |
| `Expire` | `wingo_dht_routing_expire`, and `wingo_dht_routing_maintenance` |
| `Age` | the clock: a node was last seen more than twice `NODE_GOOD_TIMEOUT` ago |

What the model does with data:
- An identifier is a number. `Weights` are the place values of its bits, `Half` the
  greatest; the code has 160 bits, the runs have four. `Middle` halves a sum modulo
  `2 * Half`, because the code adds into 20 bytes and drops the last carry.
- `bucket->next` is the next bucket of the array: a split changes both together.
- A bucket's nodes are a set. The code reads their order only to choose *which* bad
  node is replaced, a nondeterministic choice here, and in the closest-nodes query.
- `bucket->cached` is left out. Maintenance expires every bad node before it looks for
  one that the cached node could replace, so a cached node never gets into the table.
- `ping_count` stops at `MaxPing`, above which it is not told apart.

Left out: exhausted memory. When the array cannot grow after a bucket was split, the
code frees the new bucket while the old one still links to it (`dht_routing.c:471-475`).
Also the queries, and `wingo_dht_routing_split_bucket` called directly, as only unit
tests do: it does not ask whether the bucket is full.

### Runs

| Run | Instance | Shows |
|---|---|---|
| `server`, part `routing` | 4 bits, 6 peers, own identifier 0, 8 or 14, buckets of 1, 7 buckets at most | limits, every node is found where it is, order in the lower half, only lost nodes leave |
| `routing_order` | 4 bits, 4 peers, own identifier 8, buckets of 2 | violated: the next bucket has the higher first identifier |

The peers lie in both halves, three of them neighbours on each side, so that a bucket
is full again right after a split and the ranges shrink to one identifier. The code's
buckets hold 4 or more; one suffices for the runs, since each node's place depends on
the ranges only, and the proofs are for any size. Seven buckets are reached, so that
the limit of 160 is met. `MaxPing` is the code's. The constants, their assumptions
and the promises are in `RoutingTable`, which `MCServer` extends too.

**Finding.** `wingo_dht_bucket_middle` computes the middle of a range as a sum of two
identifiers halved, and the carry out of the first byte is lost (`dht_bucket.c:860`).
While our own identifier is in the lower half no sum is that large. In the upper half,
once the ranges are [0, 8), [8, 12) and [12, 16), the split of [8, 12) is at
(8 + 12 mod 16) / 2 = 2: the old bucket becomes the empty range [8, 2), and the
new one [2, 12) has everything the old one had. Every later split is below the middle of
the space too, whatever its bounds, until there are 160 buckets. So [8, 12), the neighbourhood
of our own identifier, which a Kademlia node must know best, is never divided and keeps one
bucket's worth of nodes.
Nodes remain reachable all the same: `Reachable` and `EveryIdHasABucket` hold, and are
proved, with these ranges too.

**Limits worth knowing.**
- `wingo_dht_bucket_expire` frees an expired node and then calls `bucket_remove_at`,
  which frees it again (`dht_bucket.c:1205`). `Expire` is what happens if the
  allocator does not notice. If it does, the process ends there; `Spec` has no
  fairness, so a behaviour may end at any state.
- `handle_ping` adds the sender with `confirm` 1, "we pinged it" (`dht.c:1205`). A node
  that pings us three times thereby becomes bad. The table cannot know who pinged whom,
  so `Pinged` is any message of that kind.
- `last`, the end of the list of buckets, is not updated by a split.

### Proofs

`DhtRoutingProofs` proves these safety properties for any set of bits, peers and limits,
from the three named assumptions of `RoutingTable`.

1. `Inv` is `Sound` (`Sized`, `Placed`, `Tiled`) and `Cleared`. `Placed`, that each node
   is found in the bucket that holds it, is not inductive alone: a skewed split moves
   nodes into a range that reaches below the old one, and one must know that no earlier
   bucket claims them, and that no later bucket loses its own. `Tiled` says so: whatever
   lies below a bucket's first identifier is in the range of an earlier bucket. It makes
   no use of the order of ranges, and so survives the lost carry. `SplitTiled` and
   `SplitPlaced` are the two steps; of the arithmetic they need only that the point of a
   split is below the next bucket (`MiddleBound`).
2. `OrderInv`, for an own identifier in the lower half: the first split is at `Half`,
   after it the last bucket is never split, the sum of two bounds has no carry, and a
   range of one identifier, our own, holds no node and is never full. So the
   middle is strictly inside the range (`MiddleInside`).
3. `RoutingOnlyTheLostLeave` goes through the actions: a split loses no node, a newcomer
   replaces only a bad one.

Only model-checked: nothing of this component.

## 7. The engine and its programs

`Engine` has `engine.c`: an operator for each call, with the engine as its parameter.
`EngineHosts` has the two programs that make those calls, and is the specification.

| Action | Code |
|---|---|
| `MainCreates` ... `MainReturns` | `main` of `platforms/linux/main.c` |
| `Signal`, `SignalEnds` | the signal handlers of `main.c` and `engine.c`: two stores, between which main's thread goes on |
| `JniCreates`, `JniInits`, `JniReuses`, `JniStarts`, `ThreadEnds` | `startWithFd` and `engine_thread_func` of `bowie_jni.c` |
| `JniStop`, `JniStopsLoop`, `JniWaited` | `stop`: the request, and the wait for `g_running` of at most five seconds |
| `RunRefused`, `RunBegins`, `RunClears`, `AddTick`, `AddTickFails`, `EnterLoop`, `Tick`, `LoopFails`, `LeaveLoop`, `RunEnds` | `wingo_engine_run`, one action for each store another thread may get between |
| `InitEngine(e, n)` | `wingo_engine_init` of which the first `n` of seven steps succeed |
| `Shutdown`, `Release`, `Free` | `wingo_engine_shutdown` and `wingo_engine_free` |

The event loop is what the engine sees of it: `run` clears the loop's stop flag and
returns after it was set again; `EventLoop` has the rest. `swallowed` and `misuse` are
histories: the engines that forgot a stop, and who used freed memory. What a program
does after that is undefined, so `Next` ends there.

`engine_safety`: three engines (one whose start failed, one that runs, one more), two
signals (one while the handler of the other is half done is refused, one after main has
freed the engine), every step of init failing, timers that cannot be added, a loop that
fails. Deadlock checking is off because both programs end.

- `FreedUnderThread`: Android's `stop` waits for a flag. Unless the run swallowed a stop
  (section 4's finding, here as `RunClears` and `EnterLoop`), the wait keeps `free` from
  running under the thread. With `SlowLoop`, a loop busy for five seconds, it does not.
- `FailedStartIsReleased`: whatever step of init failed, shutdown releases all of it.
- `StoppedIsFreed`: fairness of the engine's thread, of the program's calls that began and
  of a handler that began, as the scheduler gives.

**Limits worth knowing.** After a run the state is `STOPPED`, for which shutdown has
"nothing to do" (`engine.c:491`): an engine that ran and is then freed leaves its pool,
loop and state machine allocated, although `engine.h:326` says that free shuts down.
The tick timer ticks once (section 4). `g_engine_for_signal` keeps pointing at a freed
engine, and a signal that comes then uses it.

`EngineProofs` proves the three invariants for any number of engines and signals. The
inductive invariant says what the engine has at each place of its host (`HostSound`,
`LoopLive`), that an unstarted engine changes only by its host's steps
(`UnstartedSound`), and that a thread under way belongs to the engine the host holds and
has not begun to release (`ThreadSafe`). Only model-checked: `StoppedIsFreed`.

## 8. The DHT node and its parts

`DhtServer` is `dht.c`. It shares its variables with `DhtToken`, `DhtStorage` and
`DhtSecurity`, instances whose operators its actions call as the code's handlers call
the functions of the three files.

| Action | Code |
|---|---|
| `StartWorks`, `StartFails(i)`, `Stop` | `wingo_dht_start` with each of its unwindings, `_stop`, `_free` |
| `Process(m)`: `Ping`, `FindNode`, `GetPeers`, `AnnouncePeer`, `Response`, `Ignored` | `dht_process_message`: `validate_source`, then the handlers, each of which first adds the sender (`AddNodes`) |
| `Announce`, `LookUpPeers`, `LookUpNode`, `Bootstrap` | `wingo_dht_announce`, `_get_peers`, `_find_node`, `_bootstrap` |
| `Periodic` | `wingo_dht_periodic` |

Of the routing table only the addresses it holds are kept, and it may keep or drop any
node: `DhtRouting` says which. A token is the pair of a secret and an address; SHA-1 and
16 random bytes are taken to be without collisions. `held` are the tokens others got, so
a message carries one of these, from this run or an earlier one, or one nobody made.
`SearchManager` has the array of searches and its three walks, one action for each place
of the array, and a done callback that may free its search; whether a search ends is
`DhtSearch`'s concern.

`server` checks them in `MCServer`: `which` picks, at the start of a behaviour, the node's
life and calls, the node's messages, or one part called directly, so that calls the node
never makes (`refresh_peer`, `save` and `load`, `rate_limit_reset`) are covered too. The
routing table is one of these parts, with the bounds of section 6. Two
senders of one subnet, a host without IPv4, one hash with two peers at most and a reply
that holds one: the smallest sizes at which a full list, a full subnet and a reply that
does not fit are met. Three messages are a get_peers, an announcement and what follows.
While messages are checked the table keeps every node it may: only the tokens of a
local announcement depend on it. Clock to 3, tokens rotate each second, peers live two. Four secrets allow two rotations after a start.

- `PartsSound`: the node's parts are allocated exactly while it runs.
- `TokensHonoured`: a token survives one rotation and not two (`AcceptedOnce`), and no
  token younger than the shortest period is refused to the host it was made for.
- `LiveServed`: what was announced less than `storage_timeout` ago is handed out, and
  nothing else, through full lists, refreshes, expiry and loading.
- `RateBounded`: in any span of time no more messages of one address, a host and a port,
  than a bucket and one a second.
- `SearchesKept`: no walk reads a freed search; a running search ends, with fairness of
  the walk's steps and of the calls of `wingo_dht_periodic`, which the program repeats.

`ServerProofs` proves `PartsSound`, `RateBounded`, `TokensHonoured` and `LiveServed` for any
hosts, hashes, limits and periods, from `ServerAssumption` (senders are known hosts, the
periods and limits are numbers, a hash lives no shorter than a peer). Each action of the
node is one of a few steps of the token manager and of the storage (`NextParts`), and each
of the two has its invariant. `TokenSound` says by a token's age in rotations which secret
made it and how long ago at least; with that a refused token is two rotations old, hence
older than the shortest period. `PeersSound` says that a listed peer's time is its
promise's: then expiry and eviction, which read the time, never break a promise, and an
entry that is too old has no peer left. `RateInv` says of each rate bucket that the
permits it has left and the messages admitted since it was last full come to no more than
its size and a permit a second; a limit seen from any later moment follows from it, which
one seen from the last refill alone would not. `PartsOnlyWhileRunning` and the types of
all parts (`ServerTypes`) give `PartsSound`.

`DhtSearchProofs` proves the safety half of `SearchesKept` (`SearchesNoneFreed`): whatever a
done callback frees while one of the three walks is under way, the array names live
searches only, each once, and has no hole but while a clear empties it (`ManagerInv`).
Only model-checked: that a running search ends, which needs fairness.

**Finding** (`server_deaf`). `dht_add_node_from_msg` registers the sender's subnet at
every message (`dht.c:1186`) and nothing unregisters. After four messages, all of one
node perhaps, `validate_source` refuses the whole /24 until the node is restarted;
`dht_security.h:84` says "Maximum nodes per subnet".

**Finding** (`RateBounded`). The constant of 20 is "messages per second per IP" in
`dht_security.h:69`, and `dht_security.c:24` says "per IP" too. It is the size of a bucket:
`rate_refill` gives back one permit a second, not 20 (`dht_security.c:334`), so a steady
sender is held to one message a second. And `rate_find` compares whole addresses
(`dht_security.c:273`), so each port of a host has a bucket of its own, as the two senders
of the run have: per host nothing is bounded but by the 4096 entries, and an address that
finds the list full is not limited at all. The documented limits per node and overall
(`dht_security.h:76`, `:81`) are not used.

**Limits worth knowing.**
- An announcement the storage refuses is answered with a pong as if it were stored
  (`dht.c:1410`). A local announcement is stored, and handed out, as 0.0.0.0.
- `wingo_dht_announce` sends tokens that its *own* secret makes, which no other node accepts.
- For an IPv6 asker the token's bytes are never written, and are sent.
- Nobody registers `dht_socket_callback` with a loop. `wingo_dht_config_default` in
  `dht.c` calls itself. The settings for the rate limit, for the timeouts of nodes and searches, and for tokens
  are not passed on.
- A blacklist entry that has expired but is still listed makes a new one be ignored.
- Saving writes no times: after loading, an expired peer lives a full period.
- Done searches are freed by their owner or not at all; `max_searches` bounds nothing; the
  array doubles, and transaction ids wrap.
- `mgr_clear` and `mgr_free` free while they walk the array that freeing shortens
  (`dht_search.c:449`): every other search is lost and never freed. `SearchesKept` does
  not ask that they be freed. The comment at line 1281 speaks of a snapshot of the count that is not taken.

## 9. The building blocks

`parts` checks fourteen small modules side by side; `which` picks one for a behaviour. They do
not share state in the program either: each is a data structure used by one owner, or
(`ThreadObject`, `Once`) two or three threads with their own lock.

| Module | Code | Abstraction | Bounds in `MCParts` |
|---|---|---|---|
| `StateMachine` | `state.c` | a call holds the mutex throughout, callbacks included, and is one step; a callback is its result | 2 values, 1 rule, 1 callback, a ring of 2 records, clock to 1: the ring wraps at the third change |
| `ThreadObject` | `thread.c` 92-330 | owner and thread, each store an action | 3 starts, so that a start follows a join and a detach |
| `Once` | `thread.c` 960-1010 | each access of the flag an action | 3 callers, 2 controls with their common mutex |
| `LinkedLists`, `ListPromise` | `list.c` | cells and pointers, of both lists; refines a sequence | 4 cells, 3 data of which two compare equal: a stable sort differs from another |
| `Queues`, `FifoPromise` | `queue.c` | the linked queue and the ring; refines a FIFO | 3 nodes; a ring asked for 3 has 4 places |
| `PriorityQueue` | `queue.c` | the array and its sifts | 3 items, capacity 3 that doubles once |
| `HashMap` | `hashmap.c` | chains, as sets of entries; `Hash` any function; who owns a value | 4 keys, 1 bucket that grows to 4, keys that collide at each size |
| `Buffer` | `buffer.c` | bytes, capacity, cursor | chunks of 2, capacity 2 to 5 |
| `Peers` | `peer.c` | the array, the index, sockets as descriptors reused lowest first | 2 ids, 2 cells, 2 sockets |
| `Sockets` | `socket.c` | the structure beside the kernel's socket (external), as its manual pages have it | 2 handles, 2 addresses |
| `SockStream` | `socket.c` sendall, recv | bytes numbered, a kernel buffer with room (external) | 5 bytes, calls of 3, room for 2 |
| `Addresses` | `socket.c` order and classes | none | both ends of each range, in either family, and mapped addresses |
| `Bencode` | `dht_bencode.c` | two digits, widths scaled | every input of 4 chunks, values of 4 nodes, depth 2 |
| `Messages` | `dht_message.c` | a dictionary is a function; strings known by their class | 2 nodes' ids, lists of 2, thirteen forged datagrams |

`Parts` has the instances that the proofs are about, and the properties that join what
the modules state: `MachineSound`, `ThreadsSafe`, `ContainersKept` (queue and ring refine a
FIFO; a map finds each key through rehashing and owns what it holds; a buffer's reader sees
each byte once), `PeersSound` and `SocketsSound`. `MCParts` adds the modules whose
definitions are recursive, with `AlgorithmsRight` (lists refine sequences, a heap pops a
smallest, decoding inverts encoding, both ends of a message mean the same), and for
liveness `CallsEnd`: a requested stop reaches the thread, whose function is assumed to look
at it, and sendall returns while the other end reads; weak fairness of the thread and of
the caller, that the scheduler gives.

### Proofs

`PartsProofs` proves the five properties of `Parts`, each for any values of its module's
constants, from the assumption the module names. None of them is inductive by itself.

- *Sockets.* While `connect_timeout` waits, `Mode` says that the descriptor is non-blocking
  and that the call remembers the structure's mode, and `CallSound` that the structure is
  still open, so that whichever way the poll ends the mode is restored. `Connected` says
  what connect(2) may leave of a kernel socket. `StreamInv`: what was received and what is
  on the wire are the data's first bytes in order, as many as `sendall` counted. The order
  of addresses is that of the first byte that differs (`Memcmp`, with `LeastOf`).
- *Threads.* `ThreadInv` says that a wrapper under way has a handle or was detached, and
  that none outlives a freed object but a detached one; `OnceInv` that the mutex is held by
  whoever is between its two calls, and that a call begun but not yet flagged has its caller
  inside.
- *State machine.* `HistoryInv`: the ring's head and count are where `recent`, the list of
  the latest records, puts them; the slots differ modulo the length
  (`Wrapped`), so a new record overwrites the oldest only. `LastAgrees` ties the latest
  record to the current state, also after a transition whose callback failed halfway. For
  `TimeInv` the model has a history, `spent`: what was spent in each state, counted second
  by second, where the code adds differences of clock readings.
- *Peers.* The array has no peer twice (`Lists`), the index names exactly its live peers
  (`Indexed`), an open descriptor has one owner, which is in the array (`Owners`), and a
  state agrees with the socket (`Honest`).
- *Queues.* `Follows`: a sequence of nodes leads from head to tail along `next`, whose last
  is NULL. Such a sequence is unique (`SameChain`), so the queue's contents, defined as the
  one there is, can be computed after each call. A ring's tail is `head + count` modulo its
  size, and its contents the `count` slots from the head.
- *Hash map.* Chains are sets of entries. `MapInv` says that chain `i` is the part of one
  set of entries that hashes to `i`; a rehash changes the number of chains and not the set,
  which then has one entry per key, and `Held` says who owns the values.
- *Buffer.* Each call inserts at a place or removes from one. `WidenedSides` and
  `NarrowedSides` say what that does to the bytes on either side of a place; the cursor is
  one such place.

**Limits worth knowing.**
- The state machine keeps the new state when an ON_ENTER callback returns an error
  (`state.c:410-420`), although `state.h:127` says that an error code rejects the
  transition. `HistoryIsRecent` states what the code does: after an error the current
  state is the origin or the target of the last record, which does not say which.
- A wrapper that starts late overwrites `STOPPING` with `RUNNING`; only the flag survives.
  A detached thread writes to its object after `free`. `wingo_once` inside a once
  function waits for itself, whatever its control, since the mutex is shared.
- `connect_timeout` and `disconnect` do not tell the kernel: a later connect of the same
  structure may report success for another address. A refused connect in
  `connect_timeout` reports a generic error, and a timeout does not set `last_error`.
- `recv_timeout` returns 0 for a timeout and for a closed connection.
- A connected peer that is added again becomes DISCOVERED; a blacklisted peer with a
  socket ends in DISCONNECT.
- The bencode decoder accepts "i-03e"; INT64_MIN is encoded but not accepted; a copy of a
  dictionary with a key twice has it once. `want` is encoded and never decoded.
- Appending a buffer to itself reads memory the growth may have freed; `Buffer`'s callers do not.

## 10. Not modelled

- Mutex, condition, rwlock, semaphore and TLS functions are one-line wrappers over
  pthreads; they are the locks and wait sets of the models that use them.
- DHT configuration: settings and their validation, without behaviour over time.
- Time, random numbers, logging, errors: wrappers over the system, and output.
- Cryptography: one-line stubs at this commit.
- Platforms: command line and queries of the system, but for the life of the engine in
  `main.c`; the Android user interface in Java, and its bridge but for the engine's thread.
- Everywhere: exhausted memory but for the pool's queue, counters nobody reads, printing.
- Proofs. Fairness is beyond the prover: `AcceptedRuns`, `CallsReturn`,
  `SubmitReturnsUnlessStopped`, `StopExits`, `Served`, `SearchEnds`, `StoppedIsFreed`,
  `CallsEnd` and the second half of `SearchesKept` are model-checked only. So is
  `AlgorithmsRight`: what a recursive definition computes (`LinkedLists`, `PriorityQueue`,
  `Bencode`) takes induction over data, and `Messages` is built on `Bencode`.
