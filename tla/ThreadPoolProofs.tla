-------------------------- MODULE ThreadPoolProofs --------------------------
(***************************************************************************)
(* Theorems about the thread pool, for every number of workers and         *)
(* clients, every queue_size and every set of tasks.  The argument is laid *)
(* out in layers, each of which uses the ones before it:                   *)
(*   1. Inv1: types, what the owner's phase says about the threads, the    *)
(*      counters (Accounting), and the drained queue (DrainedAtExit);      *)
(*   2. Inv2: where every task is (Conservation);                          *)
(*   3. Inv3: no wakeup is lost, on any of the three condition variables;  *)
(*   4. what follows step by step: the barrier, the draining stop, and     *)
(*      the refinement of TaskPool.                                        *)
(***************************************************************************)
EXTENDS ThreadPool, TLAPS, FiniteSetTheorems, SequenceTheorems

-----------------------------------------------------------------------------
(* Program counters and how many of them stand in a set of places.         *)

\* The program counters f of the threads D become g, and only x moves.
Moves(D, f, g, x) ==
    /\ DOMAIN f = D /\ DOMAIN g = D /\ x \in D
    /\ \A y \in D : y = x \/ g[y] = f[y]

\* The sets of threads that the counters count are finite.
LEMMA AtFinite ==
    ASSUME NEW D, IsFiniteSet(D), NEW f, DOMAIN f = D, NEW S
    PROVE  /\ IsFiniteSet(At(f, S))
           /\ Cardinality(At(f, S)) \in Nat
<1>1. At(f, S) \subseteq D
    BY DEF At
<1>2. IsFiniteSet(At(f, S))
    BY <1>1, FS_Subset
<1> QED BY <1>2, FS_CardinalityType

\* A thread comes to S: one more there.
LEMMA MoveIn ==
    ASSUME NEW D, IsFiniteSet(D), NEW f, NEW g, NEW x, Moves(D, f, g, x),
           NEW S, f[x] \notin S, g[x] \in S
    PROVE  Cardinality(At(g, S)) = Cardinality(At(f, S)) + 1
<1>1. At(g, S) = At(f, S) \cup {x} /\ x \notin At(f, S)
    BY DEF At, Moves
<1>2. IsFiniteSet(At(f, S))
    BY AtFinite DEF Moves
<1> QED BY <1>1, <1>2, FS_AddElement

\* A thread leaves S: one less there, and there was one.
LEMMA MoveOut ==
    ASSUME NEW D, IsFiniteSet(D), NEW f, NEW g, NEW x, Moves(D, f, g, x),
           NEW S, f[x] \in S, g[x] \notin S
    PROVE  /\ Cardinality(At(g, S)) = Cardinality(At(f, S)) - 1
           /\ Cardinality(At(f, S)) > 0
<1>1. At(g, S) = At(f, S) \ {x} /\ x \in At(f, S)
    BY DEF At, Moves
<1>2. IsFiniteSet(At(f, S)) /\ Cardinality(At(f, S)) \in Nat
    BY AtFinite DEF Moves
<1>3. Cardinality(At(g, S)) = Cardinality(At(f, S)) - 1
    BY <1>1, <1>2, FS_RemoveElement
<1>4. Cardinality(At(f, S)) # 0
    BY <1>1, <1>2, FS_EmptySet
<1> QED BY <1>2, <1>3, <1>4

\* A thread moves within S or outside it: S keeps its threads.
LEMMA MoveElsewhere ==
    ASSUME NEW D, NEW f, NEW g, NEW x, Moves(D, f, g, x),
           NEW S, f[x] \in S <=> g[x] \in S
    PROVE  At(g, S) = At(f, S)
BY DEF At, Moves

\* A signal moves one sleeper from a to b, or finds none.
LEMMA WakeOneMoves ==
    ASSUME NEW D, NEW f, DOMAIN f = D, NEW a, NEW b, NEW g \in WakeOne(f, a, b)
    PROVE  \/ g = f /\ At(f, {a}) = {}
           \/ \E x \in D : Moves(D, f, g, x) /\ f[x] = a /\ g[x] = b
<1>1. CASE \E x \in D : f[x] = a
    <2>1. PICK x \in D : f[x] = a /\ g = [f EXCEPT ![x] = b]
        BY <1>1 DEF WakeOne
    <2>2. Moves(D, f, g, x) /\ g[x] = b
        BY <2>1 DEF Moves
    <2> QED BY <2>1, <2>2
<1>2. CASE ~ \E x \in D : f[x] = a
    BY <1>2 DEF WakeOne, At
<1> QED BY <1>1, <1>2

\* A signal disturbs only the two places it names.
LEMMA WakeOneElsewhere ==
    ASSUME NEW D, NEW f, DOMAIN f = D, NEW a, NEW b, NEW g \in WakeOne(f, a, b)
    PROVE  /\ \A V : f \in [D -> V] /\ b \in V => g \in [D -> V]
           /\ \A S : a \notin S /\ b \notin S => At(g, S) = At(f, S)
           /\ \A x \in D : g[x] = f[x] \/ (f[x] = a /\ g[x] = b)
<1>1. \/ g = f
      \/ \E x \in D : f[x] = a /\ g = [f EXCEPT ![x] = b]
    BY DEF WakeOne
<1>2. DOMAIN g = D /\ \A x \in D : g[x] = f[x] \/ (f[x] = a /\ g[x] = b)
    BY <1>1
<1>3. \A S : a \notin S /\ b \notin S => At(g, S) = At(f, S)
    BY <1>2 DEF At
<1>4. \A V : f \in [D -> V] /\ b \in V => g \in [D -> V]
    BY <1>1
<1> QED BY <1>2, <1>3, <1>4

\* After a signal nobody sleeps, or there is one thread more at b.
LEMMA WakeOneCounts ==
    ASSUME NEW D, IsFiniteSet(D), NEW f, DOMAIN f = D, NEW a, NEW b, a # b,
           NEW g \in WakeOne(f, a, b)
    PROVE  \/ g = f /\ At(g, {a}) = {}
           \/ Cardinality(At(g, {b})) = Cardinality(At(f, {b})) + 1
<1>1. ASSUME NEW x \in D, Moves(D, f, g, x), f[x] = a, g[x] = b
      PROVE  Cardinality(At(g, {b})) = Cardinality(At(f, {b})) + 1
    <2>1. f[x] \notin {b} /\ g[x] \in {b}
        BY <1>1
    <2> QED BY <2>1, <1>1, MoveIn
<1>2. \/ g = f /\ At(f, {a}) = {}
      \/ \E x \in D : Moves(D, f, g, x) /\ f[x] = a /\ g[x] = b
    BY WakeOneMoves
<1> QED BY <1>1, <1>2

\* A broadcast leaves no sleeper, and disturbs only the two places it names.
LEMMA WakeAllMoves ==
    ASSUME NEW D, NEW V, NEW f \in [D -> V], NEW a, NEW b \in V, a # b
    PROVE  LET g == WakeAll(f, a, b)
           IN  /\ g \in [D -> V]
               /\ At(g, {a}) = {}
               /\ \A S : a \notin S /\ b \notin S => At(g, S) = At(f, S)
               /\ \A x \in D : g[x] = f[x] \/ (f[x] = a /\ g[x] = b)
<1> DEFINE g == WakeAll(f, a, b)
<1>1. g \in [D -> V] /\ \A x \in D : g[x] = IF f[x] = a THEN b ELSE f[x]
    BY DEF WakeAll
<1> HIDE DEF g
<1>2. At(g, {a}) = {}
    BY <1>1 DEF At
<1>3. ASSUME NEW S, a \notin S, b \notin S
      PROVE  At(g, S) = At(f, S)
    BY <1>1, <1>3 DEF At
<1> QED BY <1>1, <1>2, <1>3 DEF g

-----------------------------------------------------------------------------
(* Layer 1: types, phases of the owner, counters.                          *)

\* What the owner's place in start, stop and free says about the flags and
\* about the threads.
PhaseInv ==
    /\ running => opc \in {"idle", "stopping"}
    /\ opc \in {"failing", "stopping"} => stop_requested
    /\ opc = "stopping" => running
    /\ opc = "creating" => ~stop_requested
    /\ opc = "idle" /\ running => ~stop_requested
    /\ running => \A w \in Workers : wpc[w] # "none"
    /\ opc = "freed" \/ (opc = "idle" /\ ~running)
           => \A w \in Workers : wpc[w] = "none"
    /\ opc = "freed" => \A c \in Clients : cpc[c] = "out"

\* Who has a task in hand.
HandsInv ==
    /\ \A w \in Workers : wpc[w] = "run" <=> wtask[w] # NoTask
    /\ \A c \in Clients : cpc[c] \in {"submit", "blocked"} <=> ctask[c] # NoTask

Inv1 == TypeOK /\ PhaseInv /\ HandsInv /\ DrainedAtExit /\ Accounting

LEMMA Inv1Init == Init => Inv1
<1> SUFFICES ASSUME Init PROVE Inv1
    OBVIOUS
<1> USE DEF Init
<1>0. queue \in Seq(Tasks) /\ Len(queue) = 0
    BY EmptySeq
<1>1. TypeOK
    <2>1. starts \in 0..MaxStarts /\ owed \in [Clients -> SUBSET Tasks]
        BY BoundsAssumption
    <2> QED BY <1>0, <2>1 DEF TypeOK, WorkerPC, ClientPC, OwnerPC
<1>2. PhaseInv /\ HandsInv /\ DrainedAtExit
    BY DEF PhaseInv, HandsInv, DrainedAtExit, WorkersAt, At
<1>3. WorkersAt({"run", "ran"}) = {}
    BY DEF WorkersAt, At
<1>4. Accounting
    <2>1. Cardinality(WorkersAt({"run", "ran"})) = 0
        BY <1>3, FS_EmptySet
    <2> QED BY <1>0, <2>1, QueueSizeAssumption DEF Accounting
<1> QED BY <1>1, <1>2, <1>4 DEF Inv1

\* The counters stay right when no counted thing changes.
LEMMA AccountingKept ==
    ASSUME Accounting, opc' # "freed",
           opc # "freed", UNCHANGED <<queue, queue_count, stat_pending, stat_active>>,
           At(wpc', {"run", "ran"}) = At(wpc, {"run", "ran"})
    PROVE  Accounting'
BY DEF Accounting, WorkersAt

\* Workers.
LEMMA Inv1Worker ==
    ASSUME Inv1, NEW w \in Workers, WorkerStep(w)
    PROVE  Inv1'
<1> USE DEF Inv1
<1>0. opc # "freed" /\ (wpc[w] = "top" => wtask[w] = NoTask)
    BY DEF WorkerStep, WorkerSleep, WorkerExit, WorkerTake, WorkerRun,
           WorkerFinish, PhaseInv, HandsInv
<1>1. CASE WorkerSleep(w) \/ WorkerExit(w)
    <2> USE DEF WorkerSleep, WorkerExit, poolVars, flagVars, clientVars,
                ownerVars, histVars
    <2>1. TypeOK'
        BY <1>1 DEF TypeOK, WorkerPC
    <2>2. PhaseInv' /\ HandsInv' /\ DrainedAtExit'
        BY <1>1 DEF TypeOK, PhaseInv, HandsInv, DrainedAtExit, WorkersAt, At
    <2>3. At(wpc', {"run", "ran"}) = At(wpc, {"run", "ran"})
        BY <1>1 DEF TypeOK, At
    <2>4. Accounting'
        BY <1>1, <2>3, <1>0, AccountingKept
    <2> QED BY <2>1, <2>2, <2>4
<1>2. CASE WorkerTake(w)
    <2> USE DEF WorkerTake, flagVars, ownerVars, histVars
    <2>1. queue # <<>> /\ queue \in Seq(Tasks)
        BY <1>2, <1>0, EmptySeq DEF Accounting, TypeOK
    <2>2. /\ Head(queue) \in Tasks /\ Tail(queue) \in Seq(Tasks)
          /\ Len(Tail(queue)) = Len(queue) - 1
        BY <2>1, HeadTailProperties
    <2>3. cpc' \in WakeOne(cpc, "blocked", "submit")
        BY <1>2 DEF SignalNotFull
    <2>4. /\ cpc' \in [Clients -> ClientPC]
          /\ \A c \in Clients : \/ cpc'[c] = cpc[c]
                                \/ cpc[c] = "blocked" /\ cpc'[c] = "submit"
        <3>1. /\ "submit" \in ClientPC
              /\ cpc \in [Clients -> ClientPC] /\ DOMAIN cpc = Clients
            BY DEF TypeOK, ClientPC
        <3> QED BY <3>1, <2>3, WakeOneElsewhere
    <2>5. TypeOK'
        <3>1. queue_count - 1 \in Nat /\ stat_pending - 1 \in Nat
            BY <1>2 DEF TypeOK, Accounting
        <3> QED BY <1>2, <2>2, <2>4, <3>1 DEF TypeOK, WorkerPC
    <2>6. PhaseInv' /\ HandsInv' /\ DrainedAtExit'
        BY <1>2, <1>0, <2>2, <2>4, NoTaskAssumption
           DEF TypeOK, PhaseInv, HandsInv, DrainedAtExit, WorkersAt, At
    <2>7. Moves(Workers, wpc, wpc', w) /\ wpc[w] = "top" /\ wpc'[w] = "run"
        BY <1>2 DEF TypeOK, Moves
    <2>8. Cardinality(WorkersAt({"run", "ran"}))' = Cardinality(WorkersAt({"run", "ran"})) + 1
        BY <2>7, MoveIn, WorkersAssumption DEF WorkersAt
    <2>9. Accounting'
        BY <1>2, <1>0, <2>2, <2>8, QueueSizeAssumption DEF Accounting, TypeOK
    <2> QED BY <2>5, <2>6, <2>9
<1>3. CASE WorkerRun(w)
    <2> USE DEF WorkerRun, poolVars, flagVars, clientVars, ownerVars
    <2>1. TypeOK'
        BY <1>3 DEF TypeOK, WorkerPC, HandsInv
    <2>2. PhaseInv' /\ HandsInv' /\ DrainedAtExit'
        BY <1>3 DEF TypeOK, PhaseInv, HandsInv, DrainedAtExit, WorkersAt, At
    <2>3. At(wpc', {"run", "ran"}) = At(wpc, {"run", "ran"})
        BY <1>3 DEF TypeOK, At
    <2>4. Accounting'
        BY <1>3, <2>3, <1>0, AccountingKept
    <2> QED BY <2>1, <2>2, <2>4
<1>4. CASE WorkerFinish(w)
    <2> USE DEF WorkerFinish, flagVars, ownerVars, histVars
    <2>1. /\ cpc' \in [Clients -> ClientPC]
          /\ \A c \in Clients : \/ cpc'[c] = cpc[c]
                                \/ cpc[c] = "idling" /\ cpc'[c] = "wait"
        BY <1>4 DEF BroadcastIdle, WakeAll, TypeOK, ClientPC
    <2>2. Moves(Workers, wpc, wpc', w) /\ wpc[w] = "ran" /\ wpc'[w] = "top"
        BY <1>4 DEF TypeOK, Moves
    <2>3. /\ Cardinality(WorkersAt({"run", "ran"}))' = Cardinality(WorkersAt({"run", "ran"})) - 1
          /\ Cardinality(WorkersAt({"run", "ran"})) > 0
        BY <2>2, MoveOut, WorkersAssumption DEF WorkersAt
    <2>4. TypeOK'
        BY <1>4, <2>1, <2>3 DEF TypeOK, WorkerPC, Accounting
    <2>5. PhaseInv' /\ HandsInv' /\ DrainedAtExit'
        BY <1>4, <2>1 DEF TypeOK, PhaseInv, HandsInv, DrainedAtExit, WorkersAt, At
    <2>6. Accounting'
        BY <1>4, <1>0, <2>3 DEF Accounting
    <2> QED BY <2>4, <2>5, <2>6
<1> QED BY <1>1, <1>2, <1>3, <1>4 DEF WorkerStep

\* Clients.
LEMMA Inv1Client ==
    ASSUME Inv1, NEW c \in Clients,
           ClientStep(c) \/ WaitEnter(c) \/ \E t \in Tasks : SubmitEnter(c, t)
    PROVE  Inv1'
<1> USE DEF Inv1
<1>0. opc # "freed"
    BY DEF ClientStep, SubmitBlock, SubmitCancel, SubmitNoMem, SubmitPush,
           WaitSleep, WaitReturn, WaitEnter, SubmitEnter, PhaseInv
<1>1. CASE SubmitPush(c)
    <2> USE DEF SubmitPush, flagVars, ownerVars, histVars
    <2>1. ctask[c] \in Tasks /\ queue \in Seq(Tasks)
        BY <1>1 DEF TypeOK, HandsInv
    <2>2. /\ Append(queue, ctask[c]) \in Seq(Tasks)
          /\ Len(Append(queue, ctask[c])) = Len(queue) + 1
        BY <2>1, AppendProperties
    <2>3. /\ wpc' \in [Workers -> WorkerPC]
          /\ \A w \in Workers : \/ wpc'[w] = wpc[w]
                                \/ wpc[w] = "asleep" /\ wpc'[w] = "top"
          /\ At(wpc', {"run", "ran"}) = At(wpc, {"run", "ran"})
        <3>1. /\ wpc \in [Workers -> WorkerPC] /\ DOMAIN wpc = Workers
              /\ "top" \in WorkerPC
              /\ "asleep" \notin {"run", "ran"} /\ "top" \notin {"run", "ran"}
            BY DEF TypeOK, WorkerPC
        <3> QED BY <1>1, <3>1, WakeOneElsewhere
    <2>4. TypeOK'
        BY <1>1, <2>1, <2>2, <2>3 DEF TypeOK, ClientPC
    <2>5. PhaseInv' /\ HandsInv'
        BY <1>1, <1>0, <2>3 DEF TypeOK, PhaseInv, HandsInv
    <2>6. DrainedAtExit'
        BY <1>1, <2>3 DEF TypeOK, DrainedAtExit, WorkersAt, At
    <2>7. Accounting'
        BY <1>1, <1>0, <2>2, <2>3, QueueSizeAssumption
           DEF Accounting, TypeOK, Full, WorkersAt
    <2> QED BY <2>4, <2>5, <2>6, <2>7
<1>2. CASE \/ SubmitBlock(c) \/ SubmitCancel(c) \/ SubmitNoMem(c)
           \/ WaitSleep(c) \/ WaitReturn(c) \/ WaitEnter(c)
           \/ \E t \in Tasks : SubmitEnter(c, t)
    <2> USE DEF SubmitBlock, SubmitCancel, SubmitNoMem, SubmitGiveUp, WaitSleep,
                WaitReturn, WaitEnter, SubmitEnter, poolVars, flagVars,
                workerVars, ownerVars, histVars
    <2>1. TypeOK'
        <3>1. cpc' \in [Clients -> ClientPC]
            BY <1>2 DEF TypeOK, ClientPC
        <3>2. ctask' \in [Clients -> Tasks \cup {NoTask}]
            BY <1>2 DEF TypeOK
        <3>3. owed' \in [Clients -> SUBSET Tasks] /\ abandoned' \in BOOLEAN
            BY <1>2 DEF TypeOK
        <3> QED BY <1>2, <3>1, <3>2, <3>3 DEF TypeOK
    <2>2. PhaseInv' /\ DrainedAtExit'
        BY <1>2, <1>0 DEF TypeOK, PhaseInv, DrainedAtExit, WorkersAt, At
    <2>3. HandsInv'
        BY <1>2, NoTaskAssumption DEF TypeOK, HandsInv
    <2>4. opc' # "freed" /\ UNCHANGED <<poolVars, wpc>>
        BY <1>2, <1>0
    <2>5. Accounting'
        BY <2>4, <1>0, AccountingKept
    <2> QED BY <2>1, <2>2, <2>3, <2>5
<1> QED BY <1>1, <1>2 DEF ClientStep

\* The owner, and spurious wakeups.
LEMMA Inv1Owner ==
    ASSUME Inv1, OwnerStep \/ Start \/ Stop \/ Free \/ Spurious
    PROVE  Inv1'
<1> USE DEF Inv1
<1>1. CASE Start \/ Started
    <2> USE DEF Start, Started, poolVars, workerVars, clientVars, histVars
    <2>1. TypeOK'
        <3>1. starts' \in 0..MaxStarts
            BY <1>1, BoundsAssumption DEF TypeOK
        <3>2. running' \in BOOLEAN /\ stop_requested' \in BOOLEAN
            BY <1>1 DEF TypeOK
        <3> QED BY <1>1, <3>1, <3>2 DEF TypeOK, OwnerPC
    <2>2. PhaseInv' /\ HandsInv' /\ DrainedAtExit'
        BY <1>1 DEF TypeOK, PhaseInv, HandsInv, DrainedAtExit, WorkersAt, At
    <2>3. opc # "freed" /\ opc' # "freed" /\ UNCHANGED <<poolVars, wpc>>
        BY <1>1
    <2>4. Accounting'
        BY <2>3, AccountingKept
    <2> QED BY <2>1, <2>2, <2>4
<1>2. CASE \E w \in Workers : CreateWorker(w)
    <2> PICK w \in Workers : CreateWorker(w)
        BY <1>2
    <2> USE DEF CreateWorker, poolVars, flagVars, clientVars, ownerVars, histVars
    <2>1. TypeOK'
        BY DEF TypeOK, WorkerPC
    <2>2. PhaseInv' /\ HandsInv' /\ DrainedAtExit'
        BY DEF TypeOK, PhaseInv, HandsInv, DrainedAtExit, WorkersAt, At
    <2>3. At(wpc', {"run", "ran"}) = At(wpc, {"run", "ran"})
        BY DEF TypeOK, At
    <2>4. Accounting'
        BY <2>3, AccountingKept
    <2> QED BY <2>1, <2>2, <2>4
<1>3. CASE CreateFails \/ Stop
    <2> USE DEF CreateFails, Stop, RequestStop, poolVars, clientVars, histVars
    <2>1. /\ wpc' \in [Workers -> WorkerPC]
          /\ \A w \in Workers : \/ wpc'[w] = wpc[w]
                                \/ wpc[w] = "asleep" /\ wpc'[w] = "top"
        BY <1>3 DEF TypeOK, WorkerPC, WakeAll
    <2>2. TypeOK'
        BY <1>3, <2>1 DEF TypeOK, OwnerPC
    <2>3. PhaseInv' /\ HandsInv' /\ DrainedAtExit'
        BY <1>3, <2>1 DEF TypeOK, PhaseInv, HandsInv, DrainedAtExit, WorkersAt, At
    <2>4. At(wpc', {"run", "ran"}) = At(wpc, {"run", "ran"})
        BY <2>1 DEF TypeOK, At
    <2>5. opc # "freed" /\ opc' # "freed" /\ UNCHANGED poolVars
        BY <1>3
    <2>6. Accounting'
        BY <2>4, <2>5, AccountingKept
    <2> QED BY <2>2, <2>3, <2>6
<1>4. CASE StartFailed \/ Stopped
    <2> USE DEF StartFailed, Stopped, JoinWorkers, poolVars, flagVars, clientVars,
                histVars
    <2>1. TypeOK'
        BY <1>4 DEF TypeOK, WorkerPC, OwnerPC
    <2>2. PhaseInv' /\ HandsInv' /\ DrainedAtExit'
        BY <1>4 DEF TypeOK, PhaseInv, HandsInv, DrainedAtExit, WorkersAt, At
    <2>3. At(wpc', {"run", "ran"}) = At(wpc, {"run", "ran"})
        BY <1>4 DEF TypeOK, At
    <2>4. opc # "freed" /\ opc' # "freed" /\ UNCHANGED poolVars
        BY <1>4
    <2>5. Accounting'
        BY <2>3, <2>4, AccountingKept
    <2> QED BY <2>1, <2>2, <2>5
<1>5. CASE Free
    <2> USE DEF Free, flagVars, workerVars, clientVars
    <2>1. queue' \in Seq(Tasks) /\ InQueue \subseteq Tasks
        <3>1. queue \in Seq(Tasks)
            BY DEF TypeOK
        <3>2. queue' = <<>> /\ queue \in [1..Len(queue) -> Tasks]
            BY <1>5, <3>1, LenProperties
        <3> QED BY <3>2, EmptySeq DEF InQueue
    <2>2. TypeOK'
        BY <1>5, <2>1 DEF TypeOK, OwnerPC
    <2>3. PhaseInv' /\ HandsInv' /\ DrainedAtExit'
        BY <1>5 DEF TypeOK, PhaseInv, HandsInv, DrainedAtExit, WorkersAt, At
    <2>4. Accounting'
        BY <1>5 DEF Accounting, WorkersAt, At
    <2> QED BY <2>2, <2>3, <2>4
<1>6. CASE Spurious
    <2> USE DEF Spurious, SpuriousWakeup, poolVars, flagVars, ownerVars, histVars
    <2>1. /\ wpc' \in [Workers -> WorkerPC]
          /\ \A w \in Workers : \/ wpc'[w] = wpc[w]
                                \/ wpc[w] = "asleep" /\ wpc'[w] = "top"
        BY <1>6 DEF TypeOK, WorkerPC
    <2>2. /\ cpc' \in [Clients -> ClientPC]
          /\ \A c \in Clients : \/ cpc'[c] = cpc[c]
                                \/ cpc[c] = "blocked" /\ cpc'[c] = "submit"
                                \/ cpc[c] = "idling" /\ cpc'[c] = "wait"
        BY <1>6 DEF TypeOK, ClientPC
    <2>3. TypeOK'
        BY <1>6, <2>1, <2>2 DEF TypeOK
    <2>4. PhaseInv' /\ HandsInv' /\ DrainedAtExit'
        BY <1>6, <2>1, <2>2
           DEF TypeOK, PhaseInv, HandsInv, DrainedAtExit, WorkersAt, At
    <2>5. At(wpc', {"run", "ran"}) = At(wpc, {"run", "ran"})
        BY <2>1 DEF TypeOK, At
    <2>6. Accounting'
        BY <1>6, <2>5 DEF Accounting, WorkersAt
    <2> QED BY <2>3, <2>4, <2>6
<1> QED BY <1>1, <1>2, <1>3, <1>4, <1>5, <1>6 DEF OwnerStep

\* The first layer holds in every reachable state.
THEOREM Layer1 == Spec => []Inv1
<1>1. Inv1 /\ [Next]_vars => Inv1'
    <2> SUFFICES ASSUME Inv1, [Next]_vars PROVE Inv1'
        OBVIOUS
    <2>1. CASE Next
        BY <2>1, Inv1Worker, Inv1Client, Inv1Owner DEF Next
    <2>2. CASE UNCHANGED vars
        BY <2>2 DEF vars, poolVars, flagVars, workerVars, clientVars, ownerVars,
              histVars, Inv1, TypeOK, PhaseInv, HandsInv, DrainedAtExit,
              Accounting, WorkersAt, At
    <2> QED BY <2>1, <2>2
<1> QED BY <1>1, Inv1Init, PTL DEF Spec

\* Every variable of the pool stays in its range.
THEOREM TypeCorrect == Spec => []TypeOK
BY Layer1, PTL DEF Inv1

\* The counters the wait loops test tell the truth about the queue and the
\* workers, and the queue stays within queue_size.
THEOREM CountersRight == Spec => []Accounting
BY Layer1, PTL DEF Inv1

\* Once a worker has left its loop the queue is empty, and stays so.
THEOREM QueueDrained == Spec => []DrainedAtExit
BY Layer1, PTL DEF Inv1

-----------------------------------------------------------------------------
(* Layer 2: no wakeup is lost.                                             *)

Inv2 == NoLostWorkerWakeup /\ NoLostSubmitterWakeup /\ NoForgottenWaiter

LEMMA Inv2Init == Init => Inv2
BY DEF Init, Inv2, NoLostWorkerWakeup, NoLostSubmitterWakeup, NoForgottenWaiter,
       WorkersAt, ClientsAt, At

\* The numbers of threads the invariants speak of are numbers.
LEMMA Counts ==
    ASSUME TypeOK, NEW S
    PROVE  /\ DOMAIN wpc = Workers /\ DOMAIN cpc = Clients
           /\ Cardinality(WorkersAt(S)) \in Nat
           /\ Cardinality(ClientsAt(S)) \in Nat
<1>1. DOMAIN wpc = Workers /\ DOMAIN cpc = Clients
    BY DEF TypeOK
<1> QED BY <1>1, AtFinite, WorkersAssumption, ClientsAssumption
           DEF WorkersAt, ClientsAt

\* The same for the next state.
LEMMA CountsNext ==
    ASSUME TypeOK', NEW S
    PROVE  /\ DOMAIN wpc' = Workers /\ DOMAIN cpc' = Clients
           /\ Cardinality(At(wpc', S)) \in Nat
           /\ Cardinality(At(cpc', S)) \in Nat
<1>1. DOMAIN wpc' = Workers /\ DOMAIN cpc' = Clients
    BY DEF TypeOK
<1> QED BY <1>1, AtFinite, WorkersAssumption, ClientsAssumption

\* cond_not_empty, seen from the workers.
LEMMA WorkerWakeupWorker ==
    ASSUME TypeOK, TypeOK', NoLostWorkerWakeup, NEW w \in Workers, WorkerStep(w)
    PROVE  NoLostWorkerWakeup'
<1> USE DEF NoLostWorkerWakeup, WorkersAt
<1>1. /\ Cardinality(At(wpc, {"top"})) \in Nat
      /\ Cardinality(At(wpc', {"top"})) \in Nat
    BY Counts, CountsNext
<1>2. Moves(Workers, wpc, wpc', w)
    BY DEF TypeOK, Moves, WorkerStep, WorkerSleep, WorkerExit, WorkerTake,
           WorkerRun, WorkerFinish
<1>3. queue_count \in Nat /\ IsFiniteSet(Workers)
    BY WorkersAssumption DEF TypeOK
<1>4. CASE WorkerSleep(w) \/ WorkerExit(w)
    BY <1>4, <1>1 DEF WorkerSleep, WorkerExit, poolVars
<1>5. CASE WorkerTake(w)
    <2>1. wpc[w] = "top" /\ wpc'[w] = "run" /\ queue_count' = queue_count - 1
        BY <1>5 DEF TypeOK, WorkerTake
    <2>2. At(wpc', {"asleep"}) = At(wpc, {"asleep"})
        BY <2>1, <1>2, MoveElsewhere
    <2>3. Cardinality(At(wpc', {"top"})) = Cardinality(At(wpc, {"top"})) - 1
        BY <2>1, <1>2, <1>3, MoveOut
    <2> QED BY <1>1, <1>3, <2>1, <2>2, <2>3
<1>6. CASE WorkerRun(w)
    <2>1. wpc[w] = "run" /\ wpc'[w] = "ran" /\ queue_count' = queue_count
        BY <1>6 DEF TypeOK, WorkerRun, poolVars
    <2>2. /\ At(wpc', {"asleep"}) = At(wpc, {"asleep"})
          /\ At(wpc', {"top"}) = At(wpc, {"top"})
        BY <2>1, <1>2, MoveElsewhere
    <2> QED BY <2>1, <2>2
<1>7. CASE WorkerFinish(w)
    <2>1. wpc[w] = "ran" /\ wpc'[w] = "top" /\ queue_count' = queue_count
        BY <1>7 DEF TypeOK, WorkerFinish
    <2>2. At(wpc', {"asleep"}) = At(wpc, {"asleep"})
        BY <2>1, <1>2, MoveElsewhere
    <2>3. Cardinality(At(wpc', {"top"})) = Cardinality(At(wpc, {"top"})) + 1
        BY <2>1, <1>2, <1>3, MoveIn
    <2> QED BY <1>1, <1>3, <2>1, <2>2, <2>3
<1> QED BY <1>4, <1>5, <1>6, <1>7 DEF WorkerStep

\* cond_not_empty, seen from the others.
LEMMA WorkerWakeupOther ==
    ASSUME TypeOK, TypeOK', NoLostWorkerWakeup,
           \/ \E c \in Clients : \/ ClientStep(c) \/ WaitEnter(c)
                                 \/ \E t \in Tasks : SubmitEnter(c, t)
           \/ OwnerStep \/ Start \/ Stop \/ Free \/ Spurious
    PROVE  NoLostWorkerWakeup'
<1> USE DEF NoLostWorkerWakeup, WorkersAt
<1>1. /\ Cardinality(At(wpc, {"top"})) \in Nat
      /\ Cardinality(At(wpc', {"top"})) \in Nat
      /\ DOMAIN wpc = Workers /\ wpc \in [Workers -> WorkerPC]
    BY Counts, CountsNext DEF TypeOK
<1>2. queue_count \in Nat /\ IsFiniteSet(Workers)
    BY WorkersAssumption DEF TypeOK
<1>3. CASE \E c \in Clients : SubmitPush(c)
    <2>1. wpc' \in WakeOne(wpc, "asleep", "top") /\ queue_count' = queue_count + 1
        BY <1>3 DEF SubmitPush
    <2>2. \/ wpc' = wpc /\ At(wpc', {"asleep"}) = {}
          \/ Cardinality(At(wpc', {"top"})) = Cardinality(At(wpc, {"top"})) + 1
        BY <2>1, <1>1, <1>2, WakeOneCounts
    <2>3. At(wpc, {"asleep"}) = {} => At(wpc', {"asleep"}) = {}
        BY <2>1 DEF WakeOne, At
    <2> QED BY <1>1, <1>2, <2>1, <2>2, <2>3
<1>4. CASE UNCHANGED <<wpc, queue_count>>
    BY <1>4
<1>5. CASE \E w \in Workers :
             /\ wpc[w] \in {"none", "asleep"} /\ wpc' = [wpc EXCEPT ![w] = "top"]
             /\ queue_count' = queue_count
    <2>0. PICK w \in Workers :
             /\ wpc[w] \in {"none", "asleep"} /\ wpc' = [wpc EXCEPT ![w] = "top"]
             /\ queue_count' = queue_count
        BY <1>5
    <2>1. /\ Moves(Workers, wpc, wpc', w)
          /\ wpc[w] \notin {"top"} /\ wpc'[w] \in {"top"}
          /\ queue_count' = queue_count
        BY <2>0, <1>1 DEF Moves
    <2>2. Cardinality(At(wpc', {"top"})) = Cardinality(At(wpc, {"top"})) + 1
        BY <2>1, <1>2, MoveIn
    <2>3. At(wpc, {"asleep"}) = {} => At(wpc', {"asleep"}) = {}
        BY <2>0, <1>1 DEF At
    <2> QED BY <1>1, <1>2, <2>1, <2>2, <2>3
<1>6. CASE CreateFails \/ Stop
    BY <1>6 DEF CreateFails, Stop, RequestStop, WakeAll, At
<1>7. CASE StartFailed \/ Stopped
    BY <1>7 DEF StartFailed, Stopped, JoinWorkers, At
<1>8. \/ \E c \in Clients : SubmitPush(c)
      \/ UNCHANGED <<wpc, queue_count>>
      \/ \E w \in Workers :
             /\ wpc[w] \in {"none", "asleep"} /\ wpc' = [wpc EXCEPT ![w] = "top"]
             /\ queue_count' = queue_count
      \/ CreateFails \/ Stop \/ StartFailed \/ Stopped
    BY DEF ClientStep, SubmitBlock, SubmitCancel, SubmitNoMem, SubmitGiveUp,
           WaitSleep, WaitReturn, WaitEnter, SubmitEnter, OwnerStep, CreateWorker,
           Started, Start, Free, Spurious, SpuriousWakeup, poolVars, workerVars
<1> QED BY <1>3, <1>4, <1>5, <1>6, <1>7, <1>8

\* cond_idle.
LEMMA IdleWakeup ==
    ASSUME TypeOK, NoForgottenWaiter, Next
    PROVE  NoForgottenWaiter'
<1> USE DEF NoForgottenWaiter, ClientsAt, Busy
<1>1. /\ queue_count \in Nat /\ stat_active \in Nat
      /\ cpc \in [Clients -> ClientPC]
    BY DEF TypeOK
<1>2. CASE \E w \in Workers : WorkerTake(w)
    BY <1>1, <1>2 DEF WorkerTake
<1>3. CASE \E c \in Clients : SubmitPush(c)
    BY <1>1, <1>3 DEF SubmitPush
<1>4. CASE \E w \in Workers : WorkerFinish(w)
    <2>1. PICK w \in Workers : WorkerFinish(w)
        BY <1>4
    <2>2. stat_active' = stat_active - 1 /\ queue_count' = queue_count
        BY <2>1 DEF WorkerFinish
    <2>3. CASE queue_count = 0 /\ stat_active' = 0
        BY <2>1, <2>3 DEF WorkerFinish, BroadcastIdle, WakeAll, At
    <2>4. CASE ~(queue_count = 0 /\ stat_active' = 0)
        <3>1. cpc' = cpc
            BY <2>1, <2>4 DEF WorkerFinish, BroadcastIdle
        <3>2. CASE queue_count > 0
            BY <3>2, <2>2
        <3>3. CASE queue_count = 0
            BY <3>1, <3>3, <2>2, <2>4, <1>1
        <3> QED BY <3>2, <3>3, <1>1
    <2> QED BY <2>3, <2>4
<1>5. CASE \E c \in Clients : WaitSleep(c)
    BY <1>1, <1>5 DEF WaitSleep, poolVars
<1>6. CASE /\ UNCHANGED <<queue_count, stat_active>>
           /\ \/ UNCHANGED cpc
              \/ \E c \in Clients, v \in ClientPC \ {"idling"} :
                     cpc' = [cpc EXCEPT ![c] = v]
    BY <1>1, <1>6 DEF At
<1>7. \/ \E w \in Workers : WorkerTake(w) \/ WorkerFinish(w)
      \/ \E c \in Clients : SubmitPush(c) \/ WaitSleep(c)
      \/ /\ UNCHANGED <<queue_count, stat_active>>
         /\ \/ UNCHANGED cpc
            \/ \E c \in Clients, v \in ClientPC \ {"idling"} :
                   cpc' = [cpc EXCEPT ![c] = v]
    BY DEF Next, WorkerStep, WorkerSleep, WorkerExit, WorkerRun, ClientStep,
           SubmitBlock, SubmitCancel, SubmitNoMem, SubmitGiveUp, WaitReturn,
           WaitEnter, SubmitEnter, OwnerStep, CreateWorker, CreateFails, Started,
           StartFailed, Stopped, Start, Stop, Free, Spurious, SpuriousWakeup,
           poolVars, clientVars, ClientPC
<1> QED BY <1>2, <1>3, <1>4, <1>5, <1>6, <1>7

\* cond_not_full.
LEMMA SubmitterWakeup ==
    ASSUME TypeOK, TypeOK', NoLostSubmitterWakeup, Next
    PROVE  NoLostSubmitterWakeup'
<1> USE DEF NoLostSubmitterWakeup, ClientsAt
<1>1. /\ queue_count \in Nat /\ IsFiniteSet(Clients) /\ QueueSize \in Nat
      /\ Cardinality(At(cpc, {"submit"})) \in Nat
      /\ Cardinality(At(cpc', {"submit"})) \in Nat
      /\ DOMAIN cpc = Clients /\ cpc \in [Clients -> ClientPC]
    BY ClientsAssumption, QueueSizeAssumption, Counts, CountsNext DEF TypeOK
<1>2. CASE \E w \in Workers : WorkerTake(w)
    <2>1. /\ cpc' \in WakeOne(cpc, "blocked", "submit")
          /\ queue_count' = queue_count - 1 /\ abandoned' = abandoned
        BY <1>2 DEF WorkerTake, SignalNotFull, histVars
    <2>2. \/ cpc' = cpc /\ At(cpc', {"blocked"}) = {}
          \/ Cardinality(At(cpc', {"submit"})) = Cardinality(At(cpc, {"submit"})) + 1
        BY <2>1, <1>1, WakeOneCounts
    <2>3. At(cpc, {"blocked"}) = {} => At(cpc', {"blocked"}) = {}
        BY <2>1 DEF WakeOne, At
    <2> QED BY <1>1, <2>1, <2>2, <2>3
<1>3. CASE \E w \in Workers : WorkerFinish(w)
    <2>1. /\ queue_count' = queue_count /\ abandoned' = abandoned
          /\ cpc' = cpc \/ cpc' = WakeAll(cpc, "idling", "wait")
        BY <1>3 DEF WorkerFinish, BroadcastIdle, histVars
    <2>2. /\ At(cpc', {"blocked"}) = At(cpc, {"blocked"})
          /\ At(cpc', {"submit"}) = At(cpc, {"submit"})
        BY <2>1, <1>1 DEF WakeAll, At
    <2> QED BY <2>1, <2>2
<1>4. CASE \E c \in Clients : SubmitPush(c)
    <2>1. PICK c \in Clients : SubmitPush(c)
        BY <1>4
    <2>2. /\ Moves(Clients, cpc, cpc', c) /\ cpc[c] = "submit" /\ cpc'[c] = "out"
          /\ queue_count' = queue_count + 1 /\ abandoned' = abandoned
        BY <2>1, <1>1 DEF SubmitPush, Moves
    <2>3. At(cpc', {"blocked"}) = At(cpc, {"blocked"})
        BY <2>2, MoveElsewhere
    <2>4. Cardinality(At(cpc', {"submit"})) = Cardinality(At(cpc, {"submit"})) - 1
        BY <2>2, <1>1, MoveOut
    <2> QED BY <1>1, <2>2, <2>3, <2>4
<1>5. CASE \E c \in Clients : SubmitBlock(c)
    BY <1>1, <1>5 DEF SubmitBlock, Full, poolVars
<1>6. CASE \E c \in Clients : SubmitGiveUp(c)
    BY <1>6 DEF SubmitGiveUp
<1>7. CASE /\ UNCHANGED <<queue_count, abandoned>>
           /\ \E c \in Clients : /\ cpc[c] \in {"out", "blocked"}
                                 /\ cpc' = [cpc EXCEPT ![c] = "submit"]
    <2>1. PICK c \in Clients : /\ cpc[c] \in {"out", "blocked"}
                               /\ cpc' = [cpc EXCEPT ![c] = "submit"]
        BY <1>7
    <2>2. /\ Moves(Clients, cpc, cpc', c)
          /\ cpc[c] \notin {"submit"} /\ cpc'[c] \in {"submit"}
        BY <2>1, <1>1 DEF Moves
    <2>3. Cardinality(At(cpc', {"submit"})) = Cardinality(At(cpc, {"submit"})) + 1
        BY <2>2, <1>1, MoveIn
    <2>4. At(cpc, {"blocked"}) = {} => At(cpc', {"blocked"}) = {}
        BY <2>1, <1>1 DEF At
    <2>5. queue_count' = queue_count /\ abandoned' = abandoned
        BY <1>7
    <2> QED BY <1>1, <2>3, <2>4, <2>5
<1>8. CASE /\ UNCHANGED <<queue_count, abandoned>>
           /\ \/ UNCHANGED cpc
              \/ \E c \in Clients, v \in {"out", "wait", "idling"} :
                     /\ cpc[c] \in {"out", "wait", "idling"}
                     /\ cpc' = [cpc EXCEPT ![c] = v]
    <2>1. /\ At(cpc', {"blocked"}) = At(cpc, {"blocked"})
          /\ At(cpc', {"submit"}) = At(cpc, {"submit"})
        BY <1>1, <1>8 DEF At
    <2> QED BY <1>8, <2>1
<1>9. \/ \E w \in Workers : WorkerTake(w) \/ WorkerFinish(w)
      \/ \E c \in Clients : SubmitPush(c) \/ SubmitBlock(c) \/ SubmitGiveUp(c)
      \/ /\ UNCHANGED <<queue_count, abandoned>>
         /\ \E c \in Clients : /\ cpc[c] \in {"out", "blocked"}
                               /\ cpc' = [cpc EXCEPT ![c] = "submit"]
      \/ /\ UNCHANGED <<queue_count, abandoned>>
         /\ \/ UNCHANGED cpc
            \/ \E c \in Clients, v \in {"out", "wait", "idling"} :
                   /\ cpc[c] \in {"out", "wait", "idling"}
                   /\ cpc' = [cpc EXCEPT ![c] = v]
    BY DEF Next, WorkerStep, WorkerSleep, WorkerExit, WorkerRun, ClientStep,
           SubmitCancel, SubmitNoMem, WaitSleep, WaitReturn, WaitEnter,
           SubmitEnter, OwnerStep, CreateWorker, CreateFails, Started,
           StartFailed, Stopped, Start, Stop, Free, Spurious, SpuriousWakeup,
           poolVars, clientVars, histVars
<1> QED BY <1>2, <1>3, <1>4, <1>5, <1>6, <1>7, <1>8, <1>9

\* The second layer holds in every reachable state.
THEOREM Layer2 == Spec => []Inv2
<1>1. Inv1 /\ Inv1' /\ Inv2 /\ [Next]_vars => Inv2'
    <2> SUFFICES ASSUME Inv1, Inv1', Inv2, [Next]_vars PROVE Inv2'
        OBVIOUS
    <2> USE DEF Inv1, Inv2
    <2>1. CASE Next
        <3>1. NoLostWorkerWakeup'
            BY <2>1, WorkerWakeupWorker, WorkerWakeupOther DEF Next
        <3> QED BY <2>1, <3>1, IdleWakeup, SubmitterWakeup
    <2>2. CASE UNCHANGED vars
        BY <2>2 DEF vars, poolVars, workerVars, clientVars, histVars,
              NoLostWorkerWakeup, NoLostSubmitterWakeup, NoForgottenWaiter,
              WorkersAt, ClientsAt, Busy
    <2> QED BY <2>1, <2>2
<1> QED BY <1>1, Inv2Init, Layer1, PTL DEF Spec

\* While a worker sleeps on cond_not_empty every queued task has a worker of
\* its own on the way to it.
THEOREM WorkersWoken == Spec => []NoLostWorkerWakeup
BY Layer2, PTL DEF Inv2

\* While a submitter sleeps on cond_not_full every free slot has a submitter
\* on the way to it, unless one left without using the slot it was woken for.
THEOREM SubmittersWoken == Spec => []NoLostSubmitterWakeup
BY Layer2, PTL DEF Inv2

\* Nobody sleeps on cond_idle with nothing left to wait for.
THEOREM WaitersWoken == Spec => []NoForgottenWaiter
BY Layer2, PTL DEF Inv2

\* No wakeup on any of the three condition variables is lost.
THEOREM NoWakeupIsLost == Spec => []NoLostWakeups
BY Layer2, PTL DEF Inv2, NoLostWakeups

-----------------------------------------------------------------------------
(* Layer 3: where every task is.                                           *)

Elements(s) == {s[i] : i \in DOMAIN s}
Distinct(s) == \A i, j \in DOMAIN s : s[i] = s[j] => i = j

\* What pop does to the tasks in the queue.
LEMMA TailElements ==
    ASSUME NEW S, NEW s \in Seq(S), s # <<>>, Distinct(s)
    PROVE  /\ Head(s) \in Elements(s)
           /\ Elements(Tail(s)) = Elements(s) \ {Head(s)}
           /\ Distinct(Tail(s))
<1>1. /\ Len(s) \in Nat /\ Len(s) > 0 /\ DOMAIN s = 1..Len(s) /\ Head(s) = s[1]
    BY LenProperties, EmptySeq DEF Head
<1>2. /\ Tail(s) \in Seq(S) /\ Len(Tail(s)) = Len(s) - 1
      /\ \A i \in 1..Len(Tail(s)) : Tail(s)[i] = s[i + 1]
    BY HeadTailProperties
<1>3. DOMAIN Tail(s) = 1..(Len(s) - 1)
    BY <1>2, LenProperties
<1>4. Head(s) \in Elements(s)
    BY <1>1 DEF Elements
<1>5. Distinct(Tail(s))
    BY <1>1, <1>2, <1>3 DEF Distinct
<1>6. ASSUME NEW e \in Elements(Tail(s))
      PROVE  e \in Elements(s) /\ e # Head(s)
    <2>1. PICK i \in 1..(Len(s) - 1) : e = s[i + 1]
        BY <1>2, <1>3 DEF Elements
    <2>2. i + 1 \in DOMAIN s /\ 1 \in DOMAIN s /\ i + 1 # 1
        BY <1>1, <2>1
    <2> QED BY <1>1, <2>1, <2>2 DEF Elements, Distinct
<1>7. ASSUME NEW e \in Elements(s), e # Head(s)
      PROVE  e \in Elements(Tail(s))
    <2>1. PICK i \in 1..Len(s) : e = s[i]
        BY <1>1 DEF Elements
    <2>2. i - 1 \in 1..(Len(s) - 1) /\ Tail(s)[i - 1] = s[(i - 1) + 1]
        BY <1>1, <1>2, <1>7, <2>1
    <2>3. (i - 1) + 1 = i
        BY <2>1
    <2> QED BY <1>3, <2>1, <2>2, <2>3 DEF Elements
<1> QED BY <1>4, <1>5, <1>6, <1>7

\* What push does to them.
LEMMA AppendElements ==
    ASSUME NEW S, NEW s \in Seq(S), NEW e \in S
    PROVE  /\ Elements(Append(s, e)) = Elements(s) \cup {e}
           /\ e \notin Elements(s) /\ Distinct(s) => Distinct(Append(s, e))
<1>1. /\ Append(s, e) \in Seq(S) /\ Len(Append(s, e)) = Len(s) + 1
      /\ \A i \in 1..Len(s) : Append(s, e)[i] = s[i]
      /\ Append(s, e)[Len(s) + 1] = e
    BY AppendProperties
<1>2. /\ Len(s) \in Nat /\ DOMAIN s = 1..Len(s)
      /\ DOMAIN Append(s, e) = 1..(Len(s) + 1)
    BY <1>1, LenProperties
<1>3. Elements(Append(s, e)) = Elements(s) \cup {e}
    BY <1>1, <1>2 DEF Elements
<1>4. ASSUME e \notin Elements(s), Distinct(s),
             NEW i \in 1..(Len(s) + 1), NEW j \in 1..(Len(s) + 1),
             Append(s, e)[i] = Append(s, e)[j]
      PROVE  i = j
    <2>1. (i \in 1..Len(s) \/ i = Len(s) + 1) /\ (j \in 1..Len(s) \/ j = Len(s) + 1)
        BY <1>2
    <2>2. \A k \in 1..Len(s) : s[k] # e
        BY <1>2, <1>4 DEF Elements
    <2> QED BY <1>1, <1>2, <1>4, <2>1, <2>2 DEF Distinct
<1> QED BY <1>2, <1>3, <1>4 DEF Distinct

\* The task objects in the clients' hands are new, nobody else has them.
FreshInv ==
    /\ \A c \in Clients : ctask[c] # NoTask => ctask[c] \notin accepted
    /\ \A c, d \in Clients : ctask[c] = ctask[d] /\ ctask[c] # NoTask => c = d

\* Nothing was thrown away before free, and only accepted tasks are owed.
HistoryInv ==
    /\ opc # "freed" => dropped = {}
    /\ \A c \in Clients : owed[c] \subseteq accepted

Inv3 == Conservation /\ FreshInv /\ HistoryInv

LEMMA Inv3Init == Init => Inv3
<1> SUFFICES ASSUME Init PROVE Inv3
    OBVIOUS
<1>1. InQueue = {} /\ InHand = {} /\ NoDuplicates
    <2>1. DOMAIN queue = {}
        BY EmptySeq, LenProperties DEF Init
    <2> QED BY <2>1 DEF Init, InQueue, InHand, NoDuplicates
<1> QED BY <1>1 DEF Init, Inv3, Conservation, FreshInv, HistoryInv

\* The steps that neither move a task nor write the history.
LEMMA Inv3Kept ==
    ASSUME Inv3, opc' # "freed", opc # "freed",
           UNCHANGED <<queue, wtask, ctask, accepted, executed, dropped, owed>>
    PROVE  Inv3'
BY DEF Inv3, Conservation, FreshInv, HistoryInv, NoDuplicates, InQueue, InHand

\* Workers.
LEMMA Inv3Worker ==
    ASSUME Inv1, Inv3, NEW w \in Workers, WorkerStep(w)
    PROVE  Inv3'
<1> USE DEF Inv3
<1>0. opc # "freed" /\ opc' = opc
    BY DEF WorkerStep, WorkerSleep, WorkerExit, WorkerTake, WorkerRun,
           WorkerFinish, Inv1, PhaseInv, ownerVars
<1>1. CASE WorkerSleep(w) \/ WorkerExit(w) \/ WorkerFinish(w)
    BY <1>1, <1>0, Inv3Kept DEF WorkerSleep, WorkerExit, WorkerFinish, poolVars,
          clientVars, histVars
<1>2. CASE WorkerTake(w)
    <2>1. queue # <<>> /\ queue \in Seq(Tasks) /\ Distinct(queue)
        BY <1>2, <1>0, EmptySeq
           DEF WorkerTake, Inv1, Accounting, TypeOK, Conservation, NoDuplicates, Distinct
    <2>2. /\ Head(queue) \in InQueue /\ Distinct(queue')
          /\ InQueue' = InQueue \ {Head(queue)}
        BY <1>2, <2>1, TailElements DEF WorkerTake, Elements, InQueue
    <2>3. /\ wtask' = [wtask EXCEPT ![w] = Head(queue)] /\ wtask[w] = NoTask
          /\ wtask \in [Workers -> Tasks \cup {NoTask}]
          /\ Head(queue) \in Tasks /\ Head(queue) # NoTask
        BY <1>2, <2>1, HeadTailProperties, NoTaskAssumption
           DEF WorkerTake, Inv1, HandsInv, TypeOK
    <2>4. InHand' = InHand \cup {Head(queue)}
        BY <2>3 DEF InHand
    <2>5. NoDuplicates'
        <3>1. Head(queue) \notin InHand
            BY <2>2 DEF Conservation
        <3>2. \A u, v \in Workers : wtask'[u] = wtask'[v] /\ wtask'[u] # NoTask => u = v
            BY <3>1, <2>3 DEF Conservation, NoDuplicates, InHand
        <3> QED BY <3>2, <2>2 DEF NoDuplicates, Distinct
    <2>6. UNCHANGED <<ctask, accepted, executed, dropped, owed>>
        BY <1>2 DEF WorkerTake, histVars
    <2>7. Conservation'
        BY <2>2, <2>4, <2>5, <2>6 DEF Conservation
    <2> QED BY <1>0, <2>6, <2>7 DEF FreshInv, HistoryInv
<1>3. CASE WorkerRun(w)
    <2>1. /\ wtask' = [wtask EXCEPT ![w] = NoTask]
          /\ wtask \in [Workers -> Tasks \cup {NoTask}]
          /\ wtask[w] \in InHand /\ wtask[w] # NoTask
          /\ executed' = executed \cup {wtask[w]}
        BY <1>3 DEF WorkerRun, Inv1, TypeOK, HandsInv, InHand
    <2>2. UNCHANGED <<queue, ctask, accepted, dropped, owed>>
        BY <1>3 DEF WorkerRun, poolVars, clientVars
    <2>3. InHand' = InHand \ {wtask[w]}
        BY <2>1 DEF InHand, Conservation, NoDuplicates
    <2>4. NoDuplicates' /\ InQueue' = InQueue
        BY <2>1, <2>2 DEF Conservation, NoDuplicates, InQueue
    <2>5. Conservation'
        BY <2>1, <2>2, <2>3, <2>4 DEF Conservation
    <2> QED BY <1>0, <2>2, <2>5 DEF FreshInv, HistoryInv
<1> QED BY <1>1, <1>2, <1>3 DEF WorkerStep

\* Clients.
LEMMA Inv3Client ==
    ASSUME Inv1, Inv3, NEW c \in Clients,
           ClientStep(c) \/ WaitEnter(c) \/ \E t \in Tasks : SubmitEnter(c, t)
    PROVE  Inv3'
<1> USE DEF Inv3
<1>0. opc # "freed" /\ opc' = opc
    BY DEF ClientStep, SubmitBlock, SubmitCancel, SubmitNoMem, SubmitGiveUp,
           SubmitPush, WaitSleep, WaitReturn, WaitEnter, SubmitEnter, Inv1,
           PhaseInv, ownerVars
<1>1. CASE SubmitPush(c)
    <2>1. /\ ctask[c] \in Tasks /\ ctask[c] \notin accepted
          /\ queue \in Seq(Tasks) /\ ctask \in [Clients -> Tasks \cup {NoTask}]
        BY <1>1 DEF SubmitPush, Inv1, TypeOK, HandsInv, FreshInv
    <2>2. Distinct(queue) /\ ctask[c] \notin Elements(queue)
        BY <2>1 DEF Conservation, NoDuplicates, Distinct, Elements, InQueue
    <2>3. InQueue' = InQueue \cup {ctask[c]} /\ Distinct(queue')
        <3>1. queue' = Append(queue, ctask[c])
            BY <1>1 DEF SubmitPush
        <3> QED BY <3>1, <2>1, <2>2, AppendElements DEF Elements, InQueue
    <2>4. /\ UNCHANGED <<wtask, executed, dropped, owed>>
          /\ accepted' = accepted \cup {ctask[c]}
          /\ ctask' = [ctask EXCEPT ![c] = NoTask]
        BY <1>1 DEF SubmitPush
    <2>5. NoDuplicates' /\ InHand' = InHand
        BY <2>3, <2>4 DEF Conservation, NoDuplicates, Distinct, InHand
    <2>6. Conservation'
        BY <2>1, <2>3, <2>4, <2>5 DEF Conservation
    <2>7. FreshInv'
        BY <2>1, <2>4 DEF FreshInv
    <2>8. HistoryInv'
        BY <1>0, <2>4 DEF HistoryInv
    <2> QED BY <2>6, <2>7, <2>8
<1>2. CASE SubmitBlock(c) \/ WaitSleep(c)
    BY <1>2, <1>0, Inv3Kept DEF SubmitBlock, WaitSleep, poolVars, workerVars, histVars
<1>3. CASE SubmitCancel(c) \/ SubmitNoMem(c) \/ \E t \in Tasks : SubmitEnter(c, t)
    <2>1. UNCHANGED <<queue, wtask, accepted, executed, dropped, owed>>
        BY <1>3 DEF SubmitCancel, SubmitNoMem, SubmitGiveUp, SubmitEnter, poolVars,
              workerVars, histVars
    <2>2. Conservation' /\ HistoryInv'
        BY <2>1, <1>0 DEF Conservation, NoDuplicates, InQueue, InHand, HistoryInv
    <2>3. ctask \in [Clients -> Tasks \cup {NoTask}]
        BY DEF Inv1, TypeOK
    <2>4. FreshInv'
        BY <1>3, <2>1, <2>3, NoTaskAssumption
           DEF SubmitCancel, SubmitNoMem, SubmitGiveUp, SubmitEnter, FreshInv
    <2> QED BY <2>2, <2>4
<1>4. CASE WaitEnter(c) \/ WaitReturn(c)
    <2>1. UNCHANGED <<queue, wtask, ctask, accepted, executed, dropped>>
        BY <1>4 DEF WaitEnter, WaitReturn, poolVars, workerVars
    <2>2. Conservation' /\ FreshInv'
        BY <2>1 DEF Conservation, NoDuplicates, InQueue, InHand, FreshInv
    <2>3. owed \in [Clients -> SUBSET Tasks]
        BY DEF Inv1, TypeOK
    <2>4. HistoryInv'
        BY <1>0, <1>4, <2>1, <2>3 DEF WaitEnter, WaitReturn, HistoryInv
    <2> QED BY <2>2, <2>4
<1> QED BY <1>1, <1>2, <1>3, <1>4 DEF ClientStep

\* The owner, and spurious wakeups.
LEMMA Inv3Owner ==
    ASSUME Inv1, Inv3, OwnerStep \/ Start \/ Stop \/ Free \/ Spurious
    PROVE  Inv3'
<1> USE DEF Inv3
<1>1. CASE OwnerStep \/ Start \/ Stop
    BY <1>1, Inv3Kept DEF OwnerStep, CreateWorker, CreateFails, Started,
          StartFailed, Stopped, Start, Stop, poolVars, workerVars, clientVars,
          histVars, ownerVars
<1>2. CASE Spurious
    BY <1>2 DEF Spurious, poolVars, ownerVars, histVars, Conservation, FreshInv,
          HistoryInv, NoDuplicates, InQueue, InHand
<1>3. CASE Free
    <2>1. /\ dropped' = dropped \cup InQueue
          /\ UNCHANGED <<wtask, ctask, accepted, executed, owed>>
        BY <1>3 DEF Free, workerVars, clientVars
    <2>2. DOMAIN queue' = {}
        BY <1>3, EmptySeq, LenProperties DEF Free
    <2>3. InQueue' = {} /\ InHand' = InHand /\ NoDuplicates'
        BY <2>1, <2>2 DEF InQueue, InHand, Conservation, NoDuplicates
    <2>4. Conservation'
        BY <2>1, <2>3 DEF Conservation
    <2>5. FreshInv' /\ HistoryInv'
        BY <1>3, <2>1 DEF FreshInv, HistoryInv, Free
    <2> QED BY <2>4, <2>5
<1> QED BY <1>1, <1>2, <1>3

\* The third layer holds in every reachable state.
THEOREM Layer3 == Spec => []Inv3
<1>1. Inv1 /\ Inv3 /\ [Next]_vars => Inv3'
    <2> SUFFICES ASSUME Inv1, Inv3, [Next]_vars PROVE Inv3'
        OBVIOUS
    <2>1. CASE Next
        BY <2>1, Inv3Worker, Inv3Client, Inv3Owner DEF Next
    <2>2. CASE UNCHANGED vars
        BY <2>2 DEF vars, poolVars, workerVars, clientVars, ownerVars, histVars,
              Inv3, Conservation, FreshInv, HistoryInv, NoDuplicates, InQueue, InHand
    <2> QED BY <2>1, <2>2
<1> QED BY <1>1, Inv3Init, Layer1, PTL DEF Spec

\* An accepted task is in exactly one place: none is lost, none runs twice.
THEOREM TasksConserved == Spec => []Conservation
BY Layer3, PTL DEF Inv3

\* The counters and the tasks add up, through failed starts, stops and restarts.
THEOREM BooksAlwaysBalance == Spec => []BooksBalance
BY CountersRight, TasksConserved, PTL DEF BooksBalance

-----------------------------------------------------------------------------
(* Layer 4: what the calls promise.                                        *)

\* With nothing queued and nobody running a task, every accepted task is done.
LEMMA AllDone ==
    ASSUME Inv1, Inv3, opc # "freed", queue_count = 0,
           \A w \in Workers : wpc[w] # "run"
    PROVE  accepted = executed \cup dropped
<1>1. InHand = {}
    BY DEF Inv1, HandsInv, InHand
<1>2. InQueue = {}
    <2>1. queue \in Seq(Tasks) /\ Len(queue) = 0
        BY DEF Inv1, TypeOK, Accounting
    <2>2. DOMAIN queue = {}
        BY <2>1, LenProperties
    <2> QED BY <2>2 DEF InQueue
<1> QED BY <1>1, <1>2 DEF Inv3, Conservation

\* The counter of active tasks vanishes only when nobody runs one.
LEMMA NobodyRuns ==
    ASSUME Inv1, stat_active = 0
    PROVE  \A w \in Workers : wpc[w] # "run"
<1>1. IsFiniteSet(WorkersAt({"run", "ran"}))
    BY AtFinite, WorkersAssumption DEF WorkersAt, Inv1, TypeOK
<1>2. WorkersAt({"run", "ran"}) = {}
    BY <1>1, FS_EmptySet DEF Inv1, Accounting
<1> QED BY <1>2 DEF WorkersAt, At, Inv1, TypeOK

\* What wait finds when it returns: the pool is done with every task it took.
LEMMA WaitReturnDone ==
    ASSUME Inv1, Inv3, NEW c \in Clients, WaitReturn(c)
    PROVE  accepted = executed \cup dropped
<1>1. queue_count = 0 /\ stat_active = 0 /\ opc # "freed"
    BY DEF WaitReturn, Busy, Inv1, TypeOK, PhaseInv
<1> QED BY <1>1, NobodyRuns, AllDone

\* wait returns only when every task that was unfinished at the call has been
\* executed.
THEOREM WaitBarrier == Spec => WaitIsBarrier
<1>1. Inv1 /\ Inv3 /\ [Next]_vars
        => [\A c \in Clients : WaitReturn(c) => owed[c] \subseteq executed \cup dropped]_vars
    <2> SUFFICES ASSUME Inv1, Inv3, NEW c \in Clients, WaitReturn(c)
                 PROVE  owed[c] \subseteq executed \cup dropped
        OBVIOUS
    <2> QED BY WaitReturnDone DEF Inv3, HistoryInv
<1> QED BY <1>1, Layer1, Layer3, PTL DEF Spec, WaitIsBarrier

\* stop returns only when every accepted task was executed.
THEOREM StopDrainsQueue == Spec => StopDrains
<1>1. Inv1 /\ Inv3 /\ [Next]_vars => [Stopped => accepted \subseteq executed]_vars
    <2> SUFFICES ASSUME Inv1, Inv3, Stopped
                 PROVE  accepted \subseteq executed
        OBVIOUS
    <2>1. /\ opc # "freed" /\ running
          /\ \A w \in Workers : wpc[w] \in {"none", "exited"} /\ wpc[w] # "none"
        BY DEF Stopped, JoinWorkers, Inv1, PhaseInv
    <2>2. WorkersAt({"exited"}) # {}
        BY <2>1, WorkersAssumption DEF WorkersAt, At, Inv1, TypeOK
    <2>3. queue_count = 0
        BY <2>2 DEF Inv1, DrainedAtExit
    <2>4. accepted = executed \cup dropped
        BY <2>1, <2>3, AllDone
    <2> QED BY <2>1, <2>4 DEF Inv3, HistoryInv
<1> QED BY <1>1, Layer1, Layer3, PTL DEF Spec, StopDrains

\* The pool implements the promise of module TaskPool to its clients.
THEOREM Refinement == Spec => ImplementsTaskPool
<1> DEFINE open == accepted \ (executed \cup dropped)
           inWait == ClientsAt({"wait", "idling"})
<1>1. Init => Promise!Init
    BY DEF Init, Promise!Init, ClientsAt, At
<1>2. ASSUME Inv1, Inv1', Inv3, Inv3', [Next]_vars
      PROVE  [Promise!Next]_(Promise!vars)
    <2> USE <1>2
    <2>0. cpc \in [Clients -> ClientPC] /\ owed \in [Clients -> SUBSET Tasks]
        BY DEF Inv1, TypeOK
    <2>1. CASE UNCHANGED <<accepted, executed, dropped, owed, inWait>>
        BY <2>1 DEF Promise!vars
    <2>2. CASE \E c \in Clients : SubmitPush(c)
        <3>1. PICK c \in Clients : SubmitPush(c)
            BY <2>2
        <3>2. /\ ctask[c] \in Tasks /\ ctask[c] \notin accepted
              /\ accepted' = accepted \cup {ctask[c]}
              /\ UNCHANGED <<executed, dropped, owed>>
            BY <3>1 DEF SubmitPush, Inv1, TypeOK, HandsInv, Inv3, FreshInv
        <3>3. UNCHANGED inWait
            BY <3>1, <2>0 DEF SubmitPush, ClientsAt, At
        <3>4. Promise!Accept(ctask[c])
            BY <3>2, <3>3 DEF Promise!Accept, Inv3, Conservation
        <3> QED BY <3>2, <3>4 DEF Promise!Next
    <2>3. CASE \E w \in Workers : WorkerRun(w)
        <3>1. PICK w \in Workers : WorkerRun(w)
            BY <2>3
        <3>2. /\ wtask[w] \in Tasks /\ wtask[w] \in InHand
              /\ executed' = executed \cup {wtask[w]}
              /\ UNCHANGED <<accepted, dropped, owed, cpc>>
            BY <3>1 DEF WorkerRun, Inv1, TypeOK, HandsInv, InHand, clientVars
        <3>3. UNCHANGED inWait
            BY <3>2 DEF ClientsAt
        <3>4. Promise!Finish(wtask[w])
            BY <3>2, <3>3 DEF Promise!Finish, Inv3, Conservation
        <3> QED BY <3>2, <3>4 DEF Promise!Next
    <2>4. CASE \E c \in Clients : WaitEnter(c)
        <3>1. PICK c \in Clients : WaitEnter(c)
            BY <2>4
        <3>2. c \notin inWait /\ inWait' = inWait \cup {c}
            BY <3>1, <2>0 DEF WaitEnter, ClientsAt, At
        <3>3. Promise!WaitCall(c)
            BY <3>1, <3>2 DEF WaitEnter, Promise!WaitCall
        <3> QED BY <3>3 DEF Promise!Next
    <2>5. CASE \E c \in Clients : WaitReturn(c)
        <3>1. PICK c \in Clients : WaitReturn(c)
            BY <2>5
        <3>2. c \in inWait /\ inWait' = inWait \ {c}
            BY <3>1, <2>0 DEF WaitReturn, ClientsAt, At
        <3>3. accepted = executed \cup dropped
            BY <3>1, WaitReturnDone
        <3>4. Promise!WaitReturn(c)
            BY <3>1, <3>2, <3>3 DEF WaitReturn, Promise!WaitReturn
        <3> QED BY <3>4 DEF Promise!Next
    <2>6. CASE Free
        <3>1. InHand = {}
            BY <2>6 DEF Free, Inv1, PhaseInv, HandsInv, InHand
        <3>2. open = InQueue
            BY <3>1 DEF Inv3, Conservation
        <3>3. inWait = {} /\ inWait' = {}
            BY <2>6, <2>0 DEF Free, clientVars, ClientsAt, At
        <3>4. Promise!Discard
            BY <2>6, <3>2, <3>3 DEF Free, Promise!Discard
        <3> QED BY <3>4 DEF Promise!Next
    <2>7. CASE \E w \in Workers : WorkerTake(w) \/ WorkerFinish(w)
        <3>1. UNCHANGED <<accepted, executed, dropped, owed>>
            BY <2>7 DEF WorkerTake, WorkerFinish, histVars
        <3>2. \/ cpc' = cpc
              \/ cpc' \in WakeOne(cpc, "blocked", "submit")
              \/ cpc' = WakeAll(cpc, "idling", "wait")
            BY <2>7 DEF WorkerTake, SignalNotFull, WorkerFinish, BroadcastIdle
        <3>3. UNCHANGED inWait
            BY <3>2, <2>0 DEF WakeOne, WakeAll, ClientsAt, At
        <3> QED BY <3>1, <3>3, <2>1
    <2>8. CASE \E c \in Clients : \/ SubmitBlock(c) \/ SubmitCancel(c)
                                  \/ SubmitNoMem(c) \/ WaitSleep(c)
                                  \/ \E t \in Tasks : SubmitEnter(c, t)
        <3>1. UNCHANGED <<accepted, executed, dropped, owed>>
            BY <2>8 DEF SubmitBlock, SubmitCancel, SubmitNoMem, SubmitGiveUp,
                  WaitSleep, SubmitEnter, histVars
        <3>2. UNCHANGED inWait
            BY <2>8, <2>0 DEF SubmitBlock, SubmitCancel, SubmitNoMem, SubmitGiveUp,
                  WaitSleep, SubmitEnter, ClientsAt, At
        <3> QED BY <3>1, <3>2, <2>1
    <2>9. CASE Spurious
        <3>1. UNCHANGED <<accepted, executed, dropped, owed>>
            BY <2>9 DEF Spurious, histVars
        <3>2. UNCHANGED inWait
            BY <2>9, <2>0 DEF Spurious, SpuriousWakeup, ClientsAt, At
        <3> QED BY <3>1, <3>2, <2>1
    <2>10. CASE \/ \E w \in Workers : WorkerSleep(w) \/ WorkerExit(w)
                \/ OwnerStep \/ Start \/ Stop \/ UNCHANGED vars
        <3>1. UNCHANGED <<accepted, executed, dropped, owed, cpc>>
            BY <2>10 DEF WorkerSleep, WorkerExit, OwnerStep, CreateWorker,
                  CreateFails, Started, StartFailed, Stopped, Start, Stop, vars,
                  clientVars, histVars
        <3> QED BY <3>1, <2>1 DEF ClientsAt
    <2> QED BY <2>2, <2>3, <2>4, <2>5, <2>6, <2>7, <2>8, <2>9, <2>10
            DEF Next, WorkerStep, ClientStep
<1> QED BY <1>1, <1>2, Layer1, Layer3, PTL DEF Spec, ImplementsTaskPool, Promise!Spec
=============================================================================
