-------------------------- MODULE EventLoopProofs --------------------------
(***************************************************************************)
(* Proofs about the event loop, for any events, stoppers, delays and       *)
(* bounds: the timer list is a queue without loss or repetition whatever   *)
(* callbacks do to it, timers are called in order of their deadlines, the  *)
(* loop does not oversleep, and it is not asleep while a stop is pending.  *)
(***************************************************************************)
EXTENDS EventLoop, ListLemmas, TLAPS

-----------------------------------------------------------------------------
(* Layer 1: types, and the timer list as a queue.                          *)

\* What an event that was called, is readable, is reported or runs can be.
KindInv ==
    /\ \A e \in fired : kind[e] \in {"timer", "user", "fd"}
    /\ \A e \in ready \cup batch : kind[e] = "fd"
    /\ pc = "callback" => kind[cur] \in {"timer", "user", "fd"}

Inv1 == TypeOK /\ KindInv /\ OnceEach /\ CursorLinked

LEMMA OnceEachIs ==
    OnceEach <=> /\ Distinct(timers)
                 /\ \A e \in Events : Contains(timers, e) => Timed(e) /\ e \notin fired
                 /\ \A e \in Events : Timed(e) => Contains(timers, e) \/ e \in fired
BY DEF OnceEach, Distinct

\* Steps that touch neither the list, nor the cursor, nor what is in it.
LEMMA SameQueue ==
    ASSUME OnceEach, CursorLinked, UNCHANGED <<kind, timers, fired>>,
           node' \in {node, NoEvent}
    PROVE  OnceEach' /\ CursorLinked'
BY DEF OnceEach, CursorLinked, Timed

LEMMA Inv1Init ==
    ASSUME Init
    PROVE  Inv1
<1>1. TypeOK
  <2>1. /\ kind \in [Events -> {"new", "timer", "user", "fd", "signal"}]
        /\ active \in [Events -> BOOLEAN] /\ oneshot \in [Events -> BOOLEAN]
        /\ armed \in [Events -> {"off", "level", "oneshot", "spent"}]
        /\ spc \in [Stoppers -> {"idle", "early", "waking", "done"}]
    BY DEF Init
  <2>2. 0 \in 0..MaxTime /\ 0 \in 0..MaxRuns /\ 0 \in 0..0 /\ 0 \in 0..2
    BY LoopBoundsAssumption
  <2>3. delay_ms \in [Events -> 0..MaxTime]
    BY <2>2 DEF Init
  <2>4. timers \in Seq(Events) /\ pc \in PC /\ pc # "callback"
    BY DEF Init, PC
  <2> QED BY <2>1, <2>2, <2>3, <2>4 DEF Init, TypeOK
<1>2. KindInv
  BY DEF Init, KindInv
<1>3. \A x : ~Contains(<<>>, x)
  BY DEF Contains
<1>4. OnceEach /\ CursorLinked
  BY <1>3 DEF Init, OnceEach, CursorLinked, Timed
<1> QED BY <1>1, <1>2, <1>4 DEF Inv1

\* A new event joins the list.
LEMMA Joins ==
    ASSUME Inv1, NEW e \in Events, NEW k \in {"timer", "user"},
           kind[e] = "new", kind' = [kind EXCEPT ![e] = k],
           UNCHANGED <<fired, node>>, Distinct(timers) /\ ~Contains(timers, e)
                                      => Distinct(timers'),
           \A x : Contains(timers', x) <=> x = e \/ Contains(timers, x)
    PROVE  OnceEach' /\ CursorLinked'
<1>1. ~Contains(timers, e) /\ e \notin fired
  BY DEF Inv1, OnceEach, KindInv, Timed
<1>2. Distinct(timers')
  BY <1>1, OnceEachIs DEF Inv1
<1>3. kind \in [Events -> {"new", "timer", "user", "fd", "signal"}]
  BY DEF Inv1, TypeOK
<1>4. \A x \in Events : Timed(x)' <=> x = e \/ Timed(x)
  BY <1>3 DEF Timed
<1>5. ASSUME NEW x \in Events
      PROVE  /\ Contains(timers', x) => Timed(x)' /\ x \notin fired'
             /\ Timed(x)' => Contains(timers', x) \/ x \in fired'
  BY <1>1, <1>4 DEF Inv1, OnceEach
<1>6. OnceEach'
  BY <1>2, <1>5 DEF OnceEach, Distinct
<1>7. CursorLinked'
  BY DEF Inv1, CursorLinked
<1> QED BY <1>6, <1>7

\* A new event that is neither timer nor posted leaves the list alone.
LEMMA Untimed ==
    ASSUME Inv1, NEW e \in Events, NEW k \in {"fd", "signal"},
           kind[e] = "new", kind' = [kind EXCEPT ![e] = k],
           UNCHANGED <<fired, node, timers>>
    PROVE  OnceEach' /\ CursorLinked'
<1>1. kind \in [Events -> {"new", "timer", "user", "fd", "signal"}]
  BY DEF Inv1, TypeOK
<1>2. \A x \in Events : Timed(x)' <=> Timed(x)
  BY <1>1 DEF Timed
<1> QED BY <1>2 DEF Inv1, OnceEach, CursorLinked

\* The kind of an event that is in use does not change when one is allocated.
LEMMA AllocKinds ==
    ASSUME Inv1, NEW e \in Events, NEW k \in {"timer", "user", "fd", "signal"},
           NEW shot \in BOOLEAN, Alloc(e, k, shot),
           UNCHANGED <<fired, ready, batch, pc, cur>>
    PROVE  /\ KindInv'
           /\ kind' \in [Events -> {"new", "timer", "user", "fd", "signal"}]
           /\ active' \in [Events -> BOOLEAN] /\ oneshot' \in [Events -> BOOLEAN]
<1>1. kind \in [Events -> {"new", "timer", "user", "fd", "signal"}]
  BY DEF Inv1, TypeOK
<1>2. \A x \in Events : kind[x] # "new" => kind'[x] = kind[x]
  BY <1>1 DEF Alloc
<1>3. fired \subseteq Events /\ ready \subseteq Events /\ batch \subseteq Events
      /\ (pc = "callback" => cur \in Events)
  BY DEF Inv1, TypeOK
<1>4. KindInv'
  BY <1>2, <1>3 DEF Inv1, KindInv
<1>5. /\ kind' \in [Events -> {"new", "timer", "user", "fd", "signal"}]
      /\ active' \in [Events -> BOOLEAN] /\ oneshot' \in [Events -> BOOLEAN]
  BY DEF Inv1, TypeOK, Alloc
<1> QED BY <1>4, <1>5

LEMMA AddTimerInv1 ==
    ASSUME Inv1, NEW e \in Events, NEW d \in Delays, AddTimer(e, d)
    PROVE  Inv1'
<1>1. Alloc(e, "timer", FALSE)
  BY DEF AddTimer
<1>2. PICK i \in 1..(Len(timers) + 1) : timers' = InsertAt(timers, i, e)
  BY DEF AddTimer
<1>3. timers \in Seq(Events) /\ Len(timers) \in Nat
  BY DEF Inv1, TypeOK
<1>4. /\ \A x : Contains(timers', x) <=> x = e \/ Contains(timers, x)
      /\ Distinct(timers) /\ ~Contains(timers, e) => Distinct(timers')
  <2>1. /\ \A x : Contains(InsertAt(timers, i, e), x) <=> x = e \/ Contains(timers, x)
        /\ Distinct(timers) /\ ~Contains(timers, e) => Distinct(InsertAt(timers, i, e))
    BY <1>3, InsertSet
  <2> QED BY <2>1, <1>2
<1>5. UNCHANGED <<fired, ready, batch, pc, cur, node>>
  BY DEF AddTimer, epollVars, batchVars, walkVars, histVars
<1>6. OnceEach' /\ CursorLinked'
  BY <1>1, <1>4, <1>5, Joins DEF Alloc
<1>7. /\ KindInv'
      /\ kind' \in [Events -> {"new", "timer", "user", "fd", "signal"}]
      /\ active' \in [Events -> BOOLEAN] /\ oneshot' \in [Events -> BOOLEAN]
  BY <1>1, <1>5, AllocKinds
<1>8. timers' \in Seq(Events)
  BY <1>2, <1>3, InsertAtFacts
<1>9. delay_ms' \in [Events -> 0..MaxTime]
  <2>1. now + d \in 0..MaxTime
    BY DelaysAssumption, LoopBoundsAssumption DEF AddTimer, Inv1, TypeOK
  <2> QED BY <2>1 DEF AddTimer, Inv1, TypeOK
<1>10. TypeOK'
  BY <1>7, <1>8, <1>9 DEF AddTimer, Inv1, TypeOK, flagVars, epollVars, walkVars,
                           batchVars, histVars
<1> QED BY <1>6, <1>7, <1>10 DEF Inv1

LEMMA PostInv1 ==
    ASSUME Inv1, NEW e \in Events, Post(e)
    PROVE  Inv1'
<1>1. Alloc(e, "user", TRUE)
  BY DEF Post
<1>3. timers \in Seq(Events) /\ timers' = Append(timers, e)
  BY DEF Inv1, TypeOK, Post
<1>4. /\ \A x : Contains(timers', x) <=> x = e \/ Contains(timers, x)
      /\ Distinct(timers) /\ ~Contains(timers, e) => Distinct(timers')
  BY <1>3, AppendSet
<1>5. UNCHANGED <<fired, ready, batch, pc, cur, node>>
  BY DEF Post, batchVars, walkVars, histVars
<1>6. OnceEach' /\ CursorLinked'
  BY <1>1, <1>4, <1>5, Joins DEF Alloc
<1>7. /\ KindInv'
      /\ kind' \in [Events -> {"new", "timer", "user", "fd", "signal"}]
      /\ active' \in [Events -> BOOLEAN] /\ oneshot' \in [Events -> BOOLEAN]
  BY <1>1, <1>5, AllocKinds
<1>8. timers' \in Seq(Events)
  BY <1>3
<1>9. delay_ms' \in [Events -> 0..MaxTime]
  BY DEF Post, Inv1, TypeOK
<1>10. TypeOK'
  BY <1>7, <1>8, <1>9 DEF Post, Inv1, TypeOK, flagVars, walkVars, batchVars,
                           histVars
<1> QED BY <1>6, <1>7, <1>10 DEF Inv1


LEMMA FireTimerInv1 ==
    ASSUME Inv1, FireTimer
    PROVE  Inv1'
<1>1. PICK i \in DOMAIN timers :
        /\ timers[i] = node
        /\ timers' = RemoveAt(timers, i)
        /\ node' = IF i < Len(timers) THEN timers[i + 1] ELSE NoEvent
  BY DEF FireTimer
<1>2. timers \in Seq(Events) /\ Len(timers) \in Nat /\ i \in 1..Len(timers)
  BY <1>1 DEF Inv1, TypeOK
<1>3. Distinct(timers)
  BY OnceEachIs DEF Inv1
<1>4. /\ \A x : Contains(timers', x) <=> Contains(timers, x) /\ x # node
      /\ Distinct(timers')
  <2>1. /\ \A x : Contains(RemoveAt(timers, i), x) <=> Contains(timers, x) /\ x # timers[i]
        /\ Distinct(RemoveAt(timers, i))
    BY <1>2, <1>3, RemoveSet
  <2> QED BY <2>1, <1>1
<1>5. node \in Events /\ Contains(timers, node)
  <2>1. node \in Events
    BY <1>1, <1>2
  <2> QED BY <2>1, <1>1, <1>2 DEF Contains
<1>6. fired' = fired \cup {node} /\ kind' = kind
  BY DEF FireTimer, eventVars
<1>7. Timed(node)
  BY <1>5 DEF Inv1, OnceEach
<1>8. OnceEach'
  <2>1. ASSUME NEW x \in Events
        PROVE  /\ Contains(timers', x) => Timed(x)' /\ x \notin fired'
               /\ Timed(x)' => Contains(timers', x) \/ x \in fired'
    BY <1>4, <1>6 DEF Inv1, OnceEach, Timed
  <2> QED BY <2>1, <1>4 DEF OnceEach, Distinct
<1>9. CursorLinked'
  <2>1. CASE i < Len(timers)
    <3>1. i + 1 \in 1..Len(timers) /\ i + 1 # i
      BY <1>2, <2>1
    <3>2. timers[i + 1] # node /\ node' = timers[i + 1]
      BY <3>1, <1>1, <1>2, <1>3, <2>1 DEF Distinct
    <3>3. Contains(timers, node')
      BY <3>1, <3>2 DEF Contains
    <3> QED BY <3>2, <3>3, <1>4 DEF CursorLinked
  <2>2. CASE ~(i < Len(timers))
    BY <2>2, <1>1 DEF CursorLinked
  <2> QED BY <2>1, <2>2
<1>10. KindInv'
  <2>1. UNCHANGED <<ready, batch, kind>> /\ cur' = node
    BY DEF FireTimer, eventVars, epollVars, batchVars
  <2> QED BY <2>1, <1>6, <1>7 DEF Inv1, KindInv, Timed
<1>11. timers' \in Seq(Events)
  BY <1>1, <1>2, RemoveAtFacts
<1>12. node' \in Events \cup {NoEvent}
  BY <1>1, <1>2
<1>13. TypeOK'
  <2>1. cur' = node /\ pc' = "callback" /\ fired' \subseteq Events
    BY <1>5, <1>6 DEF FireTimer, Inv1, TypeOK
  <2> QED BY <2>1, <1>5, <1>11, <1>12 DEF FireTimer, Inv1, TypeOK, PC, eventVars,
             flagVars, epollVars, batchVars
<1> QED BY <1>8, <1>9, <1>10, <1>13 DEF Inv1

LEMMA DispatchInv1 ==
    ASSUME Inv1, NEW e \in Events, DispatchFd(e)
    PROVE  Inv1'
<1>1. kind[e] = "fd" /\ ~Timed(e) /\ ~Contains(timers, e)
  BY DEF DispatchFd, Inv1, KindInv, OnceEach, Timed
<1>2. /\ UNCHANGED <<kind, timers, node, ready>>
      /\ fired' = fired \cup {e} /\ batch' \subseteq batch /\ cur' = e
  BY DEF DispatchFd, eventVars, epollVars
<1>3. OnceEach' /\ CursorLinked'
  BY <1>1, <1>2 DEF Inv1, OnceEach, CursorLinked, Timed
<1>4. KindInv'
  BY <1>1, <1>2 DEF Inv1, KindInv
<1>5. TypeOK'
  BY DEF DispatchFd, Inv1, TypeOK, PC, eventVars, flagVars, epollVars
<1> QED BY <1>3, <1>4, <1>5 DEF Inv1

LEMMA AddOtherInv1 ==
    ASSUME Inv1, NEW e \in Events,
           AddSignal(e) \/ \E shot \in BOOLEAN : AddFd(e, shot)
    PROVE  Inv1'
<1>1. ASSUME AddSignal(e)
      PROVE  Inv1'
  <2>1. Alloc(e, "signal", FALSE)
    BY <1>1 DEF AddSignal
  <2>2. UNCHANGED <<fired, ready, batch, pc, cur, node, timers>>
    BY <1>1 DEF AddSignal, epollVars, batchVars, walkVars, histVars
  <2>3. OnceEach' /\ CursorLinked'
    BY <2>1, <2>2, Untimed DEF Alloc
  <2>4. /\ KindInv'
        /\ kind' \in [Events -> {"new", "timer", "user", "fd", "signal"}]
        /\ active' \in [Events -> BOOLEAN] /\ oneshot' \in [Events -> BOOLEAN]
    BY <2>1, <2>2, AllocKinds
  <2>5. TypeOK'
    BY <1>1, <2>4 DEF AddSignal, Inv1, TypeOK, flagVars, epollVars, walkVars,
                      batchVars, histVars
  <2> QED BY <2>3, <2>4, <2>5 DEF Inv1
<1>2. ASSUME NEW shot \in BOOLEAN, AddFd(e, shot)
      PROVE  Inv1'
  <2>1. Alloc(e, "fd", shot)
    BY <1>2 DEF AddFd
  <2>2. UNCHANGED <<fired, ready, batch, pc, cur, node, timers>>
    BY <1>2 DEF AddFd, batchVars, walkVars, histVars
  <2>3. OnceEach' /\ CursorLinked'
    BY <2>1, <2>2, Untimed DEF Alloc
  <2>4. /\ KindInv'
        /\ kind' \in [Events -> {"new", "timer", "user", "fd", "signal"}]
        /\ active' \in [Events -> BOOLEAN] /\ oneshot' \in [Events -> BOOLEAN]
    BY <2>1, <2>2, AllocKinds
  <2>5. armed' \in [Events -> {"off", "level", "oneshot", "spent"}]
    BY <1>2 DEF AddFd, Inv1, TypeOK
  <2>6. TypeOK'
    BY <1>2, <2>4, <2>5 DEF AddFd, Inv1, TypeOK, flagVars, walkVars, batchVars,
                            histVars
  <2> QED BY <2>3, <2>4, <2>6 DEF Inv1
<1> QED BY <1>1, <1>2


\* Every other step leaves the list and what is in it as they are.
Stays ==
    \/ \E e \in Events, d \in Delays : TimerReset(e, d)
    \/ \E e \in Events, shot \in BOOLEAN : ModifyFd(e, shot)
    \/ \E e \in Events : RemoveEvent(e) \/ DataArrives(e)
    \/ StopHere \/ ReadFd \/ Run \/ ClearStop \/ Leave \/ ComputeTimeout
    \/ \E t \in Delays \cup {Forever} : RunOnce(t)
    \/ EnterPoll \/ PollReturn \/ PollTimeout \/ PollInterrupted
    \/ DrainWakeup \/ EventsDone \/ CallbackReturn \/ Free
    \/ \E s \in Stoppers : RequestStop(s) \/ Wakeup(s)
    \/ Tick \/ SignalArrives

LEMMA TimeoutType ==
    ASSUME Inv1
    PROVE  Timeout \in Nat \cup {Forever}
<1>1. CASE timers = <<>>
  BY <1>1 DEF Timeout
<1>2. CASE timers # <<>>
  <2>1. Head(timers) \in Events
    BY <1>2 DEF Inv1, TypeOK
  <2>2. delay_ms[Head(timers)] \in Nat /\ now \in Nat
    BY <2>1, LoopBoundsAssumption DEF Inv1, TypeOK
  <2>3. delay_ms[Head(timers)] - now \in Int
    BY <2>2
  <2> QED BY <1>2, <2>3 DEF Timeout
<1> QED BY <1>1, <1>2

LEMMA StaysInv1 ==
    ASSUME Inv1, Stays
    PROVE  Inv1'
<1>1. TypeOK'
  <2> USE DEF Inv1, TypeOK, PC
  <2>0. now \in Nat
    BY LoopBoundsAssumption
  <2>1. ASSUME NEW e \in Events, NEW d \in Delays, TimerReset(e, d)
      PROVE  TypeOK'
    <3>1. now + d \in 0..MaxTime
      BY <2>1, <2>0, DelaysAssumption, LoopBoundsAssumption DEF TimerReset
    <3> QED BY <2>1, <3>1 DEF TimerReset, eventVars, flagVars, epollVars, walkVars,
               batchVars, histVars, LeavePoll, Return, MayCall
  <2>2. ASSUME NEW e \in Events, NEW shot \in BOOLEAN, ModifyFd(e, shot)
      PROVE  TypeOK'
    BY <2>2 DEF ModifyFd, eventVars, flagVars, epollVars, walkVars,
               batchVars, histVars, LeavePoll, Return, MayCall
  <2>3. ASSUME NEW e \in Events, RemoveEvent(e)
      PROVE  TypeOK'
    BY <2>3 DEF RemoveEvent, eventVars, flagVars, epollVars, walkVars,
               batchVars, histVars, LeavePoll, Return, MayCall
  <2>4. ASSUME StopHere
      PROVE  TypeOK'
    BY <2>4 DEF StopHere, eventVars, flagVars, epollVars, walkVars,
               batchVars, histVars, LeavePoll, Return, MayCall
  <2>5. ASSUME ReadFd
      PROVE  TypeOK'
    BY <2>5 DEF ReadFd, eventVars, flagVars, epollVars, walkVars,
               batchVars, histVars, LeavePoll, Return, MayCall
  <2>6. ASSUME Run
      PROVE  TypeOK'
    <3>1. runs + 1 \in 0..MaxRuns
      BY <2>6, LoopBoundsAssumption DEF Run
    <3> QED BY <2>6, <3>1 DEF Run, eventVars, flagVars, epollVars, walkVars,
               batchVars, histVars, LeavePoll, Return, MayCall
  <2>7. ASSUME ClearStop
      PROVE  TypeOK'
    BY <2>7 DEF ClearStop, eventVars, flagVars, epollVars, walkVars,
               batchVars, histVars, LeavePoll, Return, MayCall
  <2>8. ASSUME Leave
      PROVE  TypeOK'
    BY <2>8 DEF Leave, eventVars, flagVars, epollVars, walkVars,
               batchVars, histVars, LeavePoll, Return, MayCall
  <2>9. ASSUME ComputeTimeout
      PROVE  TypeOK'
    <3>1. Timeout \in Nat \cup {Forever}
      BY TimeoutType
    <3>2. now \in 0..now
      BY <2>0
    <3> QED BY <2>9, <3>1, <3>2 DEF ComputeTimeout, eventVars, flagVars, epollVars, walkVars,
               batchVars, histVars, LeavePoll, Return, MayCall
  <2>10. ASSUME NEW t \in Delays \cup {Forever}, RunOnce(t)
      PROVE  TypeOK'
    <3>1. t \in Nat \cup {Forever}
      BY DelaysAssumption
    <3>2. runs + 1 \in 0..MaxRuns
      BY <2>10, LoopBoundsAssumption DEF RunOnce
    <3> QED BY <2>10, <3>1, <3>2 DEF RunOnce, eventVars, flagVars, epollVars, walkVars,
               batchVars, histVars, LeavePoll, Return, MayCall
  <2>11. ASSUME EnterPoll
      PROVE  TypeOK'
    <3>1. 0 \in 0..now /\ now \in 0..now
      BY <2>0
    <3> QED BY <2>11, <3>1 DEF EnterPoll, eventVars, flagVars, epollVars, walkVars,
               batchVars, histVars, LeavePoll, Return, MayCall
  <2>12. ASSUME PollReturn
      PROVE  TypeOK'
    <3>1. Nulls \in 0..2
      BY DEF Nulls
    <3>2. 0 \in 0..now /\ 0 \in Nat
      BY <2>0
    <3> QED BY <2>12, <3>1, <3>2 DEF PollReturn, eventVars, flagVars, epollVars, walkVars,
               batchVars, histVars, LeavePoll, Return, MayCall, Readable
  <2>13. ASSUME PollTimeout
      PROVE  TypeOK'
    <3>1. 0 \in 0..now /\ 0 \in Nat
      BY <2>0
    <3> QED BY <2>13, <3>1 DEF PollTimeout, eventVars, flagVars, epollVars, walkVars,
               batchVars, histVars, LeavePoll, Return, MayCall
  <2>14. ASSUME PollInterrupted
      PROVE  TypeOK'
    <3>1. 0 \in 0..now /\ 0 \in Nat
      BY <2>0
    <3> QED BY <2>14, <3>1 DEF PollInterrupted, eventVars, flagVars, epollVars, walkVars,
               batchVars, histVars, LeavePoll, Return, MayCall
  <2>15. ASSUME DrainWakeup
      PROVE  TypeOK'
    <3>1. nulls - 1 \in 0..2
      BY <2>15 DEF DrainWakeup
    <3> QED BY <2>15, <3>1 DEF DrainWakeup, eventVars, flagVars, epollVars, walkVars,
               batchVars, histVars, LeavePoll, Return, MayCall
  <2>16. ASSUME EventsDone
      PROVE  TypeOK'
    BY <2>16 DEF EventsDone, eventVars, flagVars, epollVars, walkVars,
               batchVars, histVars, LeavePoll, Return, MayCall
  <2>17. ASSUME CallbackReturn
      PROVE  TypeOK'
    BY <2>17 DEF CallbackReturn, eventVars, flagVars, epollVars, walkVars,
               batchVars, histVars, LeavePoll, Return, MayCall
  <2>18. ASSUME Free
      PROVE  TypeOK'
    BY <2>18 DEF Free, eventVars, flagVars, epollVars, walkVars,
               batchVars, histVars, LeavePoll, Return, MayCall
  <2>19. ASSUME NEW s \in Stoppers, RequestStop(s)
      PROVE  TypeOK'
    BY <2>19 DEF RequestStop, eventVars, flagVars, epollVars, walkVars,
               batchVars, histVars, LeavePoll, Return, MayCall
  <2>20. ASSUME NEW s \in Stoppers, Wakeup(s)
      PROVE  TypeOK'
    BY <2>20 DEF Wakeup, eventVars, flagVars, epollVars, walkVars,
               batchVars, histVars, LeavePoll, Return, MayCall
  <2>21. ASSUME Tick
      PROVE  TypeOK'
    <3>1. now + 1 \in 0..MaxTime /\ 0..now \subseteq 0..(now + 1)
      BY <2>21, <2>0, LoopBoundsAssumption DEF Tick
    <3> QED BY <2>21, <3>1 DEF Tick, eventVars, flagVars, epollVars, walkVars,
               batchVars, histVars, LeavePoll, Return, MayCall
  <2>22. ASSUME NEW e \in Events, DataArrives(e)
      PROVE  TypeOK'
    BY <2>22 DEF DataArrives, eventVars, flagVars, epollVars, walkVars,
               batchVars, histVars, LeavePoll, Return, MayCall
  <2>23. ASSUME SignalArrives
      PROVE  TypeOK'
    BY <2>23 DEF SignalArrives, eventVars, flagVars, epollVars, walkVars,
               batchVars, histVars, LeavePoll, Return, MayCall
  <2> QED BY <2>1, <2>2, <2>3, <2>4, <2>5, <2>6, <2>7, <2>8, <2>9, <2>10, <2>11, <2>12, <2>13, <2>14, <2>15, <2>16, <2>17, <2>18, <2>19, <2>20, <2>21, <2>22, <2>23 DEF Stays
<1>2. UNCHANGED <<timers, fired>> /\ node' \in {node, NoEvent} /\ kind' = kind
  BY DEF Stays, TimerReset, ModifyFd, RemoveEvent, DataArrives, StopHere, ReadFd,
         Run, ClearStop, Leave, ComputeTimeout, RunOnce, EnterPoll, PollReturn,
         PollTimeout, PollInterrupted, DrainWakeup, EventsDone, CallbackReturn,
         Free, RequestStop, Wakeup, Tick, SignalArrives,
         eventVars, walkVars, histVars
<1>3. OnceEach' /\ CursorLinked'
  BY <1>2, SameQueue DEF Inv1
<1>4. KindInv'
  <2>1. pc' = "callback" => pc = "callback" /\ cur' = cur
    BY DEF Stays, TimerReset, ModifyFd, RemoveEvent, DataArrives, StopHere, ReadFd,
         Run, ClearStop, Leave, ComputeTimeout, RunOnce, EnterPoll, PollReturn,
         PollTimeout, PollInterrupted, DrainWakeup, EventsDone, CallbackReturn,
         Free, RequestStop, Wakeup, Tick, SignalArrives,
         walkVars, Return
  <2>2. \A e \in ready' : kind[e] = "fd"
    BY DEF Inv1, KindInv, Stays, TimerReset, ModifyFd, RemoveEvent, DataArrives, StopHere, ReadFd,
         Run, ClearStop, Leave, ComputeTimeout, RunOnce, EnterPoll, PollReturn,
         PollTimeout, PollInterrupted, DrainWakeup, EventsDone, CallbackReturn,
         Free, RequestStop, Wakeup, Tick, SignalArrives,
         epollVars
  <2>3. batch' \subseteq batch \cup ready
    BY DEF Stays, TimerReset, ModifyFd, RemoveEvent, DataArrives, StopHere, ReadFd,
         Run, ClearStop, Leave, ComputeTimeout, RunOnce, EnterPoll, PollReturn,
         PollTimeout, PollInterrupted, DrainWakeup, EventsDone, CallbackReturn,
         Free, RequestStop, Wakeup, Tick, SignalArrives,
         batchVars, Readable
  <2> QED BY <1>2, <2>1, <2>2, <2>3 DEF Inv1, KindInv
<1> QED BY <1>1, <1>3, <1>4 DEF Inv1


LEMMA ReadClockInv1 ==
    ASSUME Inv1, ReadClock
    PROVE  Inv1'
<1>1. node' \in Events \cup {NoEvent} /\ (node' # NoEvent => Contains(timers, node'))
  <2>1. CASE timers = <<>>
    BY <2>1 DEF ReadClock
  <2>2. CASE timers # <<>>
    <3>1. Head(timers) = timers[1] /\ 1 \in 1..Len(timers) /\ timers[1] \in Events
      BY <2>2 DEF Inv1, TypeOK
    <3> QED BY <2>2, <3>1 DEF ReadClock, Contains
  <2> QED BY <2>1, <2>2
<1>2. now \in 0..now
  BY LoopBoundsAssumption DEF Inv1, TypeOK
<1>3. TypeOK'
  BY <1>1, <1>2 DEF ReadClock, Inv1, TypeOK, PC, eventVars, flagVars, epollVars,
                    batchVars, histVars
<1>4. OnceEach' /\ CursorLinked'
  BY <1>1 DEF ReadClock, Inv1, OnceEach, CursorLinked, Timed, eventVars, histVars
<1>5. KindInv'
  BY DEF ReadClock, Inv1, KindInv, eventVars, epollVars, batchVars, histVars
<1> QED BY <1>3, <1>4, <1>5 DEF Inv1

\* The steps, sorted by what they do to the timer list.
LEMMA StepCases ==
    ASSUME Next
    PROVE  \/ \E e \in Events, d \in Delays : AddTimer(e, d)
           \/ \E e \in Events : Post(e)
           \/ FireTimer
           \/ ReadClock
           \/ \E e \in Events : DispatchFd(e)
           \/ \E e \in Events : AddSignal(e) \/ \E shot \in BOOLEAN : AddFd(e, shot)
           \/ Stays
BY DEF Next, LoopStep, Call, Stays

LEMMA StutterInv1 ==
    ASSUME Inv1, UNCHANGED vars
    PROVE  Inv1'
BY DEF Inv1, TypeOK, KindInv, OnceEach, CursorLinked, Timed, vars, eventVars,
       flagVars, epollVars, walkVars, batchVars, histVars

LEMMA Inv1Next ==
    ASSUME Inv1, [Next]_vars
    PROVE  Inv1'
BY StepCases, AddTimerInv1, PostInv1, FireTimerInv1, ReadClockInv1,
   DispatchInv1, AddOtherInv1, StaysInv1, StutterInv1

\* The first layer holds in every reachable state.
THEOREM LoopInv1 == Spec => []Inv1
<1>1. Init => Inv1
  BY Inv1Init
<1>2. Inv1 /\ [Next]_vars => Inv1'
  BY Inv1Next
<1> QED BY <1>1, <1>2, PTL DEF Spec

\* Every variable of the loop stays in its range.
THEOREM LoopTypes == Spec => []TypeOK
<1>1. Inv1 => TypeOK
  BY DEF Inv1
<1> QED BY <1>1, LoopInv1, PTL

\* A timer or posted event is linked until it is called, and only until then.
THEOREM LoopOnceEach == Spec => []OnceEach
<1>1. Inv1 => OnceEach
  BY DEF Inv1
<1> QED BY <1>1, LoopInv1, PTL

\* The pointer process_timers saved is never to a node that was unlinked.
THEOREM LoopCursor == Spec => []CursorLinked
<1>1. Inv1 => CursorLinked
  BY DEF Inv1
<1> QED BY <1>1, LoopInv1, PTL


-----------------------------------------------------------------------------
(* Layer 2: the order of the list, and of the walk.                        *)

\* What stands in front of the saved pointer was inserted during the walk and
\* is not due at the time the walk began.
WalkedPast ==
    ~retimed =>
      \A j, k \in DOMAIN timers :
        j < k /\ timers[k] = node => clock_read <= delay_ms[timers[j]]

Inv2 == Sorted /\ WalkedPast

LEMMA Inv2Init ==
    ASSUME Init
    PROVE  Inv2
BY DEF Init, Inv2, Sorted, WalkedPast

\* Steps that keep the list, the deadlines in it and their kinds.
LEMMA SameOrder ==
    ASSUME Inv1, Inv2, timers' = timers,
           (clock_read' = clock_read /\ node' = node) \/ node' = NoEvent,
           ~retimed' => ~retimed /\ \A j \in DOMAIN timers :
                                      delay_ms'[timers[j]] = delay_ms[timers[j]],
           \A j \in DOMAIN timers : kind'[timers[j]] = kind[timers[j]]
    PROVE  Inv2'
<1>1. \A j \in DOMAIN timers : timers[j] # NoEvent
  BY NoEventAssumption DEF Inv1, TypeOK
<1>2. Sorted'
  BY DEF Inv2, Sorted
<1>3. WalkedPast'
  BY <1>1 DEF Inv2, WalkedPast
<1> QED BY <1>2, <1>3 DEF Inv2

LEMMA StaysInv2 ==
    ASSUME Inv1, Inv2, Stays
    PROVE  Inv2'
<1>1. timers' = timers /\ kind' = kind
  BY DEF Stays, TimerReset, ModifyFd, RemoveEvent, DataArrives, StopHere, ReadFd,
         Run, ClearStop, Leave, ComputeTimeout, RunOnce, EnterPoll, PollReturn,
         PollTimeout, PollInterrupted, DrainWakeup, EventsDone, CallbackReturn,
         Free, RequestStop, Wakeup, Tick, SignalArrives, eventVars
<1>2. (clock_read' = clock_read /\ node' = node) \/ node' = NoEvent
  BY DEF Stays, TimerReset, ModifyFd, RemoveEvent, DataArrives, StopHere, ReadFd,
         Run, ClearStop, Leave, ComputeTimeout, RunOnce, EnterPoll, PollReturn,
         PollTimeout, PollInterrupted, DrainWakeup, EventsDone, CallbackReturn,
         Free, RequestStop, Wakeup, Tick, SignalArrives, walkVars
<1>3. ASSUME NEW e \in Events, NEW d \in Delays, TimerReset(e, d), ~retimed'
      PROVE  ~retimed /\ \A j \in DOMAIN timers :
                           delay_ms'[timers[j]] = delay_ms[timers[j]]
  <2>1. ~retimed /\ ~Contains(timers, e)
    BY <1>3 DEF TimerReset
  <2>2. timers \in Seq(Events) /\ delay_ms \in [Events -> 0..MaxTime]
    BY DEF Inv1, TypeOK
  <2>3. ASSUME NEW j \in DOMAIN timers
        PROVE  delay_ms'[timers[j]] = delay_ms[timers[j]]
    <3>1. timers[j] \in Events /\ timers[j] # e
      BY <2>1, <2>2 DEF Contains
    <3> QED BY <3>1, <2>2, <1>3 DEF TimerReset
  <2> QED BY <2>1, <2>3
<1>4. \/ \E e \in Events, d \in Delays : TimerReset(e, d)
      \/ UNCHANGED <<retimed, delay_ms>>
  BY DEF Stays, ModifyFd, RemoveEvent, DataArrives, StopHere, ReadFd,
         Run, ClearStop, Leave, ComputeTimeout, RunOnce, EnterPoll, PollReturn,
         PollTimeout, PollInterrupted, DrainWakeup, EventsDone, CallbackReturn,
         Free, RequestStop, Wakeup, Tick, SignalArrives, eventVars, histVars
<1>5. ~retimed' => ~retimed /\ \A j \in DOMAIN timers :
                                 delay_ms'[timers[j]] = delay_ms[timers[j]]
  BY <1>3, <1>4
<1>6. \A j \in DOMAIN timers : kind'[timers[j]] = kind[timers[j]]
  BY <1>1
<1> QED BY <1>1, <1>2, <1>5, <1>6, SameOrder

LEMMA OtherInv2 ==
    ASSUME Inv1, Inv2, NEW e \in Events,
           \/ DispatchFd(e)
           \/ AddSignal(e) \/ \E shot \in BOOLEAN : AddFd(e, shot)
    PROVE  Inv2'
<1>1. UNCHANGED <<timers, clock_read, node, retimed, delay_ms>>
  BY DEF DispatchFd, AddSignal, AddFd, eventVars, walkVars, histVars
<1>2. kind' = kind \/ (kind[e] = "new" /\ \E k : kind' = [kind EXCEPT ![e] = k])
  BY DEF DispatchFd, AddSignal, AddFd, Alloc, eventVars
<1>3. timers \in Seq(Events)
      /\ kind \in [Events -> {"new", "timer", "user", "fd", "signal"}]
  BY DEF Inv1, TypeOK
<1>4. ASSUME NEW j \in DOMAIN timers
      PROVE  kind'[timers[j]] = kind[timers[j]]
  <2>1. timers[j] \in Events /\ Contains(timers, timers[j])
    BY <1>3 DEF Contains
  <2>2. kind[timers[j]] # "new"
    BY <2>1 DEF Inv1, OnceEach, Timed
  <2> QED BY <1>2, <1>3, <2>1, <2>2
<1> QED BY <1>1, <1>4, SameOrder

LEMMA ReadClockInv2 ==
    ASSUME Inv1, Inv2, ReadClock
    PROVE  Inv2'
<1>1. UNCHANGED <<timers, kind, delay_ms, retimed>>
  BY DEF ReadClock, eventVars, histVars
<1>2. timers \in Seq(Events) /\ Distinct(timers)
  BY OnceEachIs DEF Inv1, TypeOK
<1>3. ASSUME NEW j \in DOMAIN timers, NEW k \in DOMAIN timers,
             j < k, timers[k] = node'
      PROVE  FALSE
  <2>1. timers # <<>> /\ node' = timers[1] /\ 1 \in DOMAIN timers
    BY <1>2, <1>3 DEF ReadClock
  <2>2. k = 1
    BY <2>1, <1>2, <1>3 DEF Distinct
  <2> QED BY <2>2, <1>2, <1>3
<1>4. WalkedPast'
  BY <1>1, <1>3 DEF WalkedPast
<1>5. Sorted'
  BY <1>1 DEF Inv2, Sorted
<1> QED BY <1>4, <1>5 DEF Inv2

LEMMA FireTimerInv2 ==
    ASSUME Inv1, Inv2, FireTimer
    PROVE  Inv2'
<1>1. PICK i \in DOMAIN timers :
        /\ timers[i] = node
        /\ timers' = RemoveAt(timers, i)
        /\ node' = IF i < Len(timers) THEN timers[i + 1] ELSE NoEvent
  BY DEF FireTimer
<1>2. timers \in Seq(Events) /\ Len(timers) \in Nat /\ i \in 1..Len(timers)
  BY <1>1 DEF Inv1, TypeOK
<1>3. \A m, n \in 1..Len(timers) : timers[m] = timers[n] => m = n
  BY <1>2, OnceEachIs DEF Inv1, Distinct
<1>4. /\ timers' \in Seq(Events) /\ Len(timers') = Len(timers) - 1
      /\ \A j \in 1..(Len(timers) - 1) :
           timers'[j] = IF j < i THEN timers[j] ELSE timers[j + 1]
  BY <1>1, <1>2, RemoveAtFacts
<1>5. UNCHANGED <<kind, delay_ms, retimed, clock_read>>
  BY DEF FireTimer, eventVars
<1> DEFINE p(m) == IF m < i THEN m ELSE m + 1
<1>6. \A m \in DOMAIN timers' :
        p(m) \in 1..Len(timers) /\ p(m) # i /\ timers'[m] = timers[p(m)]
  BY <1>2, <1>4
<1>7. \A m, n \in DOMAIN timers' : m < n => p(m) < p(n)
  BY <1>2, <1>4
<1> HIDE DEF p
<1>8. Sorted'
  <2> SUFFICES ASSUME ~retimed, NEW m \in DOMAIN timers', NEW n \in DOMAIN timers',
                      m < n, kind[timers'[n]] = "timer"
               PROVE  delay_ms[timers'[m]] <= delay_ms[timers'[n]]
    BY <1>5 DEF Sorted
  <2> QED BY <1>2, <1>6, <1>7 DEF Inv2, Sorted
<1>9. WalkedPast'
  <2> SUFFICES ASSUME ~retimed, NEW m \in DOMAIN timers', NEW n \in DOMAIN timers',
                      m < n, timers'[n] = node'
               PROVE  clock_read <= delay_ms[timers'[m]]
    BY <1>5 DEF WalkedPast
  <2>1. timers'[n] \in Events
    BY <1>4
  <2>2. i < Len(timers) /\ node' = timers[i + 1]
    BY <2>1, <1>1, NoEventAssumption
  <2>3. p(n) = i + 1
    BY <1>2, <1>3, <1>6, <2>2
  <2>4. p(m) < i
    BY <1>2, <1>6, <1>7, <2>3
  <2>5. clock_read <= delay_ms[timers[p(m)]]
    BY <1>1, <1>2, <1>6, <2>4 DEF Inv2, WalkedPast
  <2> QED BY <2>5, <1>6
<1> QED BY <1>8, <1>9 DEF Inv2


LEMMA AddTimerInv2 ==
    ASSUME Inv1, Inv2, NEW e \in Events, NEW d \in Delays, AddTimer(e, d)
    PROVE  Inv2'
<1>1. PICK i \in 1..(Len(timers) + 1) :
        InsertionPoint(i, now + d) /\ timers' = InsertAt(timers, i, e)
  BY DEF AddTimer
<1>2. timers \in Seq(Events) /\ Len(timers) \in Nat
  BY DEF Inv1, TypeOK
<1>3. /\ timers' \in Seq(Events) /\ Len(timers') = Len(timers) + 1
      /\ \A j \in 1..(Len(timers) + 1) :
           timers'[j] = IF j < i THEN timers[j] ELSE IF j = i THEN e ELSE timers[j - 1]
  <2>1. InsertAt(timers, i, e) \in Seq(Events) /\ Inserted(InsertAt(timers, i, e), timers, i, e)
    BY ONLY <1>2, e \in Events, i \in 1..(Len(timers) + 1), InsertAtInserted, Zenon
  <2>2. timers' = InsertAt(timers, i, e)
    BY <1>1
  <2>3. timers' \in Seq(Events) /\ Inserted(timers', timers, i, e)
    BY ONLY <2>1, <2>2
  <2> QED BY ONLY <2>3 DEF Inserted
<1>4. UNCHANGED <<retimed, clock_read, node>>
  BY DEF AddTimer, walkVars, histVars
<1>5. /\ delay_ms'[e] = now + d
      /\ \A m \in 1..Len(timers) : /\ timers[m] \in Events /\ timers[m] # e
                                   /\ delay_ms'[timers[m]] = delay_ms[timers[m]]
                                   /\ kind'[timers[m]] = kind[timers[m]]
  <2>1. delay_ms \in [Events -> 0..MaxTime]
        /\ kind \in [Events -> {"new", "timer", "user", "fd", "signal"}]
    BY DEF Inv1, TypeOK
  <2>2. ASSUME NEW m \in 1..Len(timers)
        PROVE  timers[m] \in Events /\ timers[m] # e
    <3>1. timers[m] \in Events /\ Contains(timers, timers[m])
      BY <1>2 DEF Contains
    <3>2. Timed(timers[m])
      BY <3>1 DEF Inv1, OnceEach
    <3>3. ~Timed(e)
      BY DEF AddTimer, Alloc, Timed
    <3> QED BY <3>1, <3>2, <3>3
  <2>3. delay_ms' = [delay_ms EXCEPT ![e] = now + d]
        /\ kind' = [kind EXCEPT ![e] = "timer"]
    BY DEF AddTimer, Alloc
  <2> QED BY <2>1, <2>2, <2>3
<1>6. /\ now \in Nat /\ d \in Nat /\ clock_read \in Nat /\ clock_read <= now
      /\ \A m \in 1..Len(timers) : delay_ms[timers[m]] \in Nat
  BY <1>2, DelaysAssumption, LoopBoundsAssumption DEF Inv1, TypeOK
<1> DEFINE q(m) == IF m < i THEN m ELSE m - 1
<1>7. \A m \in DOMAIN timers' :
        m # i => q(m) \in 1..Len(timers) /\ timers'[m] = timers[q(m)]
  BY <1>2, <1>3
<1>8. \A m, n \in DOMAIN timers' : m < n /\ m # i /\ n # i => q(m) < q(n)
  BY <1>2, <1>3
<1>9. i \in DOMAIN timers' /\ timers'[i] = e
  BY <1>2, <1>3
<1>10. /\ \A m \in DOMAIN timers' : m < i => q(m) < i
       /\ \A m \in DOMAIN timers' : m > i => q(m) >= i
  BY <1>2, <1>3
<1> HIDE DEF q
<1>11. Sorted'
  <2> SUFFICES ASSUME ~retimed, NEW m \in DOMAIN timers', NEW n \in DOMAIN timers',
                      m < n, kind'[timers'[n]] = "timer"
               PROVE  delay_ms'[timers'[m]] <= delay_ms'[timers'[n]]
    BY <1>4 DEF Sorted
  <2>1. CASE n = i
    <3>1. q(m) \in 1..(i - 1) /\ timers'[m] = timers[q(m)] /\ q(m) \in 1..Len(timers)
      BY <2>1, <1>2, <1>3, <1>7, <1>10
    <3>2. delay_ms[timers[q(m)]] <= now + d
      BY <3>1, <1>1 DEF InsertionPoint
    <3> QED BY <3>1, <3>2, <2>1, <1>5, <1>9
  <2>2. CASE m = i
    <3>1. q(n) \in 1..Len(timers) /\ timers'[n] = timers[q(n)] /\ q(n) >= i
      BY <2>2, <1>2, <1>3, <1>7, <1>10
    <3>2. i \in 1..Len(timers) /\ now + d < delay_ms[timers[i]]
      BY <3>1, <1>1, <1>2 DEF InsertionPoint
    <3>3. kind[timers[q(n)]] = "timer"
      BY <3>1, <1>5
    <3>4. i = q(n) \/ delay_ms[timers[i]] <= delay_ms[timers[q(n)]]
      BY <3>1, <3>2, <3>3, <1>2 DEF Inv2, Sorted
    <3>5. now + d <= delay_ms[timers[q(n)]]
      BY <3>1, <3>2, <3>4, <1>6
    <3> QED BY <3>1, <3>5, <2>2, <1>5, <1>9
  <2>3. CASE m # i /\ n # i
    <3>1. /\ q(m) \in 1..Len(timers) /\ timers'[m] = timers[q(m)]
          /\ q(n) \in 1..Len(timers) /\ timers'[n] = timers[q(n)] /\ q(m) < q(n)
      BY <2>3, <1>7, <1>8
    <3>2. kind[timers[q(n)]] = "timer"
      BY <3>1, <1>5
    <3>3. delay_ms[timers[q(m)]] <= delay_ms[timers[q(n)]]
      BY <3>1, <3>2, <1>2 DEF Inv2, Sorted
    <3> QED BY <3>1, <3>3, <1>5
  <2> QED BY <2>1, <2>2, <2>3
<1>12. WalkedPast'
  <2> SUFFICES ASSUME ~retimed, NEW m \in DOMAIN timers', NEW n \in DOMAIN timers',
                      m < n, timers'[n] = node
               PROVE  clock_read <= delay_ms'[timers'[m]]
    BY <1>4 DEF WalkedPast
  <2>1. n # i
    <3>1. ASSUME node = e
          PROVE  FALSE
      <4>1. Contains(timers, e)
        BY <3>1, NoEventAssumption DEF Inv1, CursorLinked
      <4>2. PICK j \in 1..Len(timers) : timers[j] = e
        BY <4>1 DEF Contains
      <4> QED BY <4>2, <1>5
    <3> QED BY <3>1, <1>9
  <2>2. CASE m = i
    BY <2>2, <1>5, <1>6, <1>9
  <2>3. CASE m # i
    <3>1. /\ q(m) \in 1..Len(timers) /\ timers'[m] = timers[q(m)]
          /\ q(n) \in 1..Len(timers) /\ timers'[n] = timers[q(n)] /\ q(m) < q(n)
      BY <2>1, <2>3, <1>7, <1>8
    <3>2. clock_read <= delay_ms[timers[q(m)]]
      BY <3>1, <1>2 DEF Inv2, WalkedPast
    <3> QED BY <3>1, <3>2, <1>5
  <2> QED BY <2>2, <2>3
<1> QED BY <1>11, <1>12 DEF Inv2

LEMMA PostInv2 ==
    ASSUME Inv1, Inv2, NEW e \in Events, Post(e)
    PROVE  Inv2'
<1>2. timers \in Seq(Events) /\ Len(timers) \in Nat
  BY DEF Inv1, TypeOK
<1>3. /\ timers' \in Seq(Events) /\ Len(timers') = Len(timers) + 1
      /\ \A j \in 1..Len(timers) : timers'[j] = timers[j]
      /\ timers'[Len(timers) + 1] = e
  BY <1>2 DEF Post
<1>4. UNCHANGED <<retimed, clock_read, node>>
  BY DEF Post, walkVars, histVars
<1>5. /\ kind'[e] = "user"
      /\ \A m \in 1..Len(timers) : /\ timers[m] \in Events /\ timers[m] # e
                                   /\ delay_ms'[timers[m]] = delay_ms[timers[m]]
                                   /\ kind'[timers[m]] = kind[timers[m]]
  <2>1. delay_ms \in [Events -> 0..MaxTime]
        /\ kind \in [Events -> {"new", "timer", "user", "fd", "signal"}]
    BY DEF Inv1, TypeOK
  <2>2. ASSUME NEW m \in 1..Len(timers)
        PROVE  timers[m] \in Events /\ timers[m] # e
    <3>1. timers[m] \in Events /\ Contains(timers, timers[m])
      BY <1>2 DEF Contains
    <3>2. Timed(timers[m])
      BY <3>1 DEF Inv1, OnceEach
    <3>3. ~Timed(e)
      BY DEF Post, Alloc, Timed
    <3> QED BY <3>1, <3>2, <3>3
  <2>3. delay_ms' = [delay_ms EXCEPT ![e] = now]
        /\ kind' = [kind EXCEPT ![e] = "user"]
    BY DEF Post, Alloc
  <2> QED BY <2>1, <2>2, <2>3
<1>6. node # e
  <2>1. ASSUME node = e
        PROVE  FALSE
    <3>1. Contains(timers, e)
      BY <2>1, NoEventAssumption DEF Inv1, CursorLinked
    <3>2. PICK j \in 1..Len(timers) : timers[j] = e
      BY <3>1 DEF Contains
    <3> QED BY <3>2, <1>5
  <2> QED BY <2>1
<1>7. ASSUME NEW m \in DOMAIN timers', NEW n \in DOMAIN timers', m < n,
             kind'[timers'[n]] = "timer" \/ timers'[n] = node
      PROVE  m \in 1..Len(timers) /\ n \in 1..Len(timers)
  <2>1. n # Len(timers) + 1
    BY <1>3, <1>5, <1>6, <1>7
  <2> QED BY <2>1, <1>2, <1>3, <1>7
<1>8. Sorted'
  <2> SUFFICES ASSUME ~retimed, NEW m \in DOMAIN timers', NEW n \in DOMAIN timers',
                      m < n, kind'[timers'[n]] = "timer"
               PROVE  delay_ms'[timers'[m]] <= delay_ms'[timers'[n]]
    BY <1>4 DEF Sorted
  <2>1. m \in 1..Len(timers) /\ n \in 1..Len(timers)
    BY <1>7
  <2>2. delay_ms[timers[m]] <= delay_ms[timers[n]]
    BY <2>1, <1>2, <1>3, <1>5 DEF Inv2, Sorted
  <2> QED BY <2>1, <2>2, <1>3, <1>5
<1>9. WalkedPast'
  <2> SUFFICES ASSUME ~retimed, NEW m \in DOMAIN timers', NEW n \in DOMAIN timers',
                      m < n, timers'[n] = node
               PROVE  clock_read <= delay_ms'[timers'[m]]
    BY <1>4 DEF WalkedPast
  <2>1. m \in 1..Len(timers) /\ n \in 1..Len(timers)
    BY <1>7
  <2>2. clock_read <= delay_ms[timers[m]]
    BY <2>1, <1>2, <1>3 DEF Inv2, WalkedPast
  <2> QED BY <2>1, <2>2, <1>3, <1>5
<1> QED BY <1>8, <1>9 DEF Inv2

LEMMA StutterInv2 ==
    ASSUME Inv2, UNCHANGED vars
    PROVE  Inv2'
BY DEF Inv2, Sorted, WalkedPast, vars, eventVars, walkVars, histVars

LEMMA Inv2Next ==
    ASSUME Inv1, Inv2, [Next]_vars
    PROVE  Inv2'
BY StepCases, AddTimerInv2, PostInv2, FireTimerInv2, ReadClockInv2, OtherInv2,
   StaysInv2, StutterInv2

THEOREM LoopInv2 == Spec => []Inv2
<1>1. Init => Inv2
  BY Inv2Init
<1>2. Inv1 /\ Inv2 /\ [Next]_vars => Inv2'
  BY Inv2Next
<1> QED BY <1>1, <1>2, LoopInv1, PTL DEF Spec

\* The list is in order of deadlines, but for posted events, until a timer is
\* reset in it.
THEOREM LoopSorted == Spec => []Sorted
<1>1. Inv2 => Sorted
  BY DEF Inv2
<1> QED BY <1>1, LoopInv2, PTL

\* The list stays walkable and in order under every callback.
THEOREM LoopListSound == Spec => []ListSound
BY LoopCursor, LoopSorted, PTL DEF ListSound

\* A timer is called before every timer in the list that is due later.
THEOREM LoopFiresInOrder == Spec => FiresInOrder
<1>1. ASSUME Inv1, Inv2, FireTimer, ~retimed, NEW i \in DOMAIN timers,
             kind[timers[i]] = "timer"
      PROVE  delay_ms[node] <= delay_ms[timers[i]]
  <2>1. PICK k \in DOMAIN timers : timers[k] = node
    BY <1>1 DEF FireTimer
  <2>2. delay_ms[node] <= clock_read
    BY <1>1 DEF FireTimer, Expired
  <2>3. /\ timers \in Seq(Events) /\ Len(timers) \in Nat
        /\ clock_read \in Nat /\ \A m \in DOMAIN timers : delay_ms[timers[m]] \in Nat
    BY <1>1, LoopBoundsAssumption DEF Inv1, TypeOK
  <2>4. CASE i < k
    <3>1. clock_read <= delay_ms[timers[i]]
      BY <1>1, <2>1, <2>4 DEF Inv2, WalkedPast
    <3> QED BY <3>1, <2>1, <2>2, <2>3
  <2>5. CASE i = k
    BY <2>1, <2>3, <2>5
  <2>6. CASE i > k
    BY <1>1, <2>1, <2>6 DEF Inv2, Sorted
  <2>7. i \in Nat /\ k \in Nat
    BY <2>3
  <2> QED BY <2>4, <2>5, <2>6, <2>7
<1>2. Inv1 /\ Inv2 /\ [Next]_vars =>
        [FireTimer /\ ~retimed =>
           \A i \in DOMAIN timers :
             kind[timers[i]] = "timer" => delay_ms[node] <= delay_ms[timers[i]]]_vars
  BY <1>1
<1> QED BY <1>2, LoopInv1, LoopInv2, PTL DEF Spec, FiresInOrder


-----------------------------------------------------------------------------
(* Layer 3: the sleep, and the stop that must end it.                      *)

RunInv == pc \in {"out", "freed"} => ~running

First == IF timers = <<>> THEN NoEvent ELSE Head(timers)

\* The timeout is the one computed from the head the list has now.
Planned ==
    IF timers = <<>> THEN timeout_ms = Forever
    ELSE timeout_ms = IF delay_ms[Head(timers)] - tested_at < 0 THEN 0
                      ELSE delay_ms[Head(timers)] - tested_at

\* The timeout was computed from a head that is no longer there, for it was
\* due when the walk began.
Overtaken ==
    /\ tested_at <= clock_read
    /\ timeout_ms \in Nat /\ timeout_ms <= clock_read - tested_at

\* run_once has not yet gone to sleep, and will without testing the flag.
BeforeSleep == pc \in {"once", "timers"} \/ (pc = "callback" /\ kind[cur] # "fd")

SleepInv ==
    running =>
      /\ pc = "once" => Planned
      /\ pc = "timers" =>
           Overtaken \/ (tested_at <= clock_read /\ Planned /\ node = First)
      /\ pc = "callback" /\ kind[cur] # "fd" => Overtaken

WakeInv ==
    running /\ stop_requested /\ (BeforeSleep \/ pc = "poll") =>
      wakeup \/ \E s \in Stoppers : spc[s] = "waking"

Inv3 == RunInv /\ SleepInv /\ SleepBounded /\ WakeInv

LEMMA Inv3Init ==
    ASSUME Init
    PROVE  Inv3
BY DEF Init, Inv3, RunInv, SleepInv, SleepBounded, WakeInv, BeforeSleep

\* What callbacks call.
LEMMA CallInv3 ==
    ASSUME Inv1, Inv3, Call
    PROVE  Inv3'
<1>1. pc' = pc /\ pc \in {"out", "callback"}
  BY DEF Call, AddTimer, AddFd, Post, StopHere, ReadFd, TimerReset, RemoveEvent,
         ModifyFd, AddSignal, Alloc, MayCall
<1>2. UNCHANGED <<running, timeout_ms, clock_read, cur, tested_at, spc>>
  BY DEF Call, AddTimer, AddFd, Post, StopHere, ReadFd, TimerReset, RemoveEvent,
         ModifyFd, AddSignal, flagVars, walkVars, histVars
<1>3. wakeup' = TRUE \/ UNCHANGED <<wakeup, stop_requested>>
  BY DEF Call, AddTimer, AddFd, Post, StopHere, ReadFd, TimerReset, RemoveEvent,
         ModifyFd, AddSignal, flagVars, epollVars
<1>4. kind' = kind \/ \E e \in Events : kind[e] = "new" /\
                        \E k : kind' = [kind EXCEPT ![e] = k]
  BY DEF Call, AddTimer, AddFd, Post, StopHere, ReadFd, TimerReset, RemoveEvent,
         ModifyFd, AddSignal, Alloc, eventVars
<1>5. pc = "callback" => kind'[cur] = kind[cur]
  BY <1>4 DEF Inv1, TypeOK, KindInv
<1>6. RunInv'
  BY <1>1, <1>2 DEF Inv3, RunInv
<1>7. SleepInv'
  BY <1>1, <1>2, <1>5 DEF Inv3, SleepInv, Overtaken
<1>8. SleepBounded'
  BY <1>1 DEF SleepBounded
<1>9. WakeInv'
  BY <1>1, <1>2, <1>3, <1>5 DEF Inv3, WakeInv, BeforeSleep
<1> QED BY <1>6, <1>7, <1>8, <1>9 DEF Inv3

\* Other threads, signal handlers, the clock and the descriptors.
LEMMA ElsewhereInv3 ==
    ASSUME Inv1, Inv3,
           \/ \E s \in Stoppers : RequestStop(s) \/ Wakeup(s)
           \/ Tick \/ \E e \in Events : DataArrives(e)
           \/ SignalArrives
    PROVE  Inv3'
<1>1. UNCHANGED <<running, timers, delay_ms, kind, timeout_ms, clock_read, node,
                  cur, pc, tested_at, slept_at>>
  BY DEF RequestStop, Wakeup, Tick, DataArrives, SignalArrives, flagVars,
         eventVars, walkVars, histVars
<1>2. RunInv' /\ SleepInv' /\ SleepBounded'
  BY <1>1 DEF Inv3, RunInv, SleepInv, SleepBounded, Planned, Overtaken, First
<1>3. WakeInv'
  <2>1. ASSUME NEW s \in Stoppers, RequestStop(s), running
        PROVE  spc'[s] = "waking"
    BY <2>1 DEF RequestStop, Inv1, TypeOK
  <2>2. \/ \E s \in Stoppers : RequestStop(s)
        \/ wakeup' = TRUE
        \/ UNCHANGED <<stop_requested, wakeup, spc>>
    BY DEF Wakeup, Tick, DataArrives, SignalArrives, flagVars, epollVars
  <2>3. BeforeSleep' <=> BeforeSleep
    BY <1>1 DEF BeforeSleep
  <2> QED BY <1>1, <2>1, <2>2, <2>3 DEF Inv3, WakeInv
<1> QED BY <1>2, <1>3 DEF Inv3

\* Steps after which the loop is neither asleep nor about to be.
LEMMA AwakeInv3 ==
    ASSUME Inv1, Inv3,
           \/ Run \/ ClearStop \/ Leave \/ Free \/ DrainWakeup \/ EventsDone
           \/ PollReturn \/ PollTimeout \/ PollInterrupted
           \/ \E e \in Events : DispatchFd(e)
    PROVE  Inv3'
<1>1. pc' \notin {"once", "timers", "poll"}
  BY DEF Run, ClearStop, Leave, Free, DrainWakeup, EventsDone, PollReturn,
         PollTimeout, PollInterrupted, DispatchFd, Return
<1>2. pc' = "callback" => kind'[cur'] = "fd"
  BY DEF Run, ClearStop, Leave, Free, DrainWakeup, EventsDone, PollReturn,
         PollTimeout, PollInterrupted, DispatchFd, Return, Inv1, KindInv, eventVars
<1>3. RunInv'
  BY DEF Run, ClearStop, Leave, Free, DrainWakeup, EventsDone, PollReturn,
         PollTimeout, PollInterrupted, DispatchFd, Return, Inv3, RunInv, flagVars
<1> QED BY <1>1, <1>2, <1>3 DEF Inv3, SleepInv, SleepBounded, WakeInv, BeforeSleep

LEMMA ComputeTimeoutInv3 ==
    ASSUME Inv1, Inv3, ComputeTimeout
    PROVE  Inv3'
<1>1. /\ pc' = "once" /\ tested_at' = now /\ timeout_ms' = Timeout
      /\ ~stop_requested' /\ UNCHANGED <<timers, delay_ms>>
  BY DEF ComputeTimeout, flagVars, eventVars
<1>2. Planned'
  BY <1>1 DEF Planned, Timeout
<1> QED BY <1>1, <1>2 DEF Inv3, RunInv, SleepInv, SleepBounded, WakeInv

LEMMA RunOnceInv3 ==
    ASSUME Inv3, NEW t \in Delays \cup {Forever}, RunOnce(t)
    PROVE  Inv3'
<1>1. pc' = "once" /\ ~running'
  BY DEF RunOnce, Inv3, RunInv, flagVars
<1> QED BY <1>1 DEF Inv3, RunInv, SleepInv, SleepBounded, WakeInv

LEMMA ReadClockInv3 ==
    ASSUME Inv1, Inv3, ReadClock
    PROVE  Inv3'
<1>1. /\ pc = "once" /\ pc' = "timers" /\ clock_read' = now /\ node' = First
      /\ UNCHANGED <<running, stop_requested, wakeup, spc, timers, delay_ms,
                     timeout_ms, tested_at>>
  BY DEF ReadClock, First, flagVars, epollVars, eventVars, histVars
<1>2. tested_at <= now
  BY LoopBoundsAssumption DEF Inv1, TypeOK
<1>3. SleepInv'
  BY <1>1, <1>2 DEF Inv3, SleepInv, Planned, First
<1>4. WakeInv'
  BY <1>1 DEF Inv3, WakeInv, BeforeSleep
<1> QED BY <1>1, <1>3, <1>4 DEF Inv3, RunInv, SleepBounded

LEMMA FireTimerInv3 ==
    ASSUME Inv1, Inv3, FireTimer
    PROVE  Inv3'
<1>1. /\ pc = "timers" /\ pc' = "callback" /\ node # NoEvent
      /\ delay_ms[node] <= clock_read
      /\ UNCHANGED <<running, stop_requested, wakeup, spc, timeout_ms,
                     clock_read, tested_at>>
  BY DEF FireTimer, Expired, flagVars, epollVars
<1>2. running => Overtaken'
  <2>1. ASSUME running, tested_at <= clock_read, Planned, node = First
        PROVE  Overtaken
    <3>1. timers # <<>> /\ node = Head(timers)
      BY <1>1, <2>1 DEF First
    <3>2. /\ delay_ms[node] \in Nat /\ clock_read \in Nat /\ tested_at \in Nat
      BY <1>1, LoopBoundsAssumption DEF Inv1, TypeOK
    <3>3. timeout_ms = IF delay_ms[node] - tested_at < 0 THEN 0
                       ELSE delay_ms[node] - tested_at
      BY <2>1, <3>1 DEF Planned
    <3> QED BY <1>1, <2>1, <3>2, <3>3 DEF Overtaken
  <2>2. running => Overtaken
    BY <1>1, <2>1 DEF Inv3, SleepInv
  <2> QED BY <1>1, <2>2 DEF Overtaken
<1>3. SleepInv'
  BY <1>1, <1>2 DEF SleepInv
<1>4. WakeInv'
  BY <1>1 DEF Inv3, WakeInv, BeforeSleep
<1> QED BY <1>1, <1>3, <1>4 DEF Inv3, RunInv, SleepBounded

LEMMA EnterPollInv3 ==
    ASSUME Inv1, Inv3, EnterPoll
    PROVE  Inv3'
<1>1. /\ pc = "timers" /\ pc' = "poll" /\ slept_at' = now
      /\ UNCHANGED <<running, stop_requested, wakeup, spc, timeout_ms, timers,
                     delay_ms, tested_at>>
  BY DEF EnterPoll, flagVars, epollVars, eventVars
<1>2. ASSUME running, timers # <<>>
      PROVE  SleepBounded'
  <2> DEFINE due == delay_ms[Head(timers)]
  <2>1. Head(timers) \in Events
    BY <1>2 DEF Inv1, TypeOK
  <2>2. /\ due \in Nat /\ clock_read \in Nat /\ tested_at \in Nat /\ now \in Nat
        /\ clock_read <= now /\ tested_at <= now
    BY <2>1, LoopBoundsAssumption DEF Inv1, TypeOK
  <2> DEFINE latest == IF due < now THEN now ELSE due
  <2>3. timeout_ms \in Nat /\ now + timeout_ms <= latest + (now - tested_at)
    <3>1. CASE Overtaken
      BY <3>1, <2>2 DEF Overtaken
    <3>2. CASE Planned
      <4>1. timeout_ms = IF due - tested_at < 0 THEN 0 ELSE due - tested_at
        BY <3>2, <1>2 DEF Planned
      <4> HIDE DEF due
      <4> QED BY <4>1, <2>2
    <3> QED BY <3>1, <3>2, <1>1, <1>2 DEF Inv3, SleepInv
  <2>4. timeout_ms # Forever
    BY <2>3 DEF Forever
  <2> QED BY <1>1, <2>3, <2>4 DEF SleepBounded
<1>3. SleepBounded'
  BY <1>1, <1>2 DEF SleepBounded
<1>4. WakeInv'
  BY <1>1 DEF Inv3, WakeInv, BeforeSleep
<1> QED BY <1>1, <1>3, <1>4 DEF Inv3, RunInv, SleepInv

LEMMA CallbackReturnInv3 ==
    ASSUME Inv1, Inv3, CallbackReturn
    PROVE  Inv3'
<1>1. /\ pc = "callback" /\ pc' = IF kind[cur] = "fd" THEN "events" ELSE "timers"
      /\ UNCHANGED <<running, stop_requested, wakeup, spc, timeout_ms,
                     clock_read, tested_at>>
  BY DEF CallbackReturn, flagVars, epollVars, histVars
<1>2. SleepInv'
  BY <1>1 DEF Inv3, SleepInv, Overtaken
<1>3. WakeInv'
  BY <1>1 DEF Inv3, WakeInv, BeforeSleep
<1> QED BY <1>1, <1>2, <1>3 DEF Inv3, RunInv, SleepBounded

LEMMA StutterInv3 ==
    ASSUME Inv3, UNCHANGED vars
    PROVE  Inv3'
BY DEF Inv3, RunInv, SleepInv, SleepBounded, WakeInv, BeforeSleep, Planned,
       Overtaken, First, vars, eventVars, flagVars, epollVars, walkVars, histVars

LEMMA Inv3Next ==
    ASSUME Inv1, Inv3, [Next]_vars
    PROVE  Inv3'
BY CallInv3, ElsewhereInv3, AwakeInv3, ComputeTimeoutInv3, RunOnceInv3,
   ReadClockInv3, FireTimerInv3, EnterPollInv3, CallbackReturnInv3, StutterInv3
   DEF Next, LoopStep

THEOREM LoopInv3 == Spec => []Inv3
<1>1. Init => Inv3
  BY Inv3Init
<1>2. Inv1 /\ Inv3 /\ [Next]_vars => Inv3'
  BY Inv3Next
<1> QED BY <1>1, <1>2, LoopInv1, PTL DEF Spec

\* The loop oversleeps its next timer by no more than the time that passed
\* between the computation of the timeout and epoll_wait.
THEOREM LoopSleepBounded == Spec => []SleepBounded
<1>1. Inv3 => SleepBounded
  BY DEF Inv3
<1> QED BY <1>1, LoopInv3, PTL

\* A stop that stands while the loop is asleep wakes it, or is about to.
THEOREM LoopNoLostWakeup == Spec => []NoLostWakeup
<1>1. Inv3 => NoLostWakeup
  BY DEF Inv3, WakeInv, NoLostWakeup
<1> QED BY <1>1, LoopInv3, PTL

\* The loop sleeps neither past its next timer nor through a stop.
THEOREM LoopSleepsSafely == Spec => []SleepsSafely
BY LoopSleepBounded, LoopNoLostWakeup, PTL DEF SleepsSafely
=============================================================================
