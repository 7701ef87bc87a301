----------------------------- MODULE NotifyProofs -----------------------------
(***************************************************************************)
(* Proofs about module Notify, for every capacity of the channel, size of  *)
(* the sweep, limit and bound: its sinks implement Delivery, and a flushed *)
(* sweep has settled every event.                                          *)
(***************************************************************************)
EXTENDS Notify, FiniteSetTheorems, TLAPS

LEMMA EventType ==
  ASSUME NEW type \in Types, NEW share \in 0 .. 4
  PROVE  Event(type, share) \in EventSet
  BY DEF Event, EventSet

(* What a result makes the dispatcher announce is a sequence of events,    *)
(* none of which ends the sweep.                                           *)
Middle == {e \in EventSet : e.type \notin EndEvents}

LEMMA IfType ==
  ASSUME NEW due, NEW type \in Types \ EndEvents, NEW share \in 0 .. 4
  PROVE  If(due, type, share) \in Seq(Middle)
<1>1. Event(type, share) \in Middle
  BY EventType DEF Middle, Event
<1> QED
  BY <1>1 DEF If

LEMMA AnnouncementsType ==
  ASSUME NEW cost, NEW count, NEW trips
  PROVE  Announcements(cost, count, trips) \in Seq(Middle)
<1> USE DEF Types, EndEvents
<1>1. Thresholds(cost) \in Seq(Middle)
  <2> DEFINE T(i) == If(Crosses(i, cost), "threshold", i)
  <2>1. T(1) \in Seq(Middle) /\ T(2) \in Seq(Middle) /\ T(3) \in Seq(Middle)
          /\ T(4) \in Seq(Middle)
    BY IfType
  <2>2. Thresholds(cost) = T(1) \o T(2) \o T(3) \o T(4)
    BY DEF Thresholds
  <2> HIDE DEF T
  <2> QED
    BY <2>1, <2>2
<1>2. Milestones(count) \in Seq(Middle)
  <2> DEFINE T(i) == If(Reaches(i, count), "milestone", i)
  <2>1. T(1) \in Seq(Middle) /\ T(2) \in Seq(Middle) /\ T(3) \in Seq(Middle)
    BY IfType
  <2>2. Milestones(count) = T(1) \o T(2) \o T(3)
    BY DEF Milestones
  <2> HIDE DEF T
  <2> QED
    BY <2>1, <2>2
<1>3. If(trips, "halt", 0) \in Seq(Middle)
  BY IfType
<1>4. <<Event("instance", 0)>> \in Seq(Middle)
  BY EventType DEF Middle, Event
<1> QED
  BY <1>1, <1>2, <1>3, <1>4 DEF Announcements

----------------------------------------------------------------------------
(* Types                                                                   *)

LEMMA TypeInit == Init => TypeOK
<1> SUFFICES ASSUME Init PROVE TypeOK
  OBVIOUS
<1>1. Event("started", 0) \in EventSet
  BY EventType DEF Types
<1>2. outbox \in Seq(EventSet) /\ queue \in Seq(EventSet) /\ Len(queue) <= Capacity
  BY <1>1, CapacityAssumption DEF Init
<1>3. sending \in EventSet /\ heard \in EventSet
  BY <1>1 DEF Init, NoEvent
<1>4. said \in [{"threshold", "milestone"} -> [1 .. 4 -> Nat]]
  BY DEF Init
<1>5. rows \in Nat /\ cumulative_cost \in Nat
  <2>1. rows \in {0, 1}
    BY DEF Init
  <2>2. rows * MaxCost \in Nat
    BY <2>1, BoundAssumption
  <2> QED
    BY <2>1, <2>2 DEF Init
<1> QED
  BY <1>2, <1>3, <1>4, <1>5 DEF Init, TypeOK

(* Counting up one share of a table, even one it does not have.            *)
LEMMA CountUp ==
  ASSUME NEW f \in [1 .. 4 -> Nat], NEW i
  PROVE  [f EXCEPT ![i] = @ + 1] \in [1 .. 4 -> Nat]
<1>1. CASE i \in 1 .. 4
  BY <1>1
<1>2. CASE i \notin 1 .. 4
  BY <1>2
<1> QED
  BY <1>1, <1>2

(* An event that is numbered stays an event.                               *)
LEMMA NumberedType ==
  ASSUME TypeOK, NEW e \in EventSet
  PROVE  /\ Numbered(e) \in EventSet
         /\ Numbered(e).n = announced + 1
         /\ Numbered(e).type = e.type /\ Numbered(e).count = e.count
<1>1. announced + 1 \in Nat
  BY DEF TypeOK
<1>2. Numbered(e) = [e EXCEPT !.n = announced + 1]
  BY DEF Numbered
<1> QED
  BY <1>1, <1>2 DEF EventSet

(* So is the last event, which says how many were dropped so far.          *)
LEMMA LastEventType ==
  ASSUME TypeOK
  PROVE  LastEvent \in EventSet /\ LastEvent.type = "sweep_completed" /\ LastEvent.count = dropped
<1>1. Event("sweep_completed", 0) \in EventSet /\ dropped \in Nat
  BY EventType DEF Types, TypeOK
<1>2. LastEvent = [Event("sweep_completed", 0) EXCEPT !.count = dropped]
  BY DEF LastEvent
<1>3. Event("sweep_completed", 0).type = "sweep_completed"
  BY DEF Event
<1> QED
  BY <1>1, <1>2, <1>3 DEF EventSet

(* The counter counts.                                                     *)
LEMMA LossType ==
  ASSUME TypeOK, NEW e, e.n \in Nat, Dropped(e)
  PROVE  dropped' \in Nat /\ failed_ends' \subseteq Nat
<1>1. dropped' = dropped + 1 /\ failed_ends' = FailedEnds(e)
  BY DEF Dropped
<1>2. dropped \in Nat /\ failed_ends \subseteq Nat
  BY DEF TypeOK
<1>3. FailedEnds(e) \subseteq Nat
  BY <1>2 DEF FailedEnds
<1>4. dropped + 1 \in Nat
  BY <1>2
<1> QED
  BY <1>1, <1>3, <1>4

LEMMA TypeEmit == ASSUME TypeOK, Emit PROVE TypeOK'
<1> DEFINE e == Numbered(Head(outbox))
<1>1. Head(outbox) \in EventSet /\ Tail(outbox) \in Seq(EventSet)
  BY DEF TypeOK, Emit
<1>2. e \in EventSet /\ e.n = announced + 1
  BY <1>1, NumberedType
<1>3. announced' = e.n /\ outbox' = Tail(outbox)
  BY DEF Emit
<1>4. said' = IF e.type \in DOMAIN said THEN [said EXCEPT ![e.type][e.share] = @ + 1] ELSE said
  BY DEF Emit
<1>5. \/ Len(queue) < Capacity /\ queue' = Append(queue, e) /\ UNCHANGED lossVars
      \/ Dropped(e) /\ UNCHANGED queue
  BY DEF Emit, Refused
<1>u. UNCHANGED <<sink, phase, loopVars, sending, heardVars>>
  BY DEF Emit
<1> HIDE DEF e
<1>6. said' \in [{"threshold", "milestone"} -> [1 .. 4 -> Nat]]
  <2>1. CASE e.type \in DOMAIN said
    <3>1. said[e.type] \in [1 .. 4 -> Nat]
      BY <2>1 DEF TypeOK
    <3>2. [said[e.type] EXCEPT ![e.share] = @ + 1] \in [1 .. 4 -> Nat]
      BY <3>1, CountUp
    <3>3. said' = [said EXCEPT ![e.type] = [said[e.type] EXCEPT ![e.share] = @ + 1]]
      BY <1>4, <2>1
    <3> QED
      BY <3>2, <3>3 DEF TypeOK
  <2> QED
    BY <1>4, <2>1 DEF TypeOK
<1>7. queue' \in Seq(EventSet) /\ Len(queue') <= Capacity
  <2>1. CASE Len(queue) < Capacity /\ queue' = Append(queue, e)
    <3>1. queue \in Seq(EventSet)
      BY DEF TypeOK
    <3>2. Append(queue, e) \in Seq(EventSet) /\ Len(Append(queue, e)) = Len(queue) + 1
      BY <3>1, <1>2
    <3>3. Len(queue) \in Nat
      BY <3>1
    <3> QED
      BY <2>1, <3>2, <3>3, CapacityAssumption
  <2>2. CASE UNCHANGED queue
    BY <2>2 DEF TypeOK
  <2> QED
    BY <1>5, <2>1, <2>2
<1>8. dropped' \in Nat /\ failed_ends' \subseteq Nat
  <2>1. e.n \in Nat
    BY <1>2 DEF TypeOK
  <2>2. CASE UNCHANGED lossVars
    BY <2>2 DEF TypeOK, lossVars
  <2>3. CASE Dropped(e)
    BY <2>1, <2>3, LossType
  <2> QED
    BY <1>5, <2>2, <2>3
<1>9. announced' \in Nat
  BY <1>2, <1>3 DEF TypeOK
<1>10. outbox' \in Seq(EventSet)
  BY <1>1, <1>3
<1> QED
  BY <1>6, <1>7, <1>8, <1>9, <1>10, <1>u DEF TypeOK, loopVars, heardVars

LEMMA TypeJoin == ASSUME TypeOK, NEW cost \in 0 .. MaxCost, NEW trips \in BOOLEAN,
                         JoinResult(cost, trips)
                  PROVE  TypeOK'
<1>1. outbox' \in Seq(Middle)
  BY AnnouncementsType DEF JoinResult
<1>2. outbox' \in Seq(EventSet)
  BY <1>1 DEF Middle
<1>3. rows' \in Nat /\ cumulative_cost' \in Nat /\ judged' \in [rows : Nat, cost : Nat]
  BY BoundAssumption DEF JoinResult, TypeOK
<1>4. thresholds_fired' \subseteq 1 .. 4 /\ milestones_fired' \subseteq 1 .. 3
  BY DEF JoinResult, TypeOK, Fired
<1>5. systemic_halt_triggered' \in BOOLEAN
  BY DEF JoinResult, TypeOK
<1>u. UNCHANGED <<sink, phase, sinkVars, saidVars>>
  BY DEF JoinResult
<1> QED
  BY <1>2, <1>3, <1>4, <1>5, <1>u DEF TypeOK, sinkVars, saidVars, heardVars, lossVars

(* The steps that leave the channel and its task alone.                    *)
Quiet == JoinPanic \/ SweepCompletes \/ SweepFails \/ RunStep \/ RunEnds \/ RunReturns
           \/ Flush \/ FlushElapses \/ ProcessExits

LEMMA TypeQuiet == ASSUME TypeOK, Quiet PROVE TypeOK'
<1>1. outbox' \in Seq(EventSet)
  <2>1. outbox' \in {outbox, <<LastEvent>>, <<Event("step", 0)>>,
                     <<Event("run_ended", 0)>>}
    BY DEF Quiet, JoinPanic, SweepCompletes, SweepFails, RunStep, RunEnds, RunReturns, Flush,
           FlushElapses, ProcessExits
  <2>2. /\ LastEvent \in EventSet /\ Event("step", 0) \in EventSet
        /\ Event("run_ended", 0) \in EventSet
    BY EventType, LastEventType DEF Types
  <2>3. ASSUME NEW e \in EventSet PROVE <<e>> \in Seq(EventSet)
    OBVIOUS
  <2>4. outbox \in Seq(EventSet)
    BY DEF TypeOK
  <2>5. /\ <<LastEvent>> \in Seq(EventSet)
        /\ <<Event("step", 0)>> \in Seq(EventSet) /\ <<Event("run_ended", 0)>> \in Seq(EventSet)
    BY <2>2, <2>3
  <2> QED
    BY <2>1, <2>4, <2>5
<1>2. phase' \in {"loop", "submitted", "flush", "flushed", "returned", "over"}
  BY DEF Quiet, TypeOK, JoinPanic, SweepCompletes, SweepFails, RunStep, RunEnds, RunReturns,
         Flush, FlushElapses, ProcessExits
<1>3. rows' \in Nat
  <2>1. rows' = rows \/ rows' = rows + 1
    BY DEF Quiet, loopVars, JoinPanic, SweepCompletes, SweepFails, RunStep, RunEnds,
           RunReturns, Flush, FlushElapses, ProcessExits
  <2>2. rows \in Nat
    BY DEF TypeOK
  <2> QED
    BY <2>1, <2>2
<1>4. UNCHANGED <<sink, sinkVars, saidVars, cumulative_cost, thresholds_fired, milestones_fired,
                  systemic_halt_triggered, judged>>
  BY DEF Quiet, loopVars, JoinPanic, SweepCompletes, SweepFails, RunStep, RunEnds,
         RunReturns, Flush, FlushElapses, ProcessExits
<1> QED
  BY <1>1, <1>2, <1>3, <1>4 DEF TypeOK, sinkVars, saidVars, heardVars, lossVars

LEMMA TypeTask == ASSUME TypeOK, Receive \/ PostSucceeds \/ PostFails PROVE TypeOK'
<1>n. NoEvent \in EventSet
  BY EventType DEF NoEvent, Types
<1>1. CASE Receive
  <2>1. Head(queue) \in EventSet /\ Tail(queue) \in Seq(EventSet)
          /\ Len(Tail(queue)) <= Capacity
    BY <1>1, CapacityAssumption DEF Receive, TypeOK
  <2>2. Stamped(Head(queue)) \in EventSet
    BY <2>1 DEF Stamped, EventSet, TypeOK
  <2> QED
    BY <1>1, <2>1, <2>2 DEF Receive, TypeOK, loopVars, lossVars, heardVars, saidVars
<1>2. CASE PostSucceeds
  BY <1>2, <1>n DEF PostSucceeds, TypeOK, loopVars, lossVars, saidVars
<1>3. CASE PostFails
  <2>1. sending.n \in Nat
    BY DEF TypeOK, EventSet
  <2>2. dropped' \in Nat /\ failed_ends' \subseteq Nat
    BY <1>3, <2>1, LossType DEF PostFails
  <2> QED
    BY <1>3, <1>n, <2>2 DEF PostFails, TypeOK, loopVars, heardVars, saidVars
<1> QED
  BY <1>1, <1>2, <1>3

LEMMA TypeStep == TypeOK /\ [Next]_vars => TypeOK'
<1> SUFFICES ASSUME TypeOK, [Next]_vars PROVE TypeOK'
  OBVIOUS
<1>1. CASE UNCHANGED vars
  BY <1>1 DEF TypeOK, vars, loopVars, sinkVars, lossVars, heardVars, saidVars
<1>2. CASE Next
  <2>1. ASSUME NEW cost \in 0 .. MaxCost, NEW trips \in BOOLEAN, JoinResult(cost, trips)
        PROVE  TypeOK'
    BY <2>1, TypeJoin
  <2> QED
    BY <1>1, <1>2, <2>1, TypeEmit, TypeQuiet, TypeTask DEF Next, Quiet, Over
<1> QED
  BY <1>1, <1>2

(* Every variable has its shape in every reachable state, whatever the     *)
(* size of the channel and of the sweep (src/stream, src/run/swebench.rs). *)
THEOREM TypeCorrect == Spec => []TypeOK
  BY TypeInit, TypeStep, PTL DEF Spec

----------------------------------------------------------------------------
(* The inductive invariant: what is on its way has a number, a sweep never *)
(* speaks of the end of a run, and whoever flushes has its last event      *)
(* somewhere.                                                              *)
Known == {e \in EventSet : sink = "sweep" => e.type # "run_ended"}
Underway == {e \in Known : e.n > 0}

Last(e) == e.type = "sweep_completed"
LastSomewhere ==
  \/ \E k \in 1 .. Len(outbox) : Last(outbox[k])
  \/ \E k \in 1 .. Len(queue) : Last(queue[k])
  \/ Last(sending) \/ Last(heard) \/ failed_ends # {}

Sorted ==
  /\ outbox \in Seq(Known) /\ queue \in Seq(Underway)
  /\ sending = NoEvent \/ sending \in Underway
Ending ==
  /\ phase \in {"flush", "flushed"} => sink = "sweep" /\ LastSomewhere
  /\ phase = "flushed" => Drained
Balance == announced = OnTheWay + delivered + dropped
IInv == TypeOK /\ Sorted /\ Ending /\ Balance

LEMMA SilentIsNoEvent == NoEvent \notin Underway /\ ~Last(NoEvent) /\ NoEvent.type = "started"
  BY DEF NoEvent, Event, Underway, Last

(* An event of a sweep, or any event of a run, is known.                   *)
LEMMA KnownEvent ==
  ASSUME NEW type \in Types, sink = "sweep" => type # "run_ended"
  PROVE  <<Event(type, 0)>> \in Seq(Known)
<1>1. Event(type, 0) \in EventSet
  BY EventType
<1>2. Event(type, 0) \in Known
  BY <1>1 DEF Known, Event
<1> QED
  BY <1>2

LEMMA InitIInv == Init => IInv
<1> SUFFICES ASSUME Init PROVE IInv
  OBVIOUS
<1>1. TypeOK
  BY TypeInit
<1>2. Sorted
  <2>1. <<Event("started", 0)>> \in Seq(Known)
    BY KnownEvent DEF Types
  <2> QED
    BY <2>1 DEF Init, Sorted
<1>3. Ending
  BY DEF Init, Ending
<1>4. Balance
  BY DEF Init, Balance, OnTheWay
<1> QED
  BY <1>1, <1>2, <1>3, <1>4 DEF IInv

LEMMA SortedStep == ASSUME IInv, [Next]_vars PROVE Sorted'
<1> USE DEF IInv
<1>s. sink' = sink /\ Known' = Known /\ Underway' = Underway
  <2>1. sink' = sink
    BY DEF vars, Next, Emit, JoinResult, JoinPanic, SweepCompletes, SweepFails, RunStep, RunEnds,
           RunReturns, Receive, PostSucceeds, PostFails, Flush, FlushElapses, ProcessExits, Over
  <2> QED
    BY <2>1 DEF Known, Underway
<1>1. CASE Emit
  <2> DEFINE e == Numbered(Head(outbox))
  <2>1. Head(outbox) \in Known /\ Tail(outbox) \in Seq(Known)
    BY <1>1 DEF Emit, Sorted
  <2>2. Head(outbox) \in EventSet
    BY <2>1 DEF Known
  <2>3. e \in EventSet /\ e.n = announced + 1 /\ e.type = Head(outbox).type
    BY <2>2, NumberedType
  <2>4. e \in Underway
    BY <2>1, <2>3 DEF Underway, Known, TypeOK
  <2>5. \/ queue' = Append(queue, e)
        \/ UNCHANGED queue
    BY <1>1 DEF Emit, Refused
  <2>6. outbox' = Tail(outbox) /\ UNCHANGED sending
    BY <1>1 DEF Emit
  <2> HIDE DEF e
  <2>7. queue' \in Seq(Underway)
    <3>1. queue \in Seq(Underway)
      BY DEF Sorted
    <3>2. Append(queue, e) \in Seq(Underway)
      BY <3>1, <2>4
    <3> QED
      BY <2>5, <3>1, <3>2
  <2> QED
    BY <1>s, <2>1, <2>6, <2>7 DEF Sorted
<1>2. ASSUME NEW cost \in 0 .. MaxCost, NEW trips \in BOOLEAN, JoinResult(cost, trips)
      PROVE  Sorted'
  <2>1. outbox' \in Seq(Middle)
    BY <1>2, AnnouncementsType DEF JoinResult
  <2>2. outbox' \in Seq(Known)
    BY <2>1 DEF Middle, Known, EndEvents
  <2> QED
    BY <1>s, <1>2, <2>2 DEF Sorted, JoinResult, sinkVars
<1>3. CASE Quiet
  <2>1. outbox' \in Seq(Known)
    <3>1. CASE UNCHANGED outbox
      BY <3>1 DEF Sorted
    <3>2. CASE SweepCompletes
      <4>1. LastEvent \in EventSet /\ LastEvent.type # "run_ended"
        BY LastEventType
      <4>2. LastEvent \in Known
        BY <4>1 DEF Known
      <4>3. <<LastEvent>> \in Seq(Known)
        BY <4>2
      <4> QED
        BY <3>2, <4>3 DEF SweepCompletes
    <3>3. CASE RunStep
      BY <3>3, KnownEvent DEF RunStep, Types
    <3>4. CASE RunEnds
      BY <3>4, KnownEvent DEF RunEnds, Types
    <3> QED
      BY <1>3, <3>1, <3>2, <3>3, <3>4 DEF Quiet, JoinPanic, SweepFails, RunReturns, Flush,
                                          FlushElapses, ProcessExits
  <2>2. UNCHANGED sinkVars
    BY <1>3 DEF Quiet, JoinPanic, SweepCompletes, SweepFails, RunStep, RunEnds, RunReturns, Flush,
                FlushElapses, ProcessExits
  <2> QED
    BY <1>s, <2>1, <2>2 DEF Sorted, sinkVars
<1>4. CASE Receive
  <2>1. Head(queue) \in Underway /\ Tail(queue) \in Seq(Underway)
    BY <1>4 DEF Receive, Sorted
  <2>2. Stamped(Head(queue)) \in Underway
    BY <2>1 DEF Stamped, Underway, Known, EventSet, TypeOK
  <2> QED
    BY <1>s, <1>4, <2>1, <2>2 DEF Receive, Sorted
<1>5. CASE PostSucceeds \/ PostFails
  BY <1>s, <1>5 DEF PostSucceeds, PostFails, Sorted
<1>6. CASE UNCHANGED vars
  BY <1>s, <1>6 DEF vars, sinkVars, Sorted
<1> QED
  BY <1>1, <1>2, <1>3, <1>4, <1>5, <1>6 DEF Next, Quiet, Over

(* What each step does to the number of events on their way.               *)
LEMMA WayEmit ==
  ASSUME IInv, Emit
  PROVE  /\ announced' = announced + 1 /\ UNCHANGED delivered
         /\ \/ OnTheWay < Capacity + 1 /\ OnTheWay' = OnTheWay + 1 /\ UNCHANGED dropped
            \/ OnTheWay > 0 /\ OnTheWay' = OnTheWay /\ dropped' = dropped + 1
<1> DEFINE e == Numbered(Head(outbox))
<1>1. Head(outbox) \in EventSet
  BY DEF IInv, TypeOK, Emit
<1>2. e.n = announced + 1
  BY <1>1, NumberedType DEF IInv
<1>3. announced' = e.n /\ UNCHANGED <<sending, delivered>>
  BY DEF Emit, heardVars
<1>4. \/ Len(queue) < Capacity /\ queue' = Append(queue, e) /\ UNCHANGED lossVars
      \/ ~(Len(queue) < Capacity) /\ Dropped(e) /\ UNCHANGED queue
  BY DEF Emit, Refused
<1> HIDE DEF e
<1> DEFINE busy == IF sending = NoEvent THEN 0 ELSE 1
<1>5. busy \in {0, 1} /\ busy' = busy /\ OnTheWay = Len(queue) + busy
        /\ OnTheWay' = Len(queue') + busy
  BY <1>3 DEF OnTheWay, NoEvent
<1>6. queue \in Seq(EventSet) /\ Len(queue) \in Nat /\ dropped \in Nat
  BY DEF IInv, TypeOK
<1> HIDE DEF busy
<1>7. CASE Len(queue) < Capacity /\ queue' = Append(queue, e) /\ UNCHANGED lossVars
  <2>1. Len(queue') = Len(queue) + 1
    BY <1>6, <1>7
  <2> QED
    BY <1>2, <1>3, <1>5, <1>6, <1>7, <2>1, CapacityAssumption DEF lossVars
<1>8. CASE ~(Len(queue) < Capacity) /\ Dropped(e) /\ UNCHANGED queue
  BY <1>2, <1>3, <1>5, <1>6, <1>8, CapacityAssumption DEF Dropped
<1> QED
  BY <1>4, <1>7, <1>8

LEMMA WayReceive ==
  ASSUME IInv, Receive
  PROVE  OnTheWay' = OnTheWay /\ UNCHANGED <<announced, delivered, dropped>>
<1>1. Head(queue) \in Underway /\ Len(Tail(queue)) = Len(queue) - 1 /\ Len(queue) \in Nat
  BY DEF IInv, Sorted, Receive
<1>2. Stamped(Head(queue)) \in Underway
  BY <1>1 DEF Stamped, Underway, Known, EventSet, IInv, TypeOK
<1>3. sending = NoEvent /\ sending' # NoEvent /\ queue' = Tail(queue)
  BY <1>2, SilentIsNoEvent DEF Receive
<1>4. OnTheWay = Len(queue) /\ OnTheWay' = Len(Tail(queue)) + 1
  BY <1>1, <1>3 DEF OnTheWay, NoEvent
<1> QED
  BY <1>1, <1>4 DEF Receive, lossVars, heardVars, saidVars

LEMMA WayPost ==
  ASSUME IInv, PostSucceeds \/ PostFails
  PROVE  /\ OnTheWay > 0 /\ OnTheWay' = OnTheWay - 1 /\ UNCHANGED announced
         /\ \/ PostSucceeds /\ delivered' = delivered + 1 /\ UNCHANGED dropped
            \/ PostFails /\ dropped' = dropped + 1 /\ UNCHANGED delivered
<1>1. sending # NoEvent /\ sending' = NoEvent /\ UNCHANGED <<queue, announced>>
  BY DEF PostSucceeds, PostFails, saidVars
<1>2. Len(queue) \in Nat
  BY DEF IInv, TypeOK
<1>3. OnTheWay = Len(queue) + 1 /\ OnTheWay' = Len(queue)
  BY <1>1, <1>2 DEF OnTheWay, NoEvent
<1> QED
  BY <1>1, <1>2, <1>3 DEF PostSucceeds, PostFails, Dropped, lossVars, heardVars

LEMMA WayQuiet ==
  ASSUME UNCHANGED <<sinkVars, saidVars>>
  PROVE  OnTheWay' = OnTheWay /\ UNCHANGED <<announced, delivered, dropped>>
  BY DEF sinkVars, saidVars, lossVars, heardVars, OnTheWay, NoEvent

(* Every step is one of four kinds.                                        *)
LEMMA StepKinds ==
  ASSUME [Next]_vars
  PROVE  Emit \/ Receive \/ PostSucceeds \/ PostFails \/ UNCHANGED <<sinkVars, saidVars>>
<1>1. CASE UNCHANGED vars
  BY <1>1 DEF vars
<1>2. ASSUME NEW cost, NEW trips, JoinResult(cost, trips)
      PROVE  UNCHANGED <<sinkVars, saidVars>>
  BY <1>2 DEF JoinResult
<1>3. CASE Quiet
  BY <1>3 DEF Quiet, JoinPanic, SweepCompletes, SweepFails, RunStep, RunEnds, RunReturns, Flush,
              FlushElapses, ProcessExits
<1> QED
  BY <1>1, <1>2, <1>3 DEF Next, Quiet, Over

LEMMA BalanceStep == ASSUME IInv, [Next]_vars PROVE Balance'
<1>1. /\ announced \in Nat /\ delivered \in Nat /\ dropped \in Nat /\ OnTheWay \in Nat
      /\ announced = OnTheWay + delivered + dropped
  <2>1. Len(queue) \in Nat
    BY DEF IInv, TypeOK
  <2> QED
    BY <2>1 DEF IInv, TypeOK, Balance, OnTheWay
<1>2. CASE Emit
  BY <1>1, <1>2, WayEmit DEF Balance
<1>3. CASE Receive
  BY <1>1, <1>3, WayReceive DEF Balance
<1>4. CASE PostSucceeds \/ PostFails
  BY <1>1, <1>4, WayPost DEF Balance
<1>5. CASE UNCHANGED <<sinkVars, saidVars>>
  BY <1>1, <1>5, WayQuiet DEF Balance
<1> QED
  BY <1>2, <1>3, <1>4, <1>5, StepKinds

(* The last event is not lost without a trace.                             *)
LEMMA LastStays ==
  ASSUME IInv, [Next]_vars, sink = "sweep", LastSomewhere,
         phase \in {"flush", "flushed"}
  PROVE  LastSomewhere'
<1> USE DEF IInv
<1>1. CASE Emit
  <2> DEFINE e == Numbered(Head(outbox))
  <2>1. /\ outbox \in Seq(EventSet) /\ outbox # <<>> /\ Head(outbox) \in EventSet
        /\ queue \in Seq(EventSet) /\ Head(outbox) = outbox[1]
    BY <1>1 DEF Emit, TypeOK
  <2>2. e.type = outbox[1].type
    BY <2>1, NumberedType
  <2>3. /\ outbox' = Tail(outbox) /\ UNCHANGED <<sending, heard>>
        /\ \/ queue' = Append(queue, e) /\ UNCHANGED failed_ends
           \/ UNCHANGED queue /\ failed_ends' = FailedEnds(e)
    BY <1>1 DEF Emit, Refused, Dropped, lossVars, heardVars
  <2> HIDE DEF e
  <2>4. failed_ends \subseteq failed_ends'
    BY <2>3 DEF FailedEnds
  <2>5. CASE Last(sending) \/ Last(heard) \/ failed_ends # {}
    BY <2>3, <2>4, <2>5 DEF LastSomewhere, Last
  <2>6. ASSUME NEW k \in 1 .. Len(queue), Last(queue[k]) PROVE LastSomewhere'
    <3>1. k \in 1 .. Len(queue') /\ queue'[k] = queue[k]
      BY <2>1, <2>3
    <3> QED
      BY <2>6, <3>1 DEF LastSomewhere, Last
  <2>7. ASSUME NEW k \in 1 .. Len(outbox), Last(outbox[k]) PROVE LastSomewhere'
    <3>1. CASE k = 1
      <4>1. Last(e)
        BY <2>2, <2>7, <3>1 DEF Last
      <4>2. CASE queue' = Append(queue, e)
        <5>1. Len(queue') \in 1 .. Len(queue') /\ queue'[Len(queue')] = e
          BY <2>1, <4>2
        <5> QED
          BY <4>1, <5>1 DEF LastSomewhere, Last
      <4>3. CASE failed_ends' = FailedEnds(e)
        BY <4>1, <4>3 DEF LastSomewhere, FailedEnds, Last, EndEvents
      <4> QED
        BY <2>3, <4>2, <4>3
    <3>2. CASE k # 1
      <4>1. k - 1 \in 1 .. Len(outbox') /\ outbox'[k - 1] = outbox[k]
        BY <2>1, <2>3, <3>2
      <4> QED
        BY <2>7, <4>1 DEF LastSomewhere, Last
    <3> QED
      BY <3>1, <3>2
  <2> QED
    BY <2>5, <2>6, <2>7 DEF LastSomewhere
<1>2. CASE Receive
  <2>1. /\ queue \in Seq(EventSet) /\ queue # <<>> /\ sending = NoEvent /\ queue' = Tail(queue)
        /\ sending' = Stamped(Head(queue)) /\ UNCHANGED <<outbox, heard, failed_ends>>
        /\ queue[1] \in EventSet /\ Head(queue) = queue[1]
    BY <1>2 DEF Receive, TypeOK, lossVars, heardVars
  <2>2. sending'.type = queue[1].type
    BY <2>1 DEF Stamped, EventSet
  <2>3. ASSUME NEW k \in 1 .. Len(queue), Last(queue[k]) PROVE LastSomewhere'
    <3>1. CASE k = 1
      BY <2>2, <2>3, <3>1 DEF LastSomewhere, Last
    <3>2. CASE k # 1
      <4>1. k - 1 \in 1 .. Len(queue') /\ queue'[k - 1] = queue[k]
        BY <2>1, <3>2
      <4> QED
        BY <2>3, <4>1 DEF LastSomewhere, Last
    <3> QED
      BY <3>1, <3>2
  <2>4. ~Last(sending)
    BY <2>1, SilentIsNoEvent
  <2>5. CASE \/ \E k \in 1 .. Len(outbox) : Last(outbox[k])
             \/ Last(heard) \/ failed_ends # {}
    BY <2>1, <2>5 DEF LastSomewhere, Last
  <2> QED
    BY <2>3, <2>4, <2>5 DEF LastSomewhere
<1>3. CASE PostSucceeds \/ PostFails
  <2>1. /\ sending \in Underway /\ UNCHANGED <<outbox, queue>>
        /\ \/ /\ heard' = IF sending.type \in EndEvents THEN sending ELSE heard
              /\ UNCHANGED failed_ends
           \/ UNCHANGED heard /\ failed_ends' = FailedEnds(sending)
    BY <1>3 DEF PostSucceeds, PostFails, Sorted, Dropped, lossVars, heardVars
  <2>2. sending.type # "run_ended"
    BY <2>1 DEF Underway, Known
  <2>3. CASE Last(sending)
    BY <2>1, <2>3 DEF LastSomewhere, Last, EndEvents, FailedEnds
  <2>4. CASE Last(heard) \/ failed_ends # {}
    BY <2>1, <2>2, <2>4 DEF LastSomewhere, Last, EndEvents, FailedEnds
  <2>5. CASE \/ \E k \in 1 .. Len(outbox) : Last(outbox[k])
             \/ \E k \in 1 .. Len(queue) : Last(queue[k])
    BY <2>1, <2>5 DEF LastSomewhere, Last
  <2> QED
    BY <2>3, <2>4, <2>5 DEF LastSomewhere
<1>4. CASE UNCHANGED <<outbox, sinkVars>>
  BY <1>4 DEF LastSomewhere, Last, sinkVars, lossVars, heardVars
<1>5. \/ Emit \/ Receive \/ PostSucceeds \/ PostFails
      \/ UNCHANGED <<outbox, sinkVars>>
  <2>1. CASE Flush \/ FlushElapses \/ ProcessExits \/ Over \/ UNCHANGED vars
    BY <2>1 DEF Flush, FlushElapses, ProcessExits, Over, vars
  <2> QED
    BY <2>1 DEF Next, JoinResult, JoinPanic, SweepCompletes, SweepFails, RunStep, RunEnds,
                RunReturns
<1> QED
  BY <1>1, <1>2, <1>3, <1>4, <1>5

LEMMA EndingStep == ASSUME IInv, [Next]_vars PROVE Ending'
<1>1. CASE phase' \notin {"flush", "flushed"}
  BY <1>1 DEF Ending
<1>2. CASE SweepCompletes
  <2>1. sink' = "sweep" /\ phase' = "flush" /\ outbox' = <<LastEvent>>
    BY <1>2 DEF SweepCompletes
  <2>2. 1 \in 1 .. Len(outbox') /\ Last(outbox'[1])
    BY <2>1, LastEventType DEF Last, IInv
  <2> QED
    BY <2>1, <2>2 DEF Ending, LastSomewhere, Last
<1>3. CASE phase \in {"flush", "flushed"} /\ phase' \in {"flush", "flushed"}
  <2>1. sink = "sweep" /\ LastSomewhere /\ (phase = "flushed" => Drained)
    BY <1>3 DEF IInv, Ending
  <2>2. LastSomewhere'
    BY <1>3, <2>1, LastStays
  <2>3. sink' = sink /\ (phase' = "flushed" => Drained')
    <3>1. CASE Emit \/ Receive \/ PostSucceeds \/ PostFails
      BY <1>3, <2>1, <3>1 DEF Emit, Receive, PostSucceeds, PostFails, Drained
    <3>2. CASE Flush
      BY <1>3, <3>2 DEF Flush, Flushed, Drained, sinkVars, NoEvent
    <3>3. CASE UNCHANGED vars
      BY <1>3, <2>1, <3>3 DEF vars, sinkVars, Drained, NoEvent
    <3>4. ~(FlushElapses \/ ProcessExits)
      BY <1>3 DEF FlushElapses, ProcessExits
    <3>5. ~(JoinPanic \/ SweepCompletes \/ SweepFails \/ RunStep \/ RunEnds \/ RunReturns)
      BY <1>3 DEF JoinPanic, SweepCompletes, SweepFails, RunStep, RunEnds, RunReturns
    <3>6. ASSUME NEW cost, NEW trips PROVE ~JoinResult(cost, trips)
      BY <1>3 DEF JoinResult
    <3> QED
      BY <3>1, <3>2, <3>3, <3>4, <3>5, <3>6 DEF Next, Over
  <2> QED
    BY <2>1, <2>2, <2>3 DEF Ending
<1>4. CASE phase' \in {"flush", "flushed"} /\ ~(phase \in {"flush", "flushed"})
  BY <1>2, <1>4 DEF Next, Emit, JoinResult, JoinPanic, SweepFails, RunStep, RunEnds,
     RunReturns, Receive, PostSucceeds, PostFails, Flush, FlushElapses, ProcessExits, Over, vars
<1> QED
  BY <1>1, <1>3, <1>4

LEMMA StepIInv == IInv /\ [Next]_vars => IInv'
<1> SUFFICES ASSUME IInv, [Next]_vars PROVE IInv'
  OBVIOUS
<1>1. TypeOK'
  BY TypeStep DEF IInv
<1> QED
  BY <1>1, SortedStep, EndingStep, BalanceStep DEF IInv

LEMMA Invariant == Spec => []IInv
  BY InitIInv, StepIInv, PTL DEF Spec

----------------------------------------------------------------------------
(* A sweep whose sink was shut down in time (shutdown of                   *)
(* src/stream/sweep_webhook.rs) has told the receiver of every event or    *)
(* counted it, and of the end of the sweep last.                           *)
THEOREM FlushedSettled == Spec => []FlushedMeansSettled
<1>1. IInv => FlushedMeansSettled
  <2> SUFFICES ASSUME IInv, phase = "flushed"
               PROVE  /\ delivered + dropped = announced
                      /\ failed_ends = {} => heard.type = "sweep_completed"
    BY DEF FlushedMeansSettled
  <2>1. Drained /\ LastSomewhere
    BY DEF IInv, Ending
  <2>2. OnTheWay = 0
    BY <2>1 DEF Drained, OnTheWay
  <2>3. delivered + dropped = announced
    BY <2>2 DEF IInv, Balance, TypeOK
  <2>4. failed_ends = {} => heard.type = "sweep_completed"
    BY <2>1, SilentIsNoEvent DEF Drained, LastSomewhere, Last
  <2> QED
    BY <2>3, <2>4
<1> QED
  BY <1>1, Invariant, PTL

(* Both sinks of src/stream implement Delivery: an event is taken in or    *)
(* counted at once, and later delivered or counted, each event once.       *)
THEOREM ImplementsDelivery == Spec => DeliverySpec
<1>1. Init => Promise!Init
  BY DEF Init, Promise!Init, OnTheWay
<1>2. IInv /\ [Next]_vars => [Promise!Next]_<<announced, OnTheWay, delivered, dropped>>
  <2> SUFFICES ASSUME IInv, [Next]_vars
               PROVE  Promise!Next \/ UNCHANGED <<announced, OnTheWay, delivered, dropped>>
    OBVIOUS
  <2>1. CASE Emit
    BY <2>1, WayEmit DEF Promise!Next, Promise!Accept, Promise!Refuse, Promise!Emitted
  <2>2. CASE Receive
    BY <2>2, WayReceive
  <2>3. CASE PostSucceeds \/ PostFails
    BY <2>3, WayPost DEF Promise!Next, Promise!Deliver, Promise!Fail, Promise!Settled
  <2>4. CASE UNCHANGED <<sinkVars, saidVars>>
    BY <2>4, WayQuiet
  <2> QED
    BY <2>1, <2>2, <2>3, <2>4, StepKinds
<1> QED
  BY <1>1, <1>2, Invariant, PTL DEF Spec, DeliverySpec, Promise!Spec, Promise!vars

----------------------------------------------------------------------------
(* Each share of the budget and of the instances is announced once, and    *)
(* what the last event says of the losses is right.                        *)

(* Does a sequence of events announce a share, and each of them once?      *)
Shared == {"threshold", "milestone"}
Shows(s, type, i) == \E k \in 1 .. Len(s) : s[k].type = type /\ s[k].share = i
Unique(s) ==
  \A k, l \in 1 .. Len(s) :
    s[k].type \in Shared /\ s[k].type = s[l].type /\ s[k].share = s[l].share => k = l

LEMMA ConcatShows ==
  ASSUME NEW s \in Seq(EventSet), NEW t \in Seq(EventSet), NEW type, NEW i
  PROVE  Shows(s \o t, type, i) <=> Shows(s, type, i) \/ Shows(t, type, i)
<1>1. /\ Len(s) \in Nat /\ Len(t) \in Nat /\ Len(s \o t) = Len(s) + Len(t)
      /\ \A k \in 1 .. Len(s) + Len(t) :
           (s \o t)[k] = IF k <= Len(s) THEN s[k] ELSE t[k - Len(s)]
  OBVIOUS
<1>2. ASSUME Shows(s \o t, type, i) PROVE Shows(s, type, i) \/ Shows(t, type, i)
  <2>1. PICK k \in 1 .. Len(s) + Len(t) : (s \o t)[k].type = type /\ (s \o t)[k].share = i
    BY <1>1, <1>2 DEF Shows
  <2>2. CASE k <= Len(s)
    <3>1. k \in 1 .. Len(s) /\ (s \o t)[k] = s[k]
      BY <1>1, <2>2
    <3> QED
      BY <2>1, <3>1 DEF Shows
  <2>3. CASE ~(k <= Len(s))
    <3>1. k - Len(s) \in 1 .. Len(t) /\ (s \o t)[k] = t[k - Len(s)]
      BY <1>1, <2>3
    <3> QED
      BY <2>1, <3>1 DEF Shows
  <2> QED
    BY <2>2, <2>3
<1>3. ASSUME NEW k \in 1 .. Len(s), s[k].type = type, s[k].share = i
      PROVE  Shows(s \o t, type, i)
  <2>1. k \in 1 .. Len(s \o t) /\ (s \o t)[k] = s[k]
    BY <1>1
  <2> QED
    BY <1>3, <2>1 DEF Shows
<1>4. ASSUME NEW k \in 1 .. Len(t), t[k].type = type, t[k].share = i
      PROVE  Shows(s \o t, type, i)
  <2>1. k + Len(s) \in 1 .. Len(s \o t) /\ (s \o t)[k + Len(s)] = t[k]
    BY <1>1
  <2> QED
    BY <1>4, <2>1 DEF Shows
<1> QED
  BY <1>2, <1>3, <1>4 DEF Shows

LEMMA ConcatUnique ==
  ASSUME NEW s \in Seq(EventSet), NEW t \in Seq(EventSet), Unique(s), Unique(t),
         \A type \in Shared, i \in 0 .. 4 : ~(Shows(s, type, i) /\ Shows(t, type, i))
  PROVE  s \o t \in Seq(EventSet) /\ Unique(s \o t)
<1>1. /\ Len(s) \in Nat /\ Len(t) \in Nat /\ Len(s \o t) = Len(s) + Len(t)
      /\ \A k \in 1 .. Len(s) + Len(t) :
           (s \o t)[k] = IF k <= Len(s) THEN s[k] ELSE t[k - Len(s)]
  OBVIOUS
<1>2. \A k \in 1 .. Len(s) : s[k].share \in 0 .. 4
  <2>1. ASSUME NEW k \in 1 .. Len(s) PROVE s[k] \in EventSet
    OBVIOUS
  <2> QED
    BY <2>1 DEF EventSet
<1>3. ASSUME NEW k \in 1 .. Len(s), NEW m \in 1 .. Len(t), s[k].type \in Shared
      PROVE  ~(s[k].type = t[m].type /\ s[k].share = t[m].share)
  BY <1>2, <1>3 DEF Shows
<1>4. ASSUME NEW k \in 1 .. Len(s \o t), NEW l \in 1 .. Len(s \o t),
             (s \o t)[k].type \in Shared, (s \o t)[k].type = (s \o t)[l].type,
             (s \o t)[k].share = (s \o t)[l].share
      PROVE  k = l
  <2>1. /\ k <= Len(s) => k \in 1 .. Len(s) /\ (s \o t)[k] = s[k]
        /\ l <= Len(s) => l \in 1 .. Len(s) /\ (s \o t)[l] = s[l]
        /\ ~(k <= Len(s)) => k - Len(s) \in 1 .. Len(t) /\ (s \o t)[k] = t[k - Len(s)]
        /\ ~(l <= Len(s)) => l - Len(s) \in 1 .. Len(t) /\ (s \o t)[l] = t[l - Len(s)]
    BY <1>1
  <2>2. CASE k <= Len(s) /\ l <= Len(s)
    BY <1>4, <2>1, <2>2 DEF Unique
  <2>3. CASE ~(k <= Len(s)) /\ ~(l <= Len(s))
    <3>1. k - Len(s) = l - Len(s)
      BY <1>4, <2>1, <2>3 DEF Unique
    <3> QED
      BY <1>1, <3>1
  <2>4. CASE k <= Len(s) /\ ~(l <= Len(s))
    BY <1>3, <1>4, <2>1, <2>4
  <2>5. CASE ~(k <= Len(s)) /\ l <= Len(s)
    BY <1>3, <1>4, <2>1, <2>5
  <2> QED
    BY <2>2, <2>3, <2>4, <2>5
<1> QED
  BY <1>4 DEF Unique

LEMMA IfShows ==
  ASSUME NEW due, NEW type \in Types, NEW share \in 0 .. 4
  PROVE  /\ If(due, type, share) \in Seq(EventSet) /\ Unique(If(due, type, share))
         /\ \A ty, i : Shows(If(due, type, share), ty, i) <=> due /\ ty = type /\ i = share
<1>1. Event(type, share) \in EventSet /\ Event(type, share).type = type
        /\ Event(type, share).share = share
  BY EventType DEF Event
<1> DEFINE e == Event(type, share)
<1> HIDE DEF e
<1>2. Len(<<e>>) = 1 /\ <<e>>[1] = e /\ <<e>> \in Seq({e})
  OBVIOUS
<1>3. \A ty, i : Shows(<<e>>, ty, i) <=> ty = type /\ i = share
  BY <1>1, <1>2 DEF Shows, e
<1>4. Unique(<<e>>)
  BY <1>2 DEF Unique
<1>5. <<e>> \in Seq(EventSet)
  BY <1>1 DEF e
<1>6. /\ <<>> \in Seq(EventSet) /\ Unique(<<>>)
      /\ \A ty, i : ~Shows(<<>>, ty, i)
  BY DEF Unique, Shows
<1> QED
  BY <1>3, <1>4, <1>5, <1>6 DEF If, e

(* Two sequences that announce different shares, one after the other.      *)
LEMMA Concat ==
  ASSUME NEW s \in Seq(EventSet), NEW t \in Seq(EventSet), Unique(s), Unique(t),
         \A type, i : type \in Shared => ~(Shows(s, type, i) /\ Shows(t, type, i))
  PROVE  /\ s \o t \in Seq(EventSet) /\ Unique(s \o t)
         /\ \A type, i : Shows(s \o t, type, i) <=> Shows(s, type, i) \/ Shows(t, type, i)
<1>1. \A type \in Shared, i \in 0 .. 4 : ~(Shows(s, type, i) /\ Shows(t, type, i))
  OBVIOUS
<1>2. s \o t \in Seq(EventSet) /\ Unique(s \o t)
  BY <1>1, ConcatUnique
<1>3. ASSUME NEW type, NEW i
      PROVE  Shows(s \o t, type, i) <=> Shows(s, type, i) \/ Shows(t, type, i)
  BY ConcatShows
<1> QED
  BY <1>2, <1>3

Only(due, share) == IF due THEN {share} ELSE {}

(* One more share.                                                         *)
Upto(s, type, shares) ==
  /\ s \in Seq(EventSet) /\ Unique(s)
  /\ \A ty, i : Shows(s, ty, i) <=> ty = type /\ i \in shares

LEMMA OneMore ==
  ASSUME NEW s, NEW type \in Types, NEW shares, Upto(s, type, shares),
         NEW due, NEW share \in 0 .. 4, share \notin shares
  PROVE  Upto(s \o If(due, type, share), type, shares \cup Only(due, share))
<1> DEFINE t == If(due, type, share)
<1>1. t \in Seq(EventSet) /\ Unique(t)
  BY IfShows
<1>2. \A ty, i : Shows(t, ty, i) <=> due /\ ty = type /\ i = share
  BY IfShows
<1>3. s \in Seq(EventSet) /\ Unique(s)
  BY DEF Upto
<1>4. \A ty, i : Shows(s, ty, i) <=> ty = type /\ i \in shares
  BY DEF Upto
<1> HIDE DEF t
<1>5. \A ty, i : ty \in Shared => ~(Shows(s, ty, i) /\ Shows(t, ty, i))
  BY <1>2, <1>4
<1>6. s \o t \in Seq(EventSet) /\ Unique(s \o t)
  BY <1>1, <1>3, <1>5, Concat
<1>7. \A ty, i : Shows(s \o t, ty, i) <=> Shows(s, ty, i) \/ Shows(t, ty, i)
  BY <1>1, <1>3, <1>5, Concat
<1>8. \A ty, i : Shows(s \o t, ty, i)
                   <=> ty = type /\ i \in shares \cup Only(due, share)
  BY <1>2, <1>4, <1>7 DEF Only
<1>9. Upto(s \o t, type, shares \cup Only(due, share))
  BY <1>6, <1>8 DEF Upto
<1> QED
  BY <1>9 DEF t

LEMMA FirstOne ==
  ASSUME NEW type \in Types, NEW due, NEW share \in 0 .. 4
  PROVE  Upto(If(due, type, share), type, Only(due, share))
<1>1. If(due, type, share) \in Seq(EventSet) /\ Unique(If(due, type, share))
  BY IfShows
<1>2. \A ty, i : Shows(If(due, type, share), ty, i) <=> due /\ ty = type /\ i = share
  BY IfShows
<1> QED
  BY <1>1, <1>2 DEF Upto, Only

(* What a result makes the dispatcher announce.                            *)
LEMMA ThresholdsShow ==
  ASSUME NEW cost
  PROVE  Upto(Thresholds(cost), "threshold", {i \in 1 .. 4 : Crosses(i, cost)})
<1> DEFINE T(i) == If(Crosses(i, cost), "threshold", i)
           D(i) == Only(Crosses(i, cost), i)
<1>1. "threshold" \in Types /\ 1 \in 0 .. 4 /\ 2 \in 0 .. 4 /\ 3 \in 0 .. 4 /\ 4 \in 0 .. 4
  BY DEF Types
<1>n. 2 \notin D(1) /\ 3 \notin D(1) \cup D(2) /\ 4 \notin D(1) \cup D(2) \cup D(3)
  BY DEF Only
<1>2. Upto(T(1), "threshold", D(1))
  BY <1>1, FirstOne
<1>3. Upto(T(1) \o T(2), "threshold", D(1) \cup D(2))
  BY <1>1, <1>2, <1>n, OneMore
<1>4. Upto(T(1) \o T(2) \o T(3), "threshold", D(1) \cup D(2) \cup D(3))
  BY <1>1, <1>3, <1>n, OneMore
<1>5. Upto(T(1) \o T(2) \o T(3) \o T(4), "threshold", D(1) \cup D(2) \cup D(3) \cup D(4))
  BY <1>1, <1>4, <1>n, OneMore
<1>6. D(1) \cup D(2) \cup D(3) \cup D(4) = {i \in 1 .. 4 : Crosses(i, cost)}
  <2>1. 1 .. 4 = {1, 2, 3, 4}
    OBVIOUS
  <2> QED
    BY <2>1 DEF Only
<1> QED
  BY <1>5, <1>6 DEF Thresholds

LEMMA MilestonesShow ==
  ASSUME NEW count
  PROVE  Upto(Milestones(count), "milestone", {i \in 1 .. 3 : Reaches(i, count)})
<1> DEFINE T(i) == If(Reaches(i, count), "milestone", i)
           D(i) == Only(Reaches(i, count), i)
<1>1. "milestone" \in Types /\ 1 \in 0 .. 4 /\ 2 \in 0 .. 4 /\ 3 \in 0 .. 4
  BY DEF Types
<1>n. 2 \notin D(1) /\ 3 \notin D(1) \cup D(2)
  BY DEF Only
<1>2. Upto(T(1), "milestone", D(1))
  BY <1>1, FirstOne
<1>3. Upto(T(1) \o T(2), "milestone", D(1) \cup D(2))
  BY <1>1, <1>2, <1>n, OneMore
<1>4. Upto(T(1) \o T(2) \o T(3), "milestone", D(1) \cup D(2) \cup D(3))
  BY <1>1, <1>3, <1>n, OneMore
<1>5. D(1) \cup D(2) \cup D(3) = {i \in 1 .. 3 : Reaches(i, count)}
  <2>1. 1 .. 3 = {1, 2, 3}
    OBVIOUS
  <2> QED
    BY <2>1 DEF Only
<1> QED
  BY <1>4, <1>5 DEF Milestones

LEMMA AnnouncementsShow ==
  ASSUME NEW cost, NEW count, NEW trips
  PROVE  /\ Announcements(cost, count, trips) \in Seq(EventSet)
         /\ Unique(Announcements(cost, count, trips))
         /\ \A i : Shows(Announcements(cost, count, trips), "threshold", i)
                     <=> i \in {j \in 1 .. 4 : Crosses(j, cost)}
         /\ \A i : Shows(Announcements(cost, count, trips), "milestone", i)
                     <=> i \in {j \in 1 .. 3 : Reaches(j, count)}
<1> DEFINE first == <<Event("instance", 0)>>
           last == If(trips, "halt", 0)
           t == Thresholds(cost)
           m == Milestones(count)
           ts == {j \in 1 .. 4 : Crosses(j, cost)}
           ms == {j \in 1 .. 3 : Reaches(j, count)}
<1>1. "instance" \in Types /\ "halt" \in Types /\ 0 \in 0 .. 4
  BY DEF Types
<1>2. /\ first \in Seq(EventSet) /\ Unique(first)
      /\ \A type, i : Shows(first, type, i) => type = "instance"
  <2>1. Upto(If(TRUE, "instance", 0), "instance", Only(TRUE, 0))
    BY <1>1, FirstOne
  <2>2. If(TRUE, "instance", 0) = first
    BY DEF If
  <2> QED
    BY <2>1, <2>2 DEF Upto
<1>3. /\ last \in Seq(EventSet) /\ Unique(last)
      /\ \A type, i : Shows(last, type, i) => type = "halt"
  <2>1. Upto(If(trips, "halt", 0), "halt", Only(trips, 0))
    BY <1>1, FirstOne
  <2> QED
    BY <2>1 DEF Upto
<1>4. /\ t \in Seq(EventSet) /\ Unique(t)
      /\ \A type, i : Shows(t, type, i) <=> type = "threshold" /\ i \in ts
  BY ThresholdsShow DEF Upto
<1>5. /\ m \in Seq(EventSet) /\ Unique(m)
      /\ \A type, i : Shows(m, type, i) <=> type = "milestone" /\ i \in ms
  BY MilestonesShow DEF Upto
<1>6. Announcements(cost, count, trips) = ((first \o t) \o m) \o last
  <2>1. /\ first \in Seq(EventSet) /\ t \in Seq(EventSet)
        /\ m \in Seq(EventSet) /\ last \in Seq(EventSet)
    BY <1>2, <1>3, <1>4, <1>5
  <2>2. Announcements(cost, count, trips) = first \o t \o m \o last
    BY DEF Announcements
  <2> QED
    BY <2>2
<1> HIDE DEF first, last, t, m, ts, ms
<1> DEFINE u == first \o t
<1>7. \A type, i : type \in Shared => ~(Shows(first, type, i) /\ Shows(t, type, i))
  BY <1>2, <1>4
<1>8. /\ u \in Seq(EventSet) /\ Unique(u)
      /\ \A type, i : Shows(u, type, i) <=> Shows(first, type, i) \/ Shows(t, type, i)
  BY <1>2, <1>4, <1>7, Concat
<1> HIDE DEF u
<1> DEFINE v == u \o m
<1>9. \A type, i : type \in Shared => ~(Shows(u, type, i) /\ Shows(m, type, i))
  BY <1>2, <1>4, <1>5, <1>8
<1>10. /\ v \in Seq(EventSet) /\ Unique(v)
       /\ \A type, i : Shows(v, type, i) <=> Shows(u, type, i) \/ Shows(m, type, i)
  BY <1>5, <1>8, <1>9, Concat
<1> HIDE DEF v
<1>11. \A type, i : type \in Shared => ~(Shows(v, type, i) /\ Shows(last, type, i))
  <2>1. "halt" \notin Shared
    BY DEF Shared
  <2> QED
    BY <1>3, <2>1
<1>12. /\ v \o last \in Seq(EventSet) /\ Unique(v \o last)
       /\ \A type, i : Shows(v \o last, type, i) <=> Shows(v, type, i) \/ Shows(last, type, i)
  BY <1>3, <1>10, <1>11, Concat
<1>13. /\ \A i : Shows(v \o last, "threshold", i) <=> i \in ts
       /\ \A i : Shows(v \o last, "milestone", i) <=> i \in ms
  <2>1. ASSUME NEW i
        PROVE  /\ ~Shows(last, "threshold", i) /\ ~Shows(last, "milestone", i)
               /\ ~Shows(first, "threshold", i) /\ ~Shows(first, "milestone", i)
    BY <1>2, <1>3
  <2>2. ASSUME NEW i
        PROVE  /\ Shows(t, "threshold", i) <=> i \in ts
               /\ ~Shows(t, "milestone", i) /\ ~Shows(m, "threshold", i)
               /\ Shows(m, "milestone", i) <=> i \in ms
    BY <1>4, <1>5
  <2>3. ASSUME NEW i
        PROVE  /\ Shows(u, "threshold", i) <=> i \in ts
               /\ ~Shows(u, "milestone", i)
    BY <1>8, <2>1, <2>2
  <2>4. ASSUME NEW i
        PROVE  /\ Shows(v, "threshold", i) <=> i \in ts
               /\ Shows(v, "milestone", i) <=> i \in ms
    BY <1>10, <2>2, <2>3
  <2> QED
    BY <1>12, <2>1, <2>4
<1>14. Announcements(cost, count, trips) = v \o last
  BY <1>6 DEF u, v
<1> QED
  BY <1>12, <1>13, <1>14 DEF ts, ms

----------------------------------------------------------------------------
(* Each share is said, or still to be said, exactly when it was fired, and *)
(* it was fired exactly when it was reached.                               *)
Counted(type, i, fired) ==
  /\ said[type][i] \in {0, 1}
  /\ fired <=> said[type][i] = 1 \/ Shows(outbox, type, i)
  /\ said[type][i] = 1 => ~Shows(outbox, type, i)

Said ==
  /\ Unique(outbox)
  /\ \A i \in 1 .. 4 : Counted("threshold", i, i \in thresholds_fired)
  /\ \A i \in 1 .. 3 : Counted("milestone", i, i \in milestones_fired)

Reached ==
  /\ \A i \in 1 .. 4 : i \in thresholds_fired <=> 4 * judged.cost >= i * Limit
  /\ \A i \in 1 .. 3 : i \in milestones_fired <=> 4 * judged.rows >= i * Total
  /\ judged.cost <= cumulative_cost /\ judged.rows <= rows

LEMMA TailShows ==
  ASSUME NEW s \in Seq(EventSet), s # <<>>, Unique(s)
  PROVE  /\ Unique(Tail(s))
         /\ \A type \in Shared : \A i :
              /\ Shows(Tail(s), type, i)
                   <=> Shows(s, type, i) /\ ~(s[1].type = type /\ s[1].share = i)
              /\ s[1].type = type /\ s[1].share = i => Shows(s, type, i)
<1>1. /\ Len(s) \in Nat \ {0} /\ Len(Tail(s)) = Len(s) - 1
      /\ \A k \in 1 .. Len(s) - 1 : Tail(s)[k] = s[k + 1]
  OBVIOUS
<1>2. Unique(Tail(s))
  <2> SUFFICES ASSUME NEW k \in 1 .. Len(s) - 1, NEW l \in 1 .. Len(s) - 1,
                      s[k + 1].type \in Shared, s[k + 1].type = s[l + 1].type,
                      s[k + 1].share = s[l + 1].share
               PROVE  k = l
    BY <1>1 DEF Unique
  <2>1. k + 1 \in 1 .. Len(s) /\ l + 1 \in 1 .. Len(s)
    BY <1>1
  <2>2. k + 1 = l + 1
    BY <2>1 DEF Unique
  <2> QED
    BY <2>2
<1>3. ASSUME NEW type \in Shared, NEW i, s[1].type = type, s[1].share = i
      PROVE  Shows(s, type, i)
  BY <1>1, <1>3 DEF Shows
<1>4. ASSUME NEW type \in Shared, NEW i, Shows(Tail(s), type, i)
      PROVE  Shows(s, type, i) /\ ~(s[1].type = type /\ s[1].share = i)
  <2>1. PICK k \in 1 .. Len(s) - 1 : Tail(s)[k].type = type /\ Tail(s)[k].share = i
    BY <1>1, <1>4 DEF Shows
  <2>2. k + 1 \in 1 .. Len(s) /\ s[k + 1].type = type /\ s[k + 1].share = i /\ k + 1 # 1
          /\ 1 \in 1 .. Len(s)
    BY <1>1, <2>1
  <2>3. Shows(s, type, i)
    BY <2>2 DEF Shows
  <2>4. s[1].type = type /\ s[1].share = i => k + 1 = 1
    BY <2>2 DEF Unique
  <2> QED
    BY <2>2, <2>3, <2>4
<1>5. ASSUME NEW type \in Shared, NEW i, Shows(s, type, i), ~(s[1].type = type /\ s[1].share = i)
      PROVE  Shows(Tail(s), type, i)
  <2>1. PICK k \in 1 .. Len(s) : s[k].type = type /\ s[k].share = i
    BY <1>5 DEF Shows
  <2>2. k # 1
    BY <1>5, <2>1
  <2>3. k - 1 \in 1 .. Len(Tail(s)) /\ Tail(s)[k - 1] = s[k]
    BY <1>1, <2>2
  <2> QED
    BY <2>1, <2>3 DEF Shows
<1> QED
  BY <1>2, <1>3, <1>4, <1>5

(* What an emission does to the counts of what was said.                   *)
LEMMA SaidEmit ==
  ASSUME TypeOK, Emit, NEW type \in Shared, NEW i \in 1 .. 4
  PROVE  said'[type][i] = said[type][i] + (IF outbox[1].type = type /\ outbox[1].share = i
                                           THEN 1 ELSE 0)
<1> DEFINE h == outbox[1]
           e == Numbered(Head(outbox))
<1>1. Head(outbox) = h /\ h \in EventSet
  BY DEF TypeOK, Emit
<1>2. e.type = h.type /\ e.share = h.share
  BY <1>1 DEF Numbered, EventSet
<1>3. said' = IF e.type \in DOMAIN said THEN [said EXCEPT ![e.type][e.share] = @ + 1] ELSE said
  BY DEF Emit
<1>4. said \in [Shared -> [1 .. 4 -> Nat]]
  BY DEF TypeOK, Shared
<1> HIDE DEF e, h
<1>5. said[type] \in [1 .. 4 -> Nat] /\ said[type][i] \in Nat
  BY <1>4
<1>6. CASE e.type = type
  <2>1. said' = [said EXCEPT ![type] = [said[type] EXCEPT ![e.share] = said[type][e.share] + 1]]
    BY <1>3, <1>4, <1>6
  <2>2. said'[type] = [said[type] EXCEPT ![e.share] = said[type][e.share] + 1]
    BY <1>4, <2>1
  <2>3. CASE e.share = i
    BY <1>2, <1>5, <1>6, <2>2, <2>3 DEF h
  <2>4. CASE e.share # i
    BY <1>2, <1>5, <1>6, <2>2, <2>4 DEF h
  <2> QED
    BY <2>3, <2>4
<1>7. CASE e.type # type
  <2>1. said'[type] = said[type]
    BY <1>3, <1>4, <1>7
  <2> QED
    BY <1>2, <1>5, <1>7, <2>1 DEF h
<1> QED
  BY <1>6, <1>7

LEMMA SaidInit == Init => Said
<1> SUFFICES ASSUME Init PROVE Said
  OBVIOUS
<1>1. "started" \in Types /\ 0 \in 0 .. 4
  BY DEF Types
<1>2. Upto(If(TRUE, "started", 0), "started", Only(TRUE, 0))
  BY <1>1, FirstOne
<1>3. outbox = If(TRUE, "started", 0)
  BY DEF Init, If
<1>4. Unique(outbox) /\ \A type, i : Shows(outbox, type, i) => type = "started"
  BY <1>2, <1>3 DEF Upto
<1>5. \A i \in 1 .. 4 : said["threshold"][i] = 0 /\ said["milestone"][i] = 0
  BY DEF Init
<1>6. thresholds_fired = {} /\ milestones_fired = {}
  BY DEF Init
<1>7. ASSUME NEW i \in 1 .. 4
      PROVE  Counted("threshold", i, i \in thresholds_fired)
  BY <1>4, <1>5, <1>6 DEF Counted
<1>8. ASSUME NEW i \in 1 .. 3
      PROVE  Counted("milestone", i, i \in milestones_fired)
  BY <1>4, <1>5, <1>6 DEF Counted
<1> QED
  BY <1>4, <1>7, <1>8 DEF Said

LEMMA SaidStep == TypeOK /\ Said /\ [Next]_vars => Said'
<1> SUFFICES ASSUME TypeOK, Said, [Next]_vars PROVE Said'
  OBVIOUS
<1>1. CASE Emit
  <2>1. outbox \in Seq(EventSet) /\ outbox # <<>> /\ outbox' = Tail(outbox) /\ Unique(outbox)
          /\ UNCHANGED loopVars
    BY <1>1 DEF Emit, TypeOK, Said
  <2>2. Unique(outbox')
    BY <2>1, TailShows
  <2>3. ASSUME NEW type \in Shared, NEW i \in 1 .. 4, NEW fired, Counted(type, i, fired)
        PROVE  Counted(type, i, fired)'
    <3>1. said'[type][i] = said[type][i] + (IF outbox[1].type = type /\ outbox[1].share = i
                                            THEN 1 ELSE 0)
      BY <1>1, SaidEmit
    <3>2. /\ Shows(outbox', type, i)
               <=> Shows(outbox, type, i) /\ ~(outbox[1].type = type /\ outbox[1].share = i)
          /\ outbox[1].type = type /\ outbox[1].share = i => Shows(outbox, type, i)
      BY <2>1, TailShows
    <3> QED
      BY <2>3, <3>1, <3>2 DEF Counted
  <2> QED
    BY <2>1, <2>2, <2>3 DEF Said, Shared, loopVars
<1>2. ASSUME NEW cost, NEW trips, JoinResult(cost, trips) PROVE Said'
  <2> DEFINE new == Announcements(cumulative_cost', rows', trips)
  <2>1. outbox = <<>> /\ outbox' = new /\ said' = said
    BY <1>2 DEF JoinResult, saidVars
  <2>2. /\ Unique(new)
        /\ \A i : Shows(new, "threshold", i)
                     <=> i \in {j \in 1 .. 4 : Crosses(j, cumulative_cost')}
        /\ \A i : Shows(new, "milestone", i) <=> i \in {j \in 1 .. 3 : Reaches(j, rows')}
    BY AnnouncementsShow
  <2>3. thresholds_fired' = thresholds_fired \cup {j \in 1 .. 4 : Crosses(j, cumulative_cost')}
          /\ milestones_fired' = milestones_fired \cup {j \in 1 .. 3 : Reaches(j, rows')}
    BY <1>2 DEF JoinResult, Fired
  <2>4. \A type, i : ~Shows(outbox, type, i)
    BY <2>1 DEF Shows
  <2>5. /\ \A i \in {j \in 1 .. 4 : Crosses(j, cumulative_cost')} : i \notin thresholds_fired
        /\ \A i \in {j \in 1 .. 3 : Reaches(j, rows')} : i \notin milestones_fired
    BY DEF Crosses, Reaches
  <2> HIDE DEF new
  <2> DEFINE ts == {j \in 1 .. 4 : Crosses(j, cumulative_cost')}
             ms == {j \in 1 .. 3 : Reaches(j, rows')}
  <2> HIDE DEF ts, ms
  <2>6. ASSUME NEW i \in 1 .. 4 PROVE Counted("threshold", i, i \in thresholds_fired)'
    <3>1. Counted("threshold", i, i \in thresholds_fired)
      BY DEF Said
    <3>2. Shows(outbox', "threshold", i) <=> i \in ts
      BY <2>1, <2>2 DEF ts
    <3>3. thresholds_fired' = thresholds_fired \cup ts /\ (i \in ts => i \notin thresholds_fired)
      BY <2>3, <2>5 DEF ts
    <3> QED
      BY <2>1, <2>4, <3>1, <3>2, <3>3 DEF Counted
  <2>7. ASSUME NEW i \in 1 .. 3 PROVE Counted("milestone", i, i \in milestones_fired)'
    <3>1. Counted("milestone", i, i \in milestones_fired)
      BY DEF Said
    <3>2. Shows(outbox', "milestone", i) <=> i \in ms
      BY <2>1, <2>2 DEF ms
    <3>3. milestones_fired' = milestones_fired \cup ms /\ (i \in ms => i \notin milestones_fired)
      BY <2>3, <2>5 DEF ms
    <3> QED
      BY <2>1, <2>4, <3>1, <3>2, <3>3 DEF Counted
  <2> QED
    BY <2>1, <2>2, <2>6, <2>7 DEF Said
<1>3. ASSUME NEW e, e.type \notin Shared, outbox = <<>>, outbox' = <<e>>,
             UNCHANGED <<said, thresholds_fired, milestones_fired>>
      PROVE  Said'
  <2>1. Len(outbox') = 1 /\ outbox'[1] = e
    BY <1>3
  <2>2. ASSUME NEW k \in 1 .. Len(outbox') PROVE outbox'[k].type \notin Shared
    BY <1>3, <2>1, <2>2
  <2>3. Unique(outbox') /\ \A ty \in Shared : \A i : ~Shows(outbox', ty, i)
    BY <2>2 DEF Unique, Shows
  <2>4. \A ty, i : ~Shows(outbox, ty, i)
    BY <1>3 DEF Shows
  <2>5. ASSUME NEW ty \in Shared, NEW i, NEW fired, Counted(ty, i, fired)
        PROVE  Counted(ty, i, fired)'
    BY <1>3, <2>3, <2>4, <2>5 DEF Counted
  <2> QED
    BY <1>3, <2>3, <2>5 DEF Said, Shared
<1>4. CASE UNCHANGED <<outbox, said, thresholds_fired, milestones_fired>>
  BY <1>4 DEF Said, Counted
<1>5. CASE SweepCompletes \/ RunStep \/ RunEnds
  <2>1. /\ LastEvent.type \notin Shared /\ Event("step", 0).type \notin Shared
        /\ Event("run_ended", 0).type \notin Shared
    BY LastEventType DEF Event, Shared
  <2> QED
    BY <1>3, <1>5, <2>1 DEF SweepCompletes, RunStep, RunEnds, loopVars, saidVars
<1>6. CASE Receive \/ PostSucceeds \/ PostFails
  BY <1>4, <1>6 DEF Receive, PostSucceeds, PostFails, loopVars, saidVars
<1>7. CASE JoinPanic \/ SweepFails \/ RunReturns \/ Flush \/ FlushElapses \/ ProcessExits
             \/ UNCHANGED vars
  BY <1>4, <1>7 DEF JoinPanic, SweepFails, RunReturns, Flush, FlushElapses, ProcessExits, vars,
                    loopVars, saidVars
<1> QED
  BY <1>1, <1>2, <1>5, <1>6, <1>7 DEF Next, Over

(* A share of something is a number, and not zero.                         *)
LEMMA ShareOf ==
  ASSUME NEW i \in 1 .. 4, NEW n \in Nat \ {0}
  PROVE  i * n \in Nat /\ i * n > 0
<1>1. i \in {1, 2, 3, 4}
  OBVIOUS
<1> QED
  BY <1>1

LEMMA ReachedInit == Init => Reached
<1> SUFFICES ASSUME Init PROVE Reached
  OBVIOUS
<1>1. thresholds_fired = {} /\ milestones_fired = {} /\ judged.rows = 0 /\ judged.cost = 0
  BY DEF Init
<1>2. rows \in Nat /\ cumulative_cost \in Nat
  BY TypeInit DEF TypeOK
<1>3. ASSUME NEW i \in 1 .. 4 PROVE ~(4 * judged.cost >= i * Limit)
  <2>1. i * Limit \in Nat /\ i * Limit > 0
    BY ShareOf, SweepAssumption
  <2> QED
    BY <1>1, <2>1
<1>4. ASSUME NEW i \in 1 .. 3 PROVE ~(4 * judged.rows >= i * Total)
  <2>1. i \in 1 .. 4
    OBVIOUS
  <2>2. i * Total \in Nat /\ i * Total > 0
    BY <2>1, ShareOf, SweepAssumption
  <2> QED
    BY <1>1, <2>2
<1> QED
  BY <1>1, <1>2, <1>3, <1>4 DEF Reached

LEMMA ReachedStep == TypeOK /\ Reached /\ [Next]_vars => Reached'
<1> SUFFICES ASSUME TypeOK, Reached, [Next]_vars PROVE Reached'
  OBVIOUS
<1>1. /\ rows \in Nat /\ cumulative_cost \in Nat /\ judged.rows \in Nat /\ judged.cost \in Nat
      /\ Total \in Nat \ {0} /\ Limit \in Nat \ {0}
  BY SweepAssumption DEF TypeOK
<1>2. ASSUME NEW cost \in 0 .. MaxCost, NEW trips, JoinResult(cost, trips) PROVE Reached'
  <2>1. /\ rows' = rows + 1 /\ cumulative_cost' = cumulative_cost + cost /\ cost \in Nat
        /\ judged'.rows = rows' /\ judged'.cost = cumulative_cost'
    BY <1>2, BoundAssumption DEF JoinResult
  <2>2. /\ thresholds_fired' = thresholds_fired \cup {j \in 1 .. 4 : Crosses(j, cumulative_cost')}
        /\ milestones_fired' = milestones_fired \cup {j \in 1 .. 3 : Reaches(j, rows')}
    BY <1>2 DEF JoinResult, Fired
  <2>3. /\ judged'.rows \in Nat /\ judged.rows <= judged'.rows
        /\ judged'.cost \in Nat /\ judged.cost <= judged'.cost
    <3>1. judged.cost <= cumulative_cost /\ judged.rows <= rows
      BY DEF Reached
    <3>2. \A a, b, c \in Nat : a <= b => b + c \in Nat /\ a <= b + c
      OBVIOUS
    <3> QED
      BY <1>1, <2>1, <3>1, <3>2
  <2>4. ASSUME NEW i \in 1 .. 4
        PROVE  i \in thresholds_fired' <=> 4 * judged'.cost >= i * Limit
    <3>1. i * Limit \in Nat
      BY <1>1, ShareOf
    <3>2. i \in thresholds_fired <=> 4 * judged.cost >= i * Limit
      BY DEF Reached
    <3>3. 4 * judged.cost >= i * Limit => 4 * judged'.cost >= i * Limit
      <4>1. \A a, b, c \in Nat : a <= b /\ 4 * a >= c => 4 * b >= c
        OBVIOUS
      <4> QED
        BY <1>1, <2>3, <3>1, <4>1
    <3> QED
      BY <2>1, <2>2, <3>2, <3>3 DEF Crosses
  <2>5. ASSUME NEW i \in 1 .. 3
        PROVE  i \in milestones_fired' <=> 4 * judged'.rows >= i * Total
    <3>0. i \in 1 .. 4
      OBVIOUS
    <3>1. i * Total \in Nat
      BY <1>1, <3>0, ShareOf
    <3>2. i \in milestones_fired <=> 4 * judged.rows >= i * Total
      BY DEF Reached
    <3>3. 4 * judged.rows >= i * Total => 4 * judged'.rows >= i * Total
      <4>1. \A a, b, c \in Nat : a <= b /\ 4 * a >= c => 4 * b >= c
        OBVIOUS
      <4> QED
        BY <1>1, <2>3, <3>1, <4>1
    <3> QED
      BY <2>1, <2>2, <3>2, <3>3 DEF Reaches
  <2>6. judged'.cost <= cumulative_cost' /\ judged'.rows <= rows'
    BY <2>1, <2>3
  <2> QED
    BY <2>4, <2>5, <2>6 DEF Reached
<1>3. CASE JoinPanic
  <2>1. rows' = rows + 1
          /\ UNCHANGED <<judged, cumulative_cost, thresholds_fired, milestones_fired>>
    BY <1>3 DEF JoinPanic
  <2>2. judged.rows <= rows'
    BY <1>1, <2>1 DEF Reached
  <2> QED
    BY <2>1, <2>2 DEF Reached
<1>4. CASE UNCHANGED loopVars
  BY <1>4 DEF loopVars, Reached
<1>5. CASE Emit \/ Receive \/ PostSucceeds \/ PostFails
  BY <1>4, <1>5 DEF Emit, Receive, PostSucceeds, PostFails
<1>6. CASE SweepCompletes \/ SweepFails \/ RunStep \/ RunEnds \/ RunReturns \/ Flush
             \/ FlushElapses \/ ProcessExits \/ UNCHANGED vars
  BY <1>4, <1>6 DEF SweepCompletes, SweepFails, RunStep, RunEnds, RunReturns, Flush, FlushElapses,
                    ProcessExits, vars
<1> QED
  BY <1>2, <1>3, <1>5, <1>6 DEF Next, Over

(* Rows for the runs of n instances are at least n rows.                   *)
LEMMA RowsShare ==
  ASSUME NEW i \in 1 .. 3, NEW n \in Nat, n = judged.rows
  PROVE  /\ InstanceShare(i) => 4 * n >= i * Total
         /\ Reruns = 1 => (InstanceShare(i) <=> 4 * n >= i * Total)
<1>1. Reruns \in Nat \ {0} /\ i \in 1 .. 4 /\ Total \in Nat \ {0}
  BY SweepAssumption
<1>2. n \div Reruns \in Nat /\ n \div Reruns <= n /\ n \div 1 = n
  BY <1>1
<1>3. i * Total \in Nat
  BY <1>1, ShareOf
<1>4. \A a, b, c \in Nat : a <= b /\ 4 * a >= c => 4 * b >= c
  OBVIOUS
<1>5. InstanceShare(i) <=> 4 * (n \div Reruns) >= i * Total
  BY DEF InstanceShare
<1> QED
  BY <1>2, <1>3, <1>4, <1>5

(* Whenever a result has been handled (src/run/swebench.rs), exactly the   *)
(* shares of the budget that the cost reaches have been announced, each    *)
(* once in the sweep; no milestone has come twice, or is missing although  *)
(* that share of the instances has completed; and without reruns none has  *)
(* come early, for any limit, price, number of instances and of reruns.    *)
THEOREM SharesOnce == Spec => []AnnouncedOnce
<1>1. TypeOK /\ Said /\ Reached => AnnouncedOnce
  <2> SUFFICES ASSUME TypeOK, Said, Reached, outbox = <<>>
               PROVE  /\ \A i \in 1 .. 4 : said["threshold"][i]
                            = IF 4 * judged.cost >= i * Limit THEN 1 ELSE 0
                      /\ \A i \in 1 .. 3 :
                           /\ said["milestone"][i] <= 1
                           /\ InstanceShare(i) => said["milestone"][i] = 1
                           /\ Reruns = 1 /\ said["milestone"][i] = 1 => InstanceShare(i)
    BY DEF AnnouncedOnce
  <2>1. \A type, i : ~Shows(outbox, type, i)
    BY DEF Shows
  <2>2. ASSUME NEW i \in 1 .. 4
        PROVE  said["threshold"][i] = IF 4 * judged.cost >= i * Limit THEN 1 ELSE 0
    <3>1. Counted("threshold", i, i \in thresholds_fired)
      BY DEF Said
    <3>2. i \in thresholds_fired <=> 4 * judged.cost >= i * Limit
      BY DEF Reached
    <3> QED
      BY <2>1, <3>1, <3>2 DEF Counted
  <2>3. ASSUME NEW i \in 1 .. 3
        PROVE  said["milestone"][i] = IF 4 * judged.rows >= i * Total THEN 1 ELSE 0
    <3>1. Counted("milestone", i, i \in milestones_fired)
      BY DEF Said
    <3>2. i \in milestones_fired <=> 4 * judged.rows >= i * Total
      BY DEF Reached
    <3> QED
      BY <2>1, <3>1, <3>2 DEF Counted
  <2>4. ASSUME NEW i \in 1 .. 3
        PROVE  /\ said["milestone"][i] <= 1
               /\ InstanceShare(i) => said["milestone"][i] = 1
               /\ Reruns = 1 /\ said["milestone"][i] = 1 => InstanceShare(i)
    <3>1. judged.rows \in Nat
      BY DEF TypeOK
    <3>2. /\ InstanceShare(i) => 4 * judged.rows >= i * Total
          /\ Reruns = 1 => (InstanceShare(i) <=> 4 * judged.rows >= i * Total)
      BY <3>1, RowsShare
    <3> QED
      BY <2>3, <3>2
  <2> QED
    BY <2>2, <2>4
<1> QED
  BY <1>1, SaidInit, SaidStep, ReachedInit, ReachedStep, TypeCorrect, PTL DEF Spec

----------------------------------------------------------------------------
(* What the last event says of the losses.                                 *)
Ends(e) == e.type \in EndEvents
Ranks == 1 .. Len(queue)

(* Events are posted in the order in which they were emitted.              *)
Line ==
  /\ failed_ends \subseteq 1 .. announced
  /\ \A k \in Ranks : queue[k].n \in (1 .. announced) \ failed_ends
  /\ \A k, l \in Ranks : k < l => queue[k].n < queue[l].n
  /\ sending # NoEvent => /\ sending.n \in (1 .. announced) \ failed_ends
                          /\ \A k \in Ranks : sending.n < queue[k].n
  /\ Ends(heard) => /\ heard.n \in (1 .. announced) \ failed_ends
                    /\ sending # NoEvent => heard.n < sending.n
                    /\ \A k \in Ranks : heard.n < queue[k].n

(* Nothing but another end is emitted after an end.                        *)
Closed ==
  /\ phase = "loop" => /\ failed_ends = {} /\ ~Ends(sending) /\ ~Ends(heard)
                       /\ \A k \in Ranks : ~Ends(queue[k])
                       /\ \A k \in 1 .. Len(outbox) : ~Ends(outbox[k])
  /\ phase # "loop" => Len(outbox) <= 1 /\ \A k \in 1 .. Len(outbox) : Ends(outbox[k])
  /\ \A k, l \in Ranks : k < l /\ Ends(queue[k]) => Ends(queue[l])
  /\ Ends(sending) => \A k \in Ranks : Ends(queue[k])
  /\ Ends(heard) => /\ sending = NoEvent \/ Ends(sending)
                    /\ \A k \in Ranks : Ends(queue[k])

(* A sweep ends once, with the last event it emits.                        *)
Alone ==
  /\ sink = "sweep" =>
       /\ Ends(sending) \/ Ends(heard) \/ failed_ends # {} => outbox = <<>>
       /\ Ends(sending) => sending.n = announced
       /\ Ends(heard) => heard.n = announced
       /\ \A k \in Ranks : Ends(queue[k]) => queue[k].n = announced /\ outbox = <<>>
       /\ failed_ends \subseteq {announced}
  /\ sink # "sweep" =>
       /\ ~Last(sending) /\ ~Last(heard)
       /\ \A k \in Ranks : ~Last(queue[k])
       /\ \A k \in 1 .. Len(outbox) : ~Last(outbox[k])

(* The count in run_ended, from its reception on.                          *)
Told(e) ==
  e.type = "run_ended" =>
    /\ e.count >= LostBefore(e.n)
    /\ e.n = announced => e.count = LostBefore(e.n)

(* The count in sweep_completed, from the reading of the counter on: room  *)
(* is what may still be missing.                                           *)
Close(e, room) == Last(e) => e.count <= dropped /\ dropped + OnTheWay <= e.count + room

Telling ==
  /\ Told(sending) /\ Told(heard)
  /\ \A k \in 1 .. Len(outbox) : Close(outbox[k], Capacity + 1)
  /\ \A k \in Ranks : Close(queue[k], Capacity + 2)
  /\ Close(sending, Capacity + 2) /\ Close(heard, Capacity + 1)

Lined == IInv /\ Line /\ Closed /\ Alone

(* The steps, in the terms of these invariants.                            *)
LEMMA Shapes ==
  ASSUME IInv
  PROVE  /\ announced \in Nat /\ dropped \in Nat /\ Len(queue) \in Nat /\ Len(outbox) \in Nat
         /\ queue \in Seq(EventSet) /\ outbox \in Seq(EventSet)
         /\ \A k \in Ranks : queue[k] \in EventSet /\ queue[k].n > 0
         /\ sending \in EventSet /\ heard \in EventSet
         /\ failed_ends \subseteq Nat
<1>1. queue \in Seq(Underway) /\ Len(queue) \in Nat
  BY DEF IInv, Sorted
<1>2. ASSUME NEW k \in Ranks PROVE queue[k] \in Underway
  BY <1>1 DEF Ranks
<1> QED
  BY <1>1, <1>2 DEF IInv, TypeOK, Underway, Known

LEMMA Emission ==
  ASSUME IInv, Emit, NEW e, e = Numbered(outbox[1])
  PROVE  /\ outbox # <<>> /\ 1 \in 1 .. Len(outbox) /\ outbox' = Tail(outbox)
         /\ Len(outbox') = Len(outbox) - 1
         /\ \A k \in 1 .. Len(outbox') : k + 1 \in 1 .. Len(outbox) /\ outbox'[k] = outbox[k + 1]
         /\ e \in EventSet /\ e.n = announced + 1 /\ e.type = outbox[1].type
         /\ e.count = outbox[1].count
         /\ announced' = announced + 1 /\ UNCHANGED <<sink, phase, sending, heard>>
         /\ \/ /\ Len(queue') = Len(queue) + 1 /\ UNCHANGED <<dropped, failed_ends>>
               /\ \A k \in Ranks' : \/ k \in Ranks /\ queue'[k] = queue[k]
                                    \/ k = Len(queue) + 1 /\ queue'[k] = e
            \/ /\ UNCHANGED queue /\ dropped' = dropped + 1
               /\ failed_ends' = IF Ends(e) THEN failed_ends \cup {e.n} ELSE failed_ends
<1>1. /\ outbox \in Seq(EventSet) /\ outbox # <<>> /\ Head(outbox) = outbox[1]
      /\ outbox[1] \in EventSet /\ queue \in Seq(EventSet)
  BY DEF Emit, IInv, TypeOK
<1>2. /\ e \in EventSet /\ e.n = announced + 1
      /\ e.type = outbox[1].type /\ e.count = outbox[1].count
  BY <1>1, NumberedType DEF IInv
<1>4. /\ announced' = e.n /\ outbox' = Tail(outbox)
      /\ UNCHANGED <<sink, phase, sending, heard>>
      /\ \/ queue' = Append(queue, e) /\ UNCHANGED <<dropped, failed_ends>>
         \/ UNCHANGED queue /\ dropped' = dropped + 1 /\ failed_ends' = FailedEnds(e)
  BY <1>1 DEF Emit, Refused, Dropped, lossVars, heardVars
<1>5. /\ 1 \in 1 .. Len(outbox) /\ Len(outbox') = Len(outbox) - 1
      /\ \A k \in 1 .. Len(outbox') : k + 1 \in 1 .. Len(outbox) /\ outbox'[k] = outbox[k + 1]
  BY <1>1, <1>4
<1>6. ASSUME queue' = Append(queue, e)
      PROVE  /\ Len(queue') = Len(queue) + 1
             /\ \A k \in Ranks' : \/ k \in Ranks /\ queue'[k] = queue[k]
                                  \/ k = Len(queue) + 1 /\ queue'[k] = e
  BY <1>1, <1>6 DEF Ranks
<1> QED
  BY <1>1, <1>2, <1>4, <1>5, <1>6 DEF FailedEnds, Ends

LEMMA Reception ==
  ASSUME IInv, Receive
  PROVE  /\ sending = NoEvent /\ sending' # NoEvent /\ 1 \in Ranks /\ Len(queue') = Len(queue) - 1
         /\ sending'.n = queue[1].n /\ sending'.type = queue[1].type
         /\ sending'.count = IF queue[1].type = "run_ended" THEN dropped ELSE queue[1].count
         /\ \A k \in Ranks' : k + 1 \in Ranks /\ queue'[k] = queue[k + 1]
         /\ UNCHANGED <<sink, phase, outbox, announced, dropped, failed_ends, heard>>
<1>1. /\ queue \in Seq(EventSet) /\ queue # <<>> /\ Head(queue) = queue[1]
      /\ queue' = Tail(queue) /\ sending' = Stamped(queue[1]) /\ sending = NoEvent
      /\ UNCHANGED <<sink, phase, outbox, announced, dropped, failed_ends, heard>>
  BY DEF Receive, IInv, TypeOK, lossVars, heardVars, saidVars
<1>2. 1 \in Ranks /\ Len(queue') = Len(queue) - 1
        /\ \A k \in Ranks' : k + 1 \in Ranks /\ queue'[k] = queue[k + 1]
  BY <1>1 DEF Ranks
<1>3. queue[1] \in EventSet /\ queue[1].n > 0
  BY <1>2, Shapes
<1>4. /\ sending'.n = queue[1].n /\ sending'.type = queue[1].type
      /\ sending'.count = IF queue[1].type = "run_ended" THEN dropped ELSE queue[1].count
  BY <1>1, <1>3 DEF Stamped, EventSet
<1>5. sending' # NoEvent
  BY <1>3, <1>4 DEF NoEvent, Event
<1> QED
  BY <1>1, <1>2, <1>4, <1>5

LEMMA Posting ==
  ASSUME IInv, PostSucceeds \/ PostFails
  PROVE  /\ sending # NoEvent /\ sending' = NoEvent /\ ~Ends(sending')
         /\ UNCHANGED <<sink, phase, outbox, announced, queue>> /\ Ranks' = Ranks
         /\ \/ /\ PostSucceeds /\ UNCHANGED <<dropped, failed_ends>>
               /\ heard' = IF Ends(sending) THEN sending ELSE heard
            \/ /\ PostFails /\ UNCHANGED heard /\ dropped' = dropped + 1
               /\ failed_ends' = IF Ends(sending) THEN failed_ends \cup {sending.n}
                                                  ELSE failed_ends
<1>1. ~Ends(NoEvent)
  BY DEF Ends, NoEvent, Event, EndEvents
<1> QED
  BY <1>1 DEF PostSucceeds, PostFails, Dropped, FailedEnds, Ends, Ranks, lossVars, heardVars, saidVars

(* What the handlers do: the phase and the outbox are theirs.              *)
LEMMA Handling ==
  ASSUME [Next]_vars, ~(Emit \/ Receive \/ PostSucceeds \/ PostFails)
  PROVE  /\ UNCHANGED <<sink, sinkVars, saidVars>>
         /\ \/ UNCHANGED outbox /\ (phase' = phase \/ (outbox = <<>> /\ phase' # "loop"))
            \/ /\ outbox = <<>> /\ phase = "loop" /\ phase' = "loop" /\ outbox' \in Seq(Middle)
            \/ /\ outbox = <<>> /\ phase = "loop" /\ phase' # "loop" /\ sink = "sweep"
               /\ outbox' = <<LastEvent>>
            \/ /\ outbox = <<>> /\ phase' # "loop" /\ sink = "run"
               /\ outbox' = <<Event("run_ended", 0)>>
<1>1. ASSUME NEW cost, NEW trips, JoinResult(cost, trips)
      PROVE  /\ outbox = <<>> /\ phase = "loop" /\ phase' = "loop" /\ outbox' \in Seq(Middle)
             /\ UNCHANGED <<sink, sinkVars, saidVars>>
  BY <1>1, AnnouncementsType DEF JoinResult
<1>2. CASE RunStep
  <2>1. Event("step", 0) \in Middle
    BY EventType DEF Middle, Event, EndEvents, Types
  <2>2. <<Event("step", 0)>> \in Seq(Middle)
    BY <2>1
  <2> QED
    BY <1>2, <2>2 DEF RunStep
<1>3. CASE JoinPanic \/ SweepFails \/ RunReturns \/ Flush \/ FlushElapses \/ ProcessExits
  BY <1>3 DEF JoinPanic, SweepFails, RunReturns, Flush, FlushElapses, ProcessExits, Flushed, Drained
<1>4. CASE SweepCompletes
  BY <1>4 DEF SweepCompletes
<1>5. CASE RunEnds
  BY <1>5 DEF RunEnds
<1>6. CASE UNCHANGED vars
  BY <1>6 DEF vars
<1> QED
  BY <1>1, <1>2, <1>3, <1>4, <1>5, <1>6 DEF Next, Over

----------------------------------------------------------------------------
LEMMA LineStep == ASSUME Lined, [Next]_vars PROVE Line'
<1>s. IInv /\ Line /\ announced \in Nat /\ Len(queue) \in Nat
  BY Shapes DEF Lined
<1>1. CASE Emit
  <2> DEFINE e == Numbered(outbox[1])
  <2>1. /\ e.n = announced + 1 /\ announced' = announced + 1 /\ UNCHANGED <<sending, heard>>
        /\ \/ /\ Len(queue') = Len(queue) + 1 /\ UNCHANGED <<dropped, failed_ends>>
              /\ \A k \in Ranks' : \/ k \in Ranks /\ queue'[k] = queue[k]
                                   \/ k = Len(queue) + 1 /\ queue'[k] = e
           \/ /\ UNCHANGED queue /\ dropped' = dropped + 1
              /\ failed_ends' = IF Ends(e) THEN failed_ends \cup {e.n} ELSE failed_ends
    BY <1>1, <1>s, Emission
  <2> HIDE DEF e
  <2>2. \A n \in 1 .. announced : n \in 1 .. announced' /\ n < e.n /\ n # e.n
    BY <1>s, <2>1
  <2>3. e.n \in 1 .. announced' /\ e.n \notin failed_ends
    BY <1>s, <2>1 DEF Line
  <2>4. failed_ends' \subseteq 1 .. announced' /\ failed_ends' \subseteq failed_ends \cup {e.n}
    BY <1>s, <2>1, <2>2, <2>3 DEF Line
  <2>5. \A n \in (1 .. announced) \ failed_ends : n \in (1 .. announced') \ failed_ends'
    BY <2>2, <2>4
  <2>6. CASE /\ Len(queue') = Len(queue) + 1 /\ UNCHANGED <<dropped, failed_ends>>
             /\ \A k \in Ranks' : \/ k \in Ranks /\ queue'[k] = queue[k]
                                  \/ k = Len(queue) + 1 /\ queue'[k] = e
    <3>1. \A k \in Ranks' : queue'[k].n \in (1 .. announced') \ failed_ends'
      BY <1>s, <2>3, <2>5, <2>6 DEF Line
    <3>2. ASSUME NEW k \in Ranks', NEW l \in Ranks', k < l PROVE queue'[k].n < queue'[l].n
      <4>1. k \in Ranks /\ queue'[k] = queue[k]
        BY <1>s, <2>6, <3>2 DEF Ranks
      <4>2. CASE l \in Ranks /\ queue'[l] = queue[l]
        BY <1>s, <3>2, <4>1, <4>2 DEF Line
      <4>3. CASE queue'[l] = e
        BY <1>s, <2>2, <4>1, <4>3 DEF Line
      <4> QED
        BY <2>6, <4>2, <4>3
    <3>3. sending # NoEvent => /\ sending.n \in (1 .. announced') \ failed_ends'
                               /\ \A k \in Ranks' : sending.n < queue'[k].n
      BY <1>s, <2>2, <2>5, <2>6 DEF Line
    <3>4. Ends(heard) => /\ heard.n \in (1 .. announced') \ failed_ends'
                         /\ sending # NoEvent => heard.n < sending.n
                         /\ \A k \in Ranks' : heard.n < queue'[k].n
      BY <1>s, <2>2, <2>5, <2>6 DEF Line
    <3> QED
      BY <2>1, <2>4, <3>1, <3>2, <3>3, <3>4 DEF Line, NoEvent, Ends
  <2>7. CASE UNCHANGED queue
    <3>1. Ranks' = Ranks
      BY <2>7 DEF Ranks
    <3> QED
      BY <1>s, <2>1, <2>4, <2>5, <2>7, <3>1 DEF Line, NoEvent, Ends
  <2> QED
    BY <2>1, <2>6, <2>7
<1>2. CASE Receive
  <2>1. /\ sending = NoEvent /\ 1 \in Ranks /\ sending'.n = queue[1].n
        /\ \A k \in Ranks' : k + 1 \in Ranks /\ queue'[k] = queue[k + 1] /\ 1 < k + 1
        /\ Ranks' \subseteq Nat
        /\ UNCHANGED <<announced, failed_ends, heard>>
    BY <1>2, <1>s, Reception DEF Ranks
  <2>2. \A k \in Ranks' : queue'[k].n \in (1 .. announced) \ failed_ends
    BY <1>s, <2>1 DEF Line
  <2>3. ASSUME NEW k \in Ranks', NEW l \in Ranks', k < l PROVE queue'[k].n < queue'[l].n
    <3>1. k + 1 < l + 1
      BY <2>1, <2>3
    <3> QED
      BY <1>s, <2>1, <3>1 DEF Line
  <2>4. /\ sending'.n \in (1 .. announced) \ failed_ends
        /\ \A k \in Ranks' : sending'.n < queue'[k].n
    BY <1>s, <2>1 DEF Line
  <2>5. Ends(heard) => /\ heard.n \in (1 .. announced) \ failed_ends
                       /\ heard.n < sending'.n
                       /\ \A k \in Ranks' : heard.n < queue'[k].n
    BY <1>s, <2>1 DEF Line
  <2>6. failed_ends \subseteq 1 .. announced
    BY <1>s DEF Line
  <2> QED
    BY <2>1, <2>2, <2>3, <2>4, <2>5, <2>6 DEF Line, Ends
<1>3. CASE PostSucceeds \/ PostFails
  <2>1. /\ sending # NoEvent /\ sending' = NoEvent /\ UNCHANGED <<announced, queue>>
        /\ Ranks' = Ranks
        /\ \/ /\ UNCHANGED failed_ends /\ heard' = IF Ends(sending) THEN sending ELSE heard
           \/ /\ UNCHANGED heard
              /\ failed_ends' = IF Ends(sending) THEN failed_ends \cup {sending.n} ELSE failed_ends
    BY <1>3, <1>s, Posting
  <2>2. /\ sending.n \in (1 .. announced) \ failed_ends /\ failed_ends \subseteq 1 .. announced
        /\ \A k \in Ranks : sending.n < queue[k].n
        /\ \A k \in Ranks : queue[k].n \in (1 .. announced) \ failed_ends
        /\ \A k, l \in Ranks : k < l => queue[k].n < queue[l].n
    BY <1>s, <2>1 DEF Line
  <2>3. \A m, n \in 1 .. announced : m < n => m # n
    OBVIOUS
  <2>4. /\ failed_ends' \subseteq 1 .. announced
        /\ \A k \in Ranks : queue[k].n \in (1 .. announced) \ failed_ends'
    BY <2>1, <2>2, <2>3
  <2>5. Ends(heard') => /\ heard'.n \in (1 .. announced) \ failed_ends'
                        /\ \A k \in Ranks : heard'.n < queue[k].n
    <3>1. CASE heard' = sending /\ UNCHANGED failed_ends
      BY <2>2, <3>1
    <3>2. CASE heard' = heard
      <4>1. Ends(heard) => /\ heard.n \in (1 .. announced) \ failed_ends /\ heard.n < sending.n
                           /\ \A k \in Ranks : heard.n < queue[k].n
        BY <1>s, <2>1 DEF Line
      <4>2. Ends(heard) => heard.n \notin failed_ends'
        BY <2>1, <2>2, <2>3, <4>1
      <4> QED
        BY <3>2, <4>1, <4>2
    <3> QED
      BY <2>1, <3>1, <3>2
  <2> QED
    BY <2>1, <2>2, <2>4, <2>5 DEF Line, NoEvent, Ends
<1>4. CASE UNCHANGED <<sinkVars, saidVars>>
  BY <1>4, <1>s DEF Line, sinkVars, saidVars, lossVars, heardVars, Ranks, Ends, NoEvent
<1> QED
  BY <1>1, <1>2, <1>3, <1>4, StepKinds

LEMMA ClosedStep == ASSUME Lined, [Next]_vars PROVE Closed'
<1>s. IInv /\ Line /\ Closed /\ announced \in Nat /\ Len(queue) \in Nat /\ Len(outbox) \in Nat
  BY Shapes DEF Lined
<1>n. ~Ends(NoEvent)
  BY DEF Ends, NoEvent, Event, EndEvents
<1>1. CASE Emit
  <2> DEFINE e == Numbered(outbox[1])
  <2>1. /\ 1 \in 1 .. Len(outbox) /\ Len(outbox') = Len(outbox) - 1
        /\ \A k \in 1 .. Len(outbox') : k + 1 \in 1 .. Len(outbox) /\ outbox'[k] = outbox[k + 1]
        /\ Ends(e) <=> Ends(outbox[1])
        /\ UNCHANGED <<phase, sending, heard>>
        /\ \/ /\ Len(queue') = Len(queue) + 1 /\ UNCHANGED <<dropped, failed_ends>>
              /\ \A k \in Ranks' : \/ k \in Ranks /\ queue'[k] = queue[k]
                                   \/ k = Len(queue) + 1 /\ queue'[k] = e
           \/ /\ UNCHANGED queue
              /\ failed_ends' = IF Ends(e) THEN failed_ends \cup {e.n} ELSE failed_ends
    BY <1>1, <1>s, Emission DEF Ends
  <2> HIDE DEF e
  <2>2. \A k \in Ranks' : \/ k \in Ranks /\ queue'[k] = queue[k]
                          \/ k = Len(queue) + 1 /\ queue'[k] = e
    <3>1. CASE UNCHANGED queue
      BY <3>1 DEF Ranks
    <3> QED
      BY <2>1, <3>1
  <2>3. CASE phase = "loop"
    <3>1. ~Ends(e) /\ failed_ends' = {}
      BY <1>s, <2>1, <2>3 DEF Closed
    <3>2. \A k \in Ranks' : ~Ends(queue'[k])
      BY <1>s, <2>2, <2>3, <3>1 DEF Closed
    <3>3. \A k \in 1 .. Len(outbox') : ~Ends(outbox'[k])
      BY <1>s, <2>1, <2>3 DEF Closed
    <3>4. ~Ends(sending') /\ ~Ends(heard')
      BY <1>s, <2>1, <2>3 DEF Closed
    <3> QED
      BY <2>1, <2>3, <3>1, <3>2, <3>3, <3>4 DEF Closed, Ends
  <2>4. CASE phase # "loop"
    <3>1. Ends(e) /\ Len(outbox) <= 1
      BY <1>s, <2>1, <2>4 DEF Closed
    <3>2. Len(outbox') <= 1 /\ \A k \in 1 .. Len(outbox') : Ends(outbox'[k])
      BY <1>s, <2>1, <2>4 DEF Closed
    <3>3. ASSUME NEW k \in Ranks', NEW l \in Ranks', k < l, Ends(queue'[k]) PROVE Ends(queue'[l])
      <4>1. k \in Ranks /\ queue'[k] = queue[k]
        <5>1. CASE Len(queue') = Len(queue) + 1
          BY <1>s, <2>2, <3>3, <5>1 DEF Ranks
        <5>2. CASE UNCHANGED queue
          BY <5>2 DEF Ranks
        <5> QED
          BY <2>1, <5>1, <5>2
      <4> QED
        BY <1>s, <2>2, <3>1, <3>3, <4>1 DEF Closed
    <3>4. Ends(sending) => \A k \in Ranks' : Ends(queue'[k])
      BY <1>s, <2>2, <3>1 DEF Closed
    <3>5. Ends(heard) => /\ sending = NoEvent \/ Ends(sending)
                         /\ \A k \in Ranks' : Ends(queue'[k])
      BY <1>s, <2>2, <3>1 DEF Closed
    <3> QED
      BY <2>1, <2>4, <3>2, <3>3, <3>4, <3>5 DEF Closed, Ends, NoEvent
  <2> QED
    BY <2>3, <2>4
<1>2. CASE Receive
  <2>1. /\ sending = NoEvent /\ 1 \in Ranks /\ (Ends(sending') <=> Ends(queue[1]))
        /\ \A k \in Ranks' : k + 1 \in Ranks /\ queue'[k] = queue[k + 1] /\ 1 < k + 1
        /\ Ranks' \subseteq Nat
        /\ UNCHANGED <<phase, outbox, failed_ends, heard>>
    BY <1>2, <1>s, Reception DEF Ranks, Ends
  <2>2. ASSUME NEW k \in Ranks', NEW l \in Ranks', k < l, Ends(queue'[k]) PROVE Ends(queue'[l])
    <3>1. k + 1 < l + 1
      BY <2>1, <2>2
    <3> QED
      BY <1>s, <2>1, <2>2, <3>1 DEF Closed
  <2>3. Ends(sending') => \A k \in Ranks' : Ends(queue'[k])
    BY <1>s, <2>1 DEF Closed
  <2>4. Ends(heard) => Ends(sending') /\ \A k \in Ranks' : Ends(queue'[k])
    BY <1>s, <2>1 DEF Closed
  <2>5. phase = "loop" => /\ failed_ends = {} /\ ~Ends(sending') /\ ~Ends(heard)
                          /\ \A k \in Ranks' : ~Ends(queue'[k])
                          /\ \A k \in 1 .. Len(outbox) : ~Ends(outbox[k])
    BY <1>s, <2>1 DEF Closed
  <2>6. phase # "loop" => Len(outbox) <= 1 /\ \A k \in 1 .. Len(outbox) : Ends(outbox[k])
    BY <1>s DEF Closed
  <2> QED
    BY <2>1, <2>2, <2>3, <2>4, <2>5, <2>6 DEF Closed, Ends
<1>3. CASE PostSucceeds \/ PostFails
  <2>1. /\ sending # NoEvent /\ sending' = NoEvent /\ UNCHANGED <<phase, outbox, queue>>
        /\ Ranks' = Ranks /\ ~Ends(sending')
        /\ heard' = heard \/ (Ends(sending) /\ heard' = sending)
        /\ failed_ends' = failed_ends \/ Ends(sending)
    BY <1>3, <1>s, Posting
  <2>2. phase = "loop" => heard' = heard /\ failed_ends' = failed_ends
    BY <1>s, <2>1 DEF Closed
  <2>3. Ends(heard') => \A k \in Ranks : Ends(queue[k])
    BY <1>s, <2>1 DEF Closed
  <2> QED
    BY <1>s, <2>1, <2>2, <2>3 DEF Closed, Ends
<1>4. CASE UNCHANGED <<sinkVars, saidVars>> /\ ~(Emit \/ Receive \/ PostSucceeds \/ PostFails)
  <2>1. /\ UNCHANGED <<queue, sending, heard, failed_ends>> /\ Ranks' = Ranks
    BY <1>4 DEF sinkVars, lossVars, heardVars, Ranks
  <2>2. CASE UNCHANGED outbox /\ (phase' = phase \/ (outbox = <<>> /\ phase' # "loop"))
    <3>1. CASE phase' = phase
      BY <1>s, <2>1, <2>2, <3>1 DEF Closed, Ends, NoEvent
    <3>2. CASE outbox = <<>> /\ phase' # "loop"
      <4>1. Len(outbox') <= 1 /\ \A k \in 1 .. Len(outbox') : Ends(outbox'[k])
        BY <2>2, <3>2
      <4> QED
        BY <1>s, <2>1, <3>2, <4>1 DEF Closed, Ends, NoEvent
    <3> QED
      BY <2>2, <3>1, <3>2
  <2>3. CASE phase = "loop" /\ phase' = "loop" /\ outbox' \in Seq(Middle)
    <3>1. \A k \in 1 .. Len(outbox') : ~Ends(outbox'[k])
      <4>1. ASSUME NEW k \in 1 .. Len(outbox') PROVE outbox'[k] \in Middle
        BY <2>3
      <4> QED
        BY <4>1 DEF Middle, Ends
    <3> QED
      BY <1>s, <2>1, <2>3, <3>1 DEF Closed, Ends, NoEvent
  <2>4. CASE phase' # "loop" /\ (outbox' = <<LastEvent>> \/ outbox' = <<Event("run_ended", 0)>>)
    <3>1. PICK e : outbox' = <<e>> /\ Ends(e)
      BY <1>s, <2>4, LastEventType DEF Ends, Event, EndEvents, IInv
    <3>2. Len(outbox') = 1 /\ \A k \in 1 .. 1 : outbox'[k] = e
      BY <3>1
    <3>3. Len(outbox') <= 1 /\ \A k \in 1 .. Len(outbox') : Ends(outbox'[k])
      BY <3>1, <3>2
    <3> QED
      BY <1>s, <2>1, <2>4, <3>1, <3>2, <3>3 DEF Closed, Ends, NoEvent
  <2> QED
    BY <1>4, <2>2, <2>3, <2>4, Handling
<1> QED
  BY <1>1, <1>2, <1>3, <1>4, StepKinds

LEMMA AloneStep == ASSUME Lined, [Next]_vars PROVE Alone'
<1>s. /\ IInv /\ Line /\ Closed /\ Alone /\ announced \in Nat /\ Len(queue) \in Nat
      /\ Len(outbox) \in Nat /\ outbox \in Seq(EventSet)
  BY Shapes DEF Lined
<1>n. ~Ends(NoEvent) /\ ~Last(NoEvent)
  BY DEF Ends, NoEvent, Event, EndEvents, Last
<1>1. CASE Emit
  <2> DEFINE e == Numbered(outbox[1])
  <2>1. /\ outbox # <<>> /\ 1 \in 1 .. Len(outbox) /\ Len(outbox') = Len(outbox) - 1
        /\ outbox' = Tail(outbox)
        /\ \A k \in 1 .. Len(outbox') : k + 1 \in 1 .. Len(outbox) /\ outbox'[k] = outbox[k + 1]
        /\ e.n = announced + 1 /\ e.type = outbox[1].type /\ announced' = announced + 1
        /\ UNCHANGED <<sink, phase, sending, heard>>
        /\ \/ /\ Len(queue') = Len(queue) + 1 /\ UNCHANGED <<dropped, failed_ends>>
              /\ \A k \in Ranks' : \/ k \in Ranks /\ queue'[k] = queue[k]
                                   \/ k = Len(queue) + 1 /\ queue'[k] = e
           \/ /\ UNCHANGED queue
              /\ failed_ends' = IF Ends(e) THEN failed_ends \cup {e.n} ELSE failed_ends
    BY <1>1, <1>s, Emission
  <2> HIDE DEF e
  <2>2. \A k \in Ranks' : \/ k \in Ranks /\ queue'[k] = queue[k]
                          \/ k = Len(queue) + 1 /\ queue'[k] = e
    <3>1. CASE UNCHANGED queue
      BY <3>1 DEF Ranks
    <3> QED
      BY <2>1, <3>1
  <2>3. ASSUME sink = "sweep"
        PROVE  /\ ~Ends(sending) /\ ~Ends(heard) /\ failed_ends = {}
               /\ \A k \in Ranks : ~Ends(queue[k])
    BY <1>s, <2>1, <2>3 DEF Alone
  <2>4. ASSUME Ends(e) PROVE outbox' = <<>>
    <3>1. phase # "loop"
      BY <1>s, <2>1, <2>4 DEF Closed, Ends
    <3>2. Len(outbox') = 0
      BY <1>s, <2>1, <3>1 DEF Closed
    <3> QED
      BY <1>s, <2>1, <3>2
  <2>5. ASSUME sink = "sweep"
        PROVE  /\ \A k \in Ranks' : Ends(queue'[k]) => queue'[k].n = announced' /\ outbox' = <<>>
               /\ failed_ends' \subseteq {announced'}
               /\ failed_ends' # {} => outbox' = <<>>
    BY <2>1, <2>2, <2>3, <2>4, <2>5
  <2>6. ASSUME sink # "sweep"
        PROVE  /\ ~Last(sending) /\ ~Last(heard)
               /\ \A k \in Ranks' : ~Last(queue'[k])
               /\ \A k \in 1 .. Len(outbox') : ~Last(outbox'[k])
    BY <1>s, <2>1, <2>2, <2>6 DEF Alone, Last
  <2> QED
    BY <2>1, <2>3, <2>5, <2>6 DEF Alone, Ends, Last
<1>2. CASE Receive
  <2>1. /\ sending = NoEvent /\ 1 \in Ranks /\ (Ends(sending') <=> Ends(queue[1]))
        /\ (Last(sending') <=> Last(queue[1])) /\ sending'.n = queue[1].n
        /\ \A k \in Ranks' : k + 1 \in Ranks /\ queue'[k] = queue[k + 1]
        /\ UNCHANGED <<sink, phase, outbox, announced, failed_ends, heard>>
    BY <1>2, <1>s, Reception DEF Ends, Last
  <2>2. ASSUME sink = "sweep"
        PROVE  /\ Ends(sending') => sending'.n = announced /\ outbox = <<>>
               /\ \A k \in Ranks' : Ends(queue'[k]) => queue'[k].n = announced /\ outbox = <<>>
    BY <1>s, <2>1, <2>2 DEF Alone
  <2>3. ASSUME sink # "sweep"
        PROVE  ~Last(sending') /\ \A k \in Ranks' : ~Last(queue'[k])
    BY <1>s, <2>1, <2>3 DEF Alone
  <2>4. /\ sink = "sweep" => /\ Ends(heard) \/ failed_ends # {} => outbox = <<>>
                             /\ Ends(heard) => heard.n = announced
                             /\ failed_ends \subseteq {announced}
        /\ sink # "sweep" => ~Last(heard) /\ \A k \in 1 .. Len(outbox) : ~Last(outbox[k])
    BY <1>s DEF Alone
  <2> QED
    BY <2>1, <2>2, <2>3, <2>4 DEF Alone, Ends, Last
<1>3. CASE PostSucceeds \/ PostFails
  <2>1. /\ sending' = NoEvent /\ UNCHANGED <<sink, outbox, announced, queue>> /\ Ranks' = Ranks
        /\ heard' = heard \/ (Ends(sending) /\ heard' = sending)
        /\ failed_ends' = failed_ends \/ (Ends(sending) /\ failed_ends' = failed_ends \cup {sending.n})
    BY <1>3, <1>s, Posting
  <2>2. ~Ends(sending') /\ ~Last(sending')
    BY <1>n, <2>1
  <2>3. ASSUME sink = "sweep"
        PROVE  /\ Ends(heard') => heard'.n = announced /\ outbox = <<>>
               /\ failed_ends' # {} => outbox = <<>>
               /\ failed_ends' \subseteq {announced}
    BY <1>s, <2>1, <2>3 DEF Alone
  <2>4. sink # "sweep" => ~Last(heard')
    BY <1>s, <2>1 DEF Alone
  <2>5. /\ sink = "sweep" => \A k \in Ranks : Ends(queue[k]) => queue[k].n = announced /\ outbox = <<>>
        /\ sink # "sweep" => /\ \A k \in Ranks : ~Last(queue[k])
                             /\ \A k \in 1 .. Len(outbox) : ~Last(outbox[k])
    BY <1>s DEF Alone
  <2> QED
    BY <2>1, <2>2, <2>3, <2>4, <2>5 DEF Alone, Ends, Last
<1>4. CASE UNCHANGED <<sinkVars, saidVars>> /\ ~(Emit \/ Receive \/ PostSucceeds \/ PostFails)
  <2>1. UNCHANGED <<sink, queue, sending, heard, failed_ends, announced>> /\ Ranks' = Ranks
    BY <1>4, Handling DEF sinkVars, saidVars, lossVars, heardVars, Ranks
  <2>2. CASE UNCHANGED outbox
    BY <1>s, <2>1, <2>2 DEF Alone, Ends, Last
  <2>3. CASE phase = "loop"
    <3>1. /\ ~Ends(sending) /\ ~Ends(heard) /\ failed_ends = {}
          /\ \A k \in Ranks : ~Ends(queue[k])
      BY <1>s, <2>3 DEF Closed
    <3>2. ASSUME sink # "sweep" PROVE \A k \in 1 .. Len(outbox') : ~Last(outbox'[k])
      <4>1. CASE outbox' \in Seq(Middle)
        <5>1. ASSUME NEW k \in 1 .. Len(outbox') PROVE outbox'[k] \in Middle
          BY <4>1
        <5> QED
          BY <5>1 DEF Middle, Last, EndEvents
      <4>2. CASE outbox' = <<Event("run_ended", 0)>>
        <5>1. ~Last(Event("run_ended", 0))
          BY DEF Last, Event
        <5> QED
          BY <4>2, <5>1
      <4>3. CASE UNCHANGED outbox
        BY <1>s, <3>2, <4>3 DEF Alone, Last
      <4> QED
        BY <1>4, <3>2, <4>1, <4>2, <4>3, Handling
    <3> QED
      BY <1>s, <2>1, <3>1, <3>2 DEF Alone, Ends, Last
  <2>4. CASE sink = "run" /\ outbox' = <<Event("run_ended", 0)>>
    <3>1. \A k \in 1 .. Len(outbox') : ~Last(outbox'[k])
      <4>1. ~Last(Event("run_ended", 0))
        BY DEF Last, Event
      <4> QED
        BY <2>4, <4>1
    <3> QED
      BY <1>s, <2>1, <2>4, <3>1 DEF Alone, Ends, Last
  <2> QED
    BY <1>4, <2>2, <2>3, <2>4, Handling
<1> QED
  BY <1>1, <1>2, <1>3, <1>4, StepKinds

(* A later end that gets lost does not count among the losses before.      *)
Later(f, n) == {k \in f : k >= n}

LEMMA LossAfter ==
  ASSUME NEW top \in Nat, NEW f, f \subseteq 1 .. top, NEW n \in Nat, NEW m \in Nat,
         m \notin f, m >= n
  PROVE  /\ Cardinality(Later(f, n)) \in Nat
         /\ Cardinality(Later(f \cup {m}, n)) = Cardinality(Later(f, n)) + 1
<1>1. IsFiniteSet(1 .. top)
  BY FS_Interval
<1>2. IsFiniteSet(Later(f, n)) /\ m \notin Later(f, n)
  BY <1>1, FS_Subset DEF Later
<1>3. Later(f \cup {m}, n) = Later(f, n) \cup {m}
  BY DEF Later
<1> QED
  BY <1>2, <1>3, FS_AddElement, FS_CardinalityType

LEMMA LossCount ==
  ASSUME IInv, Line, NEW n \in Nat
  PROVE  /\ LostBefore(n) \in Int /\ LostBefore(n) <= dropped
         /\ n = announced /\ n \notin failed_ends => LostBefore(n) = dropped
<1>1. LostBefore(n) = dropped - Cardinality(Later(failed_ends, n))
  BY DEF LostBefore, Later
<1>2. dropped \in Nat /\ announced \in Nat /\ failed_ends \subseteq 1 .. announced
  BY Shapes DEF Line
<1>3. Cardinality(Later(failed_ends, n)) \in Nat
  <2>1. IsFiniteSet(1 .. announced)
    BY <1>2, FS_Interval
  <2>2. Later(failed_ends, n) \in SUBSET (1 .. announced)
    BY <1>2 DEF Later
  <2>3. IsFiniteSet(Later(failed_ends, n))
    BY <2>1, <2>2, FS_Subset
  <2> QED
    BY <2>3, FS_CardinalityType
<1>4. ASSUME n = announced, n \notin failed_ends PROVE Cardinality(Later(failed_ends, n)) = 0
  <2>1. ASSUME NEW k \in Later(failed_ends, n) PROVE FALSE
    <3>1. k \in failed_ends /\ k >= announced
      BY <1>4 DEF Later
    <3>2. k \in 1 .. announced
      BY <1>2, <3>1
    <3>3. k = announced
      BY <1>2, <3>1, <3>2
    <3> QED
      BY <1>4, <3>1, <3>3
  <2>2. Later(failed_ends, n) = {}
    BY <2>1
  <2> QED
    BY <2>2, FS_EmptySet
<1> QED
  BY <1>1, <1>2, <1>3, <1>4

(* What a step that loses an event leaves of the counts.                   *)
LEMMA LossStays ==
  ASSUME IInv, Line, NEW n \in Nat,
         \/ UNCHANGED <<dropped, failed_ends>>
         \/ \E m \in Nat : /\ dropped' = dropped + 1 /\ failed_ends' = failed_ends \cup {m}
                           /\ m \notin failed_ends /\ m >= n
  PROVE  LostBefore(n)' = LostBefore(n)
<1>1. CASE UNCHANGED <<dropped, failed_ends>>
  BY <1>1 DEF LostBefore
<1>2. ASSUME NEW m \in Nat, dropped' = dropped + 1, failed_ends' = failed_ends \cup {m},
             m \notin failed_ends, m >= n
      PROVE  LostBefore(n)' = LostBefore(n)
  <2>1. dropped \in Nat /\ announced \in Nat /\ failed_ends \subseteq 1 .. announced
    BY Shapes DEF Line
  <2>2. Cardinality(Later(failed_ends, n)) \in Nat
          /\ Cardinality(Later(failed_ends', n)) = Cardinality(Later(failed_ends, n)) + 1
    BY <1>2, <2>1, LossAfter
  <2>3. LostBefore(n)' = dropped' - Cardinality(Later(failed_ends', n))
          /\ LostBefore(n) = dropped - Cardinality(Later(failed_ends, n))
    BY DEF LostBefore, Later
  <2> QED
    BY <1>2, <2>1, <2>2, <2>3
<1> QED
  BY <1>1, <1>2

LEMMA CloseStays ==
  ASSUME IInv, NEW e \in EventSet, NEW room \in Nat, Close(e, room), announced' = announced,
         \/ OnTheWay' = OnTheWay /\ UNCHANGED dropped
         \/ OnTheWay > 0 /\ OnTheWay' = OnTheWay - 1 /\ (dropped' = dropped \/ dropped' = dropped + 1)
  PROVE  Last(e) => e.count <= dropped' /\ dropped' + OnTheWay' <= e.count + room
<1>1. dropped \in Nat /\ OnTheWay \in Nat /\ e.count \in Nat
  <2>1. dropped \in Nat /\ Len(queue) \in Nat
    BY Shapes
  <2> QED
    BY <2>1 DEF OnTheWay, EventSet
<1>2. \A d, w, c, r \in Nat :
        c <= d /\ d + w <= c + r
          => /\ w > 0 => d + (w - 1) <= c + r /\ c <= d + 1 /\ (d + 1) + (w - 1) <= c + r
  OBVIOUS
<1>3. Last(e) => e.count <= dropped /\ dropped + OnTheWay <= e.count + room
  BY DEF Close
<1> QED
  BY <1>1, <1>2, <1>3

LEMMA TellingStep == ASSUME Lined, Telling, [Next]_vars PROVE Telling'
<1>s. /\ IInv /\ Line /\ Closed /\ Alone /\ Telling
      /\ announced \in Nat /\ dropped \in Nat /\ Len(queue) \in Nat /\ OnTheWay \in Nat
      /\ sending \in EventSet /\ heard \in EventSet
      /\ \A k \in Ranks : queue[k] \in EventSet
      /\ Capacity \in Nat /\ Capacity + 1 \in Nat /\ Capacity + 2 \in Nat
  BY Shapes, CapacityAssumption DEF Lined, OnTheWay
<1>n. NoEvent.type = "started" /\ ~Ends(NoEvent)
  BY DEF NoEvent, Event, Ends, EndEvents
<1>t. ASSUME NEW e \in EventSet, Told(e),
             \/ UNCHANGED <<dropped, failed_ends>>
             \/ \E m \in Nat : /\ dropped' = dropped + 1 /\ failed_ends' = failed_ends \cup {m}
                               /\ m \notin failed_ends /\ m >= e.n,
             announced' = announced \/ e.n # announced'
      PROVE  e.type = "run_ended" => /\ e.count >= LostBefore(e.n)'
                                     /\ e.n = announced' => e.count = LostBefore(e.n)'
  <2>1. e.n \in Nat
    BY DEF EventSet
  <2>2. LostBefore(e.n)' = LostBefore(e.n)
    BY <1>s, <1>t, <2>1, LossStays
  <2> QED
    BY <1>t, <2>2 DEF Told
<1>1. CASE Emit
  <2> DEFINE e == Numbered(outbox[1])
  <2>1. /\ outbox # <<>> /\ 1 \in 1 .. Len(outbox)
        /\ e \in EventSet /\ e.n = announced + 1 /\ e.type = outbox[1].type
        /\ e.count = outbox[1].count /\ outbox[1] \in EventSet
        /\ \A k \in 1 .. Len(outbox') : k + 1 \in 1 .. Len(outbox) /\ outbox'[k] = outbox[k + 1]
        /\ announced' = announced + 1 /\ UNCHANGED <<sink, phase, sending, heard>>
        /\ \/ /\ Len(queue') = Len(queue) + 1 /\ UNCHANGED <<dropped, failed_ends>>
              /\ \A k \in Ranks' : \/ k \in Ranks /\ queue'[k] = queue[k]
                                   \/ k = Len(queue) + 1 /\ queue'[k] = e
           \/ /\ UNCHANGED queue /\ dropped' = dropped + 1
              /\ failed_ends' = IF Ends(e) THEN failed_ends \cup {e.n} ELSE failed_ends
    BY <1>1, <1>s, Emission, Shapes
  <2> HIDE DEF e
  <2>2. ASSUME NEW f \in EventSet, f = sending \/ f = heard, Told(f)
        PROVE  f.type = "run_ended" => /\ f.count >= LostBefore(f.n)'
                                       /\ f.n = announced' => f.count = LostBefore(f.n)'
    <3>1. SUFFICES ASSUME Ends(f)
                   PROVE  f.type = "run_ended" => /\ f.count >= LostBefore(f.n)'
                                                  /\ f.n = announced' => f.count = LostBefore(f.n)'
      BY DEF Ends, EndEvents
    <3>2. f.n \in 1 .. announced
      BY <1>s, <1>n, <2>2, <3>1 DEF Line
    <3>3. Ends(e)
      BY <1>s, <2>1, <2>2, <3>1 DEF Closed, Ends
    <3>4. e.n \in Nat /\ e.n \notin failed_ends /\ e.n >= f.n /\ f.n # announced'
      BY <1>s, <2>1, <3>2 DEF Line
    <3>5. \/ UNCHANGED <<dropped, failed_ends>>
          \/ \E m \in Nat : /\ dropped' = dropped + 1 /\ failed_ends' = failed_ends \cup {m}
                            /\ m \notin failed_ends /\ m >= f.n
      BY <2>1, <3>3, <3>4
    <3> QED
      BY <1>t, <2>2, <3>4, <3>5
  <2>3. Told(sending)' /\ Told(heard)'
    BY <1>s, <2>1, <2>2 DEF Telling, Told
  <2>4. ASSUME NEW f, Ends(f) \/ Last(f), f = sending \/ f = heard \/ \E k \in Ranks : f = queue[k]
        PROVE  ~Last(f)
    <3>1. CASE sink = "sweep"
      BY <1>s, <2>1, <2>4, <3>1 DEF Alone, Last, Ends, EndEvents
    <3>2. CASE sink # "sweep"
      BY <1>s, <2>4, <3>2 DEF Alone
    <3> QED
      BY <3>1, <3>2
  <2>5. ~Last(sending) /\ ~Last(heard) /\ \A k \in Ranks : ~Last(queue[k])
    BY <2>4
  <2>6. ASSUME NEW k \in Ranks', Last(queue'[k])
        PROVE  queue'[k].count <= dropped' /\ dropped' + OnTheWay' <= queue'[k].count + (Capacity + 2)
    <3>1. /\ queue'[k] = e /\ UNCHANGED <<dropped, failed_ends>>
      BY <1>s, <2>1, <2>5, <2>6 DEF Ranks
    <3>2. Last(outbox[1])
      BY <2>1, <2>6, <3>1 DEF Last
    <3>3. outbox[1].count <= dropped /\ dropped + OnTheWay <= outbox[1].count + (Capacity + 1)
      BY <1>s, <2>1, <3>2 DEF Telling, Close
    <3>4. OnTheWay' = OnTheWay + 1
      BY <1>1, <1>s, <3>1, WayEmit
    <3>5. outbox[1].count \in Nat
      BY <2>1 DEF EventSet
    <3>6. \A d, w, c, r \in Nat : d + w <= c + (r + 1) => d + (w + 1) <= c + (r + 2)
      OBVIOUS
    <3>7. dropped + (OnTheWay + 1) <= outbox[1].count + (Capacity + 2)
      BY <1>s, <3>3, <3>5, <3>6
    <3> QED
      BY <2>1, <3>1, <3>3, <3>4, <3>7
  <2>7. ASSUME NEW k \in 1 .. Len(outbox') PROVE ~Last(outbox'[k])
    <3>1. k + 1 \in 1 .. Len(outbox) /\ outbox'[k] = outbox[k + 1]
      BY <2>1
    <3>2. CASE phase = "loop"
      BY <1>s, <3>1, <3>2 DEF Closed, Ends, EndEvents, Last
    <3>3. CASE phase # "loop"
      BY <1>s, <3>1, <3>3 DEF Closed
    <3> QED
      BY <3>2, <3>3
  <2> QED
    BY <2>1, <2>3, <2>5, <2>6, <2>7 DEF Telling, Close, Last
<1>2. CASE Receive
  <2>1. /\ sending = NoEvent /\ sending' # NoEvent /\ 1 \in Ranks
        /\ sending'.n = queue[1].n /\ sending'.type = queue[1].type
        /\ sending'.count = IF queue[1].type = "run_ended" THEN dropped ELSE queue[1].count
        /\ \A k \in Ranks' : k + 1 \in Ranks /\ queue'[k] = queue[k + 1]
        /\ UNCHANGED <<outbox, announced, dropped, failed_ends, heard>> /\ OnTheWay' = OnTheWay
    BY <1>2, <1>s, Reception, WayReceive
  <2>2. ASSUME NEW n \in Nat PROVE LostBefore(n)' = LostBefore(n)
    BY <2>1 DEF LostBefore
  <2>3. queue[1] \in EventSet /\ queue[1].n \in Nat /\ queue[1].n \notin failed_ends
    BY <1>s, <2>1 DEF Line, EventSet
  <2>4. ASSUME sending'.type = "run_ended"
        PROVE  /\ sending'.count >= LostBefore(queue[1].n)
               /\ queue[1].n = announced => sending'.count = LostBefore(queue[1].n)
    <3>1. sending'.count = dropped
      BY <2>1, <2>4
    <3>2. ASSUME NEW n \in Nat, n = queue[1].n
          PROVE  /\ LostBefore(n) \in Int /\ LostBefore(n) <= dropped
                 /\ n = announced => LostBefore(n) = dropped
      <4>1. n \notin failed_ends
        BY <2>3, <3>2
      <4> QED
        BY <1>s, <4>1, LossCount
    <3>3. /\ LostBefore(queue[1].n) \in Int /\ LostBefore(queue[1].n) <= dropped
          /\ queue[1].n = announced => LostBefore(queue[1].n) = dropped
      BY <2>3, <3>2
    <3> QED
      BY <1>s, <3>1, <3>2, <3>3
  <2>5. Told(sending)'
    BY <2>1, <2>2, <2>3, <2>4 DEF Told
  <2>6. Told(heard)'
    BY <1>s, <2>1, <2>2 DEF Told, Telling, EventSet
  <2>7. \A k \in Ranks : Last(queue[k]) => /\ queue[k].count <= dropped
                                           /\ dropped + OnTheWay <= queue[k].count + (Capacity + 2)
    BY <1>s DEF Telling, Close
  <2>8. Last(sending') => /\ sending'.count <= dropped
                          /\ dropped + OnTheWay <= sending'.count + (Capacity + 2)
    BY <2>1, <2>7 DEF Last
  <2>9. \A k \in Ranks' : Last(queue'[k]) => /\ queue'[k].count <= dropped
                                             /\ dropped + OnTheWay <= queue'[k].count + (Capacity + 2)
    BY <2>1, <2>7
  <2>10. Last(heard) => heard.count <= dropped /\ dropped + OnTheWay <= heard.count + (Capacity + 1)
    BY <1>s DEF Telling, Close
  <2>11. \A k \in 1 .. Len(outbox') : Last(outbox'[k])
            => /\ outbox'[k].count <= dropped'
               /\ dropped' + OnTheWay' <= outbox'[k].count + (Capacity + 1)
    BY <1>s, <2>1 DEF Telling, Close
  <2> QED
    BY <2>1, <2>5, <2>6, <2>8, <2>9, <2>10, <2>11 DEF Telling, Close, Last
<1>3. CASE PostSucceeds \/ PostFails
  <2>1. /\ sending # NoEvent /\ sending' = NoEvent /\ UNCHANGED <<announced, outbox, queue>>
        /\ Ranks' = Ranks
        /\ \/ /\ PostSucceeds /\ UNCHANGED <<dropped, failed_ends>>
              /\ heard' = IF Ends(sending) THEN sending ELSE heard
           \/ /\ PostFails /\ UNCHANGED heard /\ dropped' = dropped + 1
              /\ failed_ends' = IF Ends(sending) THEN failed_ends \cup {sending.n}
                                                 ELSE failed_ends
    BY <1>3, <1>s, Posting
  <2>2. OnTheWay > 0 /\ OnTheWay' = OnTheWay - 1 /\ (dropped' = dropped \/ dropped' = dropped + 1)
    BY <1>3, <1>s, WayPost
  <2>3. Told(sending)'
    BY <1>n, <2>1 DEF Told
  <2>4. Told(sending) /\ Told(heard)
    BY <1>s DEF Telling
  <2>5. Told(heard)'
    <3>1. CASE UNCHANGED <<dropped, failed_ends>> /\ (heard' = sending \/ heard' = heard)
      <4>1. ASSUME NEW n \in Nat PROVE LostBefore(n)' = LostBefore(n)
        BY <3>1 DEF LostBefore
      <4>2. sending.n \in Nat /\ heard.n \in Nat
        BY <1>s DEF EventSet
      <4> QED
        BY <2>1, <2>4, <3>1, <4>1, <4>2 DEF Told
    <3>2. CASE /\ heard' = heard /\ dropped' = dropped + 1 /\ Ends(heard)
               /\ failed_ends' = IF Ends(sending) THEN failed_ends \cup {sending.n} ELSE failed_ends
      <4>1. Ends(sending) /\ heard.n < sending.n /\ sending.n \in (1 .. announced) \ failed_ends
        BY <1>s, <2>1, <3>2 DEF Line, Closed
      <4>2. heard.n \in Nat /\ sending.n \in Nat /\ sending.n >= heard.n
        BY <1>s, <4>1 DEF EventSet
      <4>3. heard.type = "run_ended" => /\ heard.count >= LostBefore(heard.n)'
                                        /\ heard.n = announced' => heard.count = LostBefore(heard.n)'
        <5>1. LostBefore(heard.n)' = LostBefore(heard.n)
          <6>1. ASSUME NEW n \in Nat, n = heard.n PROVE LostBefore(n)' = LostBefore(n)
            BY <1>s, <3>2, <4>1, <4>2, <6>1, LossStays
          <6> QED
            BY <3>2, <4>2, <6>1 DEF LostBefore
        <5> QED
          BY <2>1, <2>4, <5>1 DEF Told
      <4> QED
        BY <3>2, <4>3 DEF Told, LostBefore
    <3>3. CASE heard' = heard /\ ~Ends(heard)
      BY <3>3 DEF Told, Ends, EndEvents
    <3> QED
      BY <2>1, <3>1, <3>2, <3>3
  <2>6. ASSUME NEW e \in EventSet, NEW room \in Nat, Close(e, room)
        PROVE  Last(e) => e.count <= dropped' /\ dropped' + OnTheWay' <= e.count + room
    BY <1>s, <2>1, <2>2, <2>6, CloseStays
  <2>7. \A k \in Ranks : Last(queue[k]) => /\ queue[k].count <= dropped'
                                           /\ dropped' + OnTheWay' <= queue[k].count + (Capacity + 2)
    BY <1>s, <2>6 DEF Telling
  <2>8. Last(heard) => heard.count <= dropped' /\ dropped' + OnTheWay' <= heard.count + (Capacity + 1)
    BY <1>s, <2>6 DEF Telling
  <2>9. ASSUME PostSucceeds, dropped' = dropped, Last(sending)
        PROVE  sending.count <= dropped' /\ dropped' + OnTheWay' <= sending.count + (Capacity + 1)
    <3>1. sending.count <= dropped /\ dropped + OnTheWay <= sending.count + (Capacity + 2)
      BY <1>s, <2>9 DEF Telling, Close
    <3>2. sending.count \in Nat
      BY <1>s DEF EventSet
    <3>3. \A d, w, c, r \in Nat : w > 0 /\ d + w <= c + (r + 2) => d + (w - 1) <= c + (r + 1)
      OBVIOUS
    <3> QED
      BY <1>s, <2>2, <2>9, <3>1, <3>2, <3>3
  <2>10. Last(heard') => heard'.count <= dropped' /\ dropped' + OnTheWay' <= heard'.count + (Capacity + 1)
    BY <2>1, <2>8, <2>9
  <2>11. ~Last(sending')
    BY <1>n, <2>1 DEF Last
  <2>12. \A k \in 1 .. Len(outbox) : Last(outbox[k])
                 => /\ outbox[k].count <= dropped'
                    /\ dropped' + OnTheWay' <= outbox[k].count + (Capacity + 1)
    <3>1. \A k \in 1 .. Len(outbox) : outbox[k] \in EventSet
      BY <1>s, Shapes
    <3> QED
      BY <1>s, <2>6, <3>1 DEF Telling
  <2> QED
    BY <2>1, <2>3, <2>5, <2>7, <2>10, <2>11, <2>12 DEF Telling, Close, Last
<1>4. CASE ~(Emit \/ Receive \/ PostSucceeds \/ PostFails)
  <2>1. UNCHANGED <<queue, sending, heard, dropped, failed_ends, announced>> /\ Ranks' = Ranks
          /\ OnTheWay' = OnTheWay
    BY <1>4, WayQuiet, Handling DEF sinkVars, saidVars, lossVars, heardVars, Ranks
  <2>2. ASSUME NEW n PROVE LostBefore(n)' = LostBefore(n)
    BY <2>1 DEF LostBefore
  <2>3. Told(sending)' /\ Told(heard)'
    BY <1>s, <2>1, <2>2 DEF Telling, Told
  <2>4. \A k \in 1 .. Len(outbox') : Last(outbox'[k])
            => /\ outbox'[k].count <= dropped'
               /\ dropped' + OnTheWay' <= outbox'[k].count + (Capacity + 1)
    <3>1. CASE UNCHANGED outbox
      BY <1>s, <2>1, <3>1 DEF Telling, Close
    <3>2. ASSUME NEW e, outbox' = <<e>>, Close(e, Capacity + 1)
          PROVE  \A k \in 1 .. Len(outbox') : Last(outbox'[k])
            => /\ outbox'[k].count <= dropped'
               /\ dropped' + OnTheWay' <= outbox'[k].count + (Capacity + 1)
      <4>1. Len(outbox') = 1 /\ outbox'[1] = e
        BY <3>2
      <4> QED
        BY <2>1, <3>2, <4>1 DEF Close
    <3>3. Close(LastEvent, Capacity + 1)
      <4>1. LastEvent.count = dropped /\ OnTheWay <= Capacity + 1
        <5>1. TypeOK
          BY <1>s DEF IInv
        <5>2. Len(queue) \in Nat /\ Len(queue) <= Capacity /\ Capacity \in Nat
          BY <5>1, CapacityAssumption DEF TypeOK
        <5>3. LastEvent.count = dropped
          BY <5>1, LastEventType
        <5>4. OnTheWay <= Capacity + 1
          BY <5>2 DEF OnTheWay
        <5> QED
          BY <5>3, <5>4
      <4>2. dropped \in Nat /\ Capacity \in Nat
        BY <1>s, CapacityAssumption DEF IInv, TypeOK
      <4> QED
        BY <1>s, <4>1, <4>2 DEF Close
    <3>4. Close(Event("run_ended", 0), Capacity + 1)
      BY DEF Close, Last, Event
    <3>5. ASSUME outbox' \in Seq(Middle)
          PROVE  \A k \in 1 .. Len(outbox') : Last(outbox'[k])
            => /\ outbox'[k].count <= dropped'
               /\ dropped' + OnTheWay' <= outbox'[k].count + (Capacity + 1)
      <4>1. ASSUME NEW k \in 1 .. Len(outbox') PROVE outbox'[k] \in Middle
        BY <3>5
      <4> QED
        BY <4>1 DEF Middle, EndEvents, Close, Last
    <3> QED
      BY <1>4, <3>1, <3>2, <3>3, <3>4, <3>5, Handling
  <2> QED
    BY <1>s, <2>1, <2>3, <2>4 DEF Telling, Close, Last
<1> QED
  BY <1>1, <1>2, <1>3, <1>4

----------------------------------------------------------------------------
LEMMA InitLined == Init => Line /\ Closed /\ Alone /\ Telling
<1> SUFFICES ASSUME Init PROVE Line /\ Closed /\ Alone /\ Telling
  OBVIOUS
<1>1. /\ phase = "loop" /\ queue = <<>> /\ sending = NoEvent /\ heard = NoEvent /\ failed_ends = {}
      /\ Ranks = {} /\ announced = 0
  BY DEF Init, Ranks
<1>2. \A k \in 1 .. Len(outbox) : ~Ends(outbox[k]) /\ ~Last(outbox[k])
  <2>1. outbox = <<NoEvent>> /\ ~Ends(NoEvent) /\ ~Last(NoEvent)
    BY DEF Init, NoEvent, Event, Ends, EndEvents, Last
  <2>2. Len(outbox) = 1 /\ \A k \in 1 .. 1 : outbox[k] = NoEvent
    BY <2>1
  <2> QED
    BY <2>1, <2>2
<1>3. ~Ends(NoEvent) /\ ~Last(NoEvent) /\ NoEvent.type # "run_ended"
  BY DEF NoEvent, Event, Ends, EndEvents, Last
<1> QED
  BY <1>1, <1>2, <1>3 DEF Line, Closed, Alone, Telling, Told, Close

LEMMA TellingInvariant == Spec => [](Lined /\ Telling)
<1>1. Init => Lined /\ Telling
  BY InitIInv, InitLined DEF Lined
<1>2. Lined /\ Telling /\ [Next]_vars => (Lined /\ Telling)'
  BY StepIInv, LineStep, ClosedStep, AloneStep, TellingStep DEF Lined
<1> QED
  BY <1>1, <1>2, PTL DEF Spec

(* The run_ended and sweep_completed events a receiver acknowledges        *)
(* (src/stream/webhook.rs, src/stream/sweep_webhook.rs) count the losses   *)
(* before them: exactly for the last end of a run, and for a sweep but for *)
(* at most Capacity + 1 that were still on their way when the sweep read   *)
(* the counter, for every capacity.                                        *)
THEOREM EndsCount == Spec => []EndCounts
<1>1. Lined /\ Telling => EndCounts
  <2> SUFFICES ASSUME Lined, Telling PROVE EndCounts
    OBVIOUS
  <2>1. /\ IInv /\ Line /\ Alone /\ announced \in Nat /\ dropped \in Nat /\ OnTheWay \in Nat
        /\ heard \in EventSet /\ heard.n \in Nat /\ heard.count \in Nat /\ Capacity \in Nat
    BY Shapes, CapacityAssumption DEF Lined, OnTheWay, EventSet
  <2>2. ASSUME Last(heard)
        PROVE  /\ heard.count <= LostBefore(heard.n)
               /\ LostBefore(heard.n) <= heard.count + Capacity + 1
    <3>1. Ends(heard) /\ sink = "sweep"
      BY <2>1, <2>2 DEF Ends, EndEvents, Last, Alone
    <3>2. heard.n = announced /\ heard.n \notin failed_ends
      BY <2>1, <3>1 DEF Alone, Line
    <3>3. LostBefore(heard.n) = dropped
      BY <2>1, <3>2, LossCount
    <3>4. heard.count <= dropped /\ dropped + OnTheWay <= heard.count + (Capacity + 1)
      BY <2>2 DEF Telling, Close
    <3> QED
      BY <2>1, <3>3, <3>4
  <2>3. heard.type = "run_ended" => /\ heard.count >= LostBefore(heard.n)
                                    /\ heard.n = announced => heard.count = LostBefore(heard.n)
    BY DEF Telling, Told
  <2> QED
    BY <2>2, <2>3 DEF EndCounts, Last
<1> QED
  BY <1>1, TellingInvariant, PTL
=============================================================================
