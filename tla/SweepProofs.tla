----------------------------- MODULE SweepProofs -----------------------------
(***************************************************************************)
(* Theorems about the dispatcher of module Sweep, for every number of      *)
(* slots and workers, every cost limit, every set of worker results and    *)
(* every leftover of an earlier sweep.                                     *)
(***************************************************************************)
EXTENDS Sweep, FiniteSetTheorems, TLAPS

LEMMA SuppressBound == SuppressMax \in 0 .. Parallel - 1
BY ParallelAssumption DEF SuppressMax

LEMMA SlotsFinite == IsFiniteSet(Slots)
BY SlotsAssumption, FS_Interval DEF Slots

LEMMA SubsetCount ==
  ASSUME NEW A, A \subseteq Slots
  PROVE  IsFiniteSet(A) /\ Cardinality(A) \in Nat /\ (Cardinality(A) = 0 <=> A = {})
BY SlotsFinite, FS_Subset, FS_CardinalityType, FS_EmptySet

LEMMA BlankType ==
  ASSUME NEW T, NEW t \in T
  PROVE  Blank(t) \in Record(T)
BY CostAssumption DEF Blank, Record, NoCat

LEMMA InitType == Init => TypeOK
<1> SUFFICES ASSUME Init PROVE TypeOK
  OBVIOUS
<1>1. TypeLoop
  <2>1. phase = "scan" /\ cursor = 1 /\ pending = {} /\ in_flight = 0 /\ cumulative_cost = 0
        /\ halted = FALSE
    BY DEF Init, InitLoop
  <2>2. phase \in {"scan", "select", "tick", "gauge", "dispatch", "report", "unwind", "done", "failed"}
    BY <2>1
  <2>3. cursor \in 1 .. NumSlots + 1
    BY <2>1, SlotsAssumption
  <2>4. in_flight \in 0 .. Parallel
    BY <2>1, ParallelAssumption
  <2> QED
    BY <2>1, <2>2, <2>3, <2>4 DEF TypeLoop
<1>2. TypeRows
  BY BlankType DEF Init, InitRows, TypeRows, TaskTags, RowTags
<1>3. TypeStop
  BY DEF Init, InitStop, TypeStop, NoCancellation
<1>4. TypeSignals
  BY FlagsAssumption DEF Init, InitSignals, TypeSignals
<1>5. TypeGauge
  BY SuppressBound, ParallelAssumption DEF Init, InitGauge, TypeGauge
<1>6. TypeDisk
  BY OutcomesAssumption, CostAssumption DEF Init, InitDisk, TypeDisk
<1> QED
  BY <1>1, <1>2, <1>3, <1>4, <1>5, <1>6 DEF TypeOK

LEMMA ScanType == TypeOK /\ ScanSlot => TypeOK'
<1> SUFFICES ASSUME TypeOK, ScanSlot PROVE TypeOK'
  OBVIOUS
<1>1. PriorCost(cursor) \in 0 .. MaxCost /\ cursor \in Slots
  BY DEF TypeOK, TypeDisk, ScanSlot, PriorCost, Archive
<1>2. TypeLoop'
  <2>1. cumulative_cost' \in Nat /\ halted' \in BOOLEAN
    BY <1>1, CostAssumption DEF TypeOK, TypeLoop, ScanSlot, ScanRequeue, ScanRetry, ScanSkip, bump_cost
  <2>2. pending' \subseteq Slots
    BY <1>1 DEF TypeOK, TypeLoop, ScanSlot, ScanRequeue, ScanRetry, ScanSkip
  <2> QED
    BY <1>1, <2>1, <2>2, SlotsAssumption DEF TypeOK, TypeLoop, ScanSlot, Slots
<1>3. TypeRows'
  <2>1. archive[cursor].cat \in Cats \cup {NoCat}
    BY <1>1 DEF TypeOK, TypeDisk, Archive
  <2>2. SkippedRow(cursor) \in Record(RowTags) /\ Blank("budget_halt") \in Record(RowTags)
    <3>1. Blank("budget_halt") \in Record(RowTags)
      BY BlankType DEF RowTags
    <3>2. PICK t \in RowTags : SkippedRow(cursor) =
            [tag |-> t, cat |-> archive[cursor].cat, cost |-> PriorCost(cursor), last |-> 0]
      BY DEF SkippedRow, RowTags, SkipTags
    <3>3. 0 \in 0 .. MaxCost
      BY CostAssumption
    <3> QED
      BY <1>1, <2>1, <3>1, <3>2, <3>3 DEF Record
  <2>3. results' \in [Slots -> Record(RowTags)]
    BY <1>1, <2>2 DEF TypeOK, TypeRows, ScanSlot, ScanRequeue, ScanRetry, ScanSkip
  <2> QED
    BY <2>3 DEF TypeOK, TypeRows, ScanSlot
<1>4. TypeStop' /\ TypeSignals' /\ TypeGauge' /\ TypeDisk'
  BY DEF TypeOK, TypeStop, TypeSignals, TypeGauge, TypeDisk, ScanSlot, stopVars, signalVars, diskVars
<1> QED
  BY <1>2, <1>3, <1>4 DEF TypeOK

LEMMA FillType == TypeOK /\ Fill => TypeOK'
<1> SUFFICES ASSUME TypeOK, Fill PROVE TypeOK'
  OBVIOUS
<1> USE DEF TypeOK, Fill
<1>1. ASSUME FillHalted PROVE TypeLoop' /\ TypeRows'
  <2>1. Blank("budget_halt") \in Record(RowTags)
    BY BlankType DEF RowTags
  <2>2. results' \in [Slots -> Record(RowTags)]
    BY <1>1, <2>1 DEF FillHalted, RefuseAll, TypeRows
  <2> QED
    BY <1>1, <2>2 DEF FillHalted, TypeLoop, TypeRows
<1>2. ASSUME FillWorkers PROVE TypeLoop' /\ TypeRows'
  <2>1. Blank("running") \in Record(TaskTags)
    BY BlankType DEF TaskTags
  <2>2. PICK F \in SUBSET pending :
          /\ IsFront(F, pending, IF Cardinality(pending) < Parallel
                                 THEN Cardinality(pending) ELSE Parallel)
          /\ Spawn(F) /\ in_flight' = Cardinality(F) /\ pending' = pending \ F
    BY <1>2 DEF FillWorkers
  <2>3. Cardinality(pending) \in Nat
    BY SubsetCount DEF TypeLoop
  <2>4. in_flight' \in 0 .. Parallel
    BY <2>2, <2>3, ParallelAssumption DEF IsFront
  <2>5. tasks' \in [Slots -> Record(TaskTags)]
    BY <2>1, <2>2 DEF Spawn, TypeRows
  <2> QED
    BY <1>2, <2>2, <2>4, <2>5 DEF FillWorkers, TypeLoop, TypeRows
<1>3. TypeStop' /\ TypeSignals' /\ TypeGauge' /\ TypeDisk'
  BY FlagsAssumption DEF TypeStop, TypeSignals, TypeGauge, TypeDisk, stopVars, diskVars
<1> QED
  BY <1>1, <1>2, <1>3

LEMMA JoinType ==
  ASSUME NEW s \in Slots, TypeOK, Join(s)
  PROVE  TypeOK'
<1> USE DEF TypeOK
<1>0. tasks[s] \in Record(TaskTags) /\ Blank("idle") \in Record(TaskTags)
      /\ PanicRow \in Record(RowTags)
  BY BlankType, CatsAssumption, CostAssumption
     DEF TypeRows, TaskTags, RowTags, LiveTags, PanicRow, Blank, Record, NoCat
<1>1. CASE JoinResult(s)
  <2>1. tasks[s] \in Record(RowTags) /\ tasks[s].cost \in Nat
    BY <1>0, <1>1, CostAssumption DEF JoinResult, Record, RowTags
  <2>2. TypeRows'
    BY <1>0, <1>1, <2>1 DEF JoinResult, TypeRows
  <2>3. TypeLoop'
    <3>1. phase' \in {"select", "tick", "unwind"}
      BY <1>1 DEF JoinResult, CheckBreaker, AfterEvent, LeaveByError
    <3>2. cumulative_cost' \in Nat /\ halted' \in BOOLEAN
      BY <1>1, <2>1, CostAssumption DEF JoinResult, TypeLoop, bump_cost
    <3>3. in_flight' \in 0 .. Parallel
      BY <1>1, ParallelAssumption DEF JoinResult, TypeLoop
    <3>4. UNCHANGED <<pending, cursor>>
      BY <1>1 DEF JoinResult
    <3> QED
      BY <3>1, <3>2, <3>3, <3>4 DEF TypeLoop
  <2>4. TypeStop'
    <3>1. Cardinality(pending) \in Nat
      BY SubsetCount DEF TypeLoop
    <3> QED
      BY <1>1, <3>1 DEF JoinResult, TypeStop, CheckBreaker
  <2> QED
    BY <1>1, <2>2, <2>3, <2>4 DEF JoinResult, TypeSignals, TypeGauge, TypeDisk, signalVars, diskVars
<1>2. CASE JoinPanic(s)
  <2>1. TypeRows'
    BY <1>0, <1>2 DEF JoinPanic, TypeRows
  <2>2. TypeLoop'
    <3>1. phase' \in {"select", "tick"}
      BY <1>2 DEF JoinPanic, AfterEvent
    <3>2. in_flight' \in 0 .. Parallel
      BY <1>2, ParallelAssumption DEF JoinPanic, TypeLoop
    <3>3. UNCHANGED <<pending, cursor, cumulative_cost, halted>>
      BY <1>2 DEF JoinPanic
    <3> QED
      BY <3>1, <3>2, <3>3 DEF TypeLoop
  <2> QED
    BY <1>2, <2>1, <2>2 DEF JoinPanic, TypeStop, TypeSignals, TypeGauge, TypeDisk, stopVars,
       signalVars, diskVars
<1> QED
  BY <1>1, <1>2 DEF Join

LEMMA SignalType == TypeOK /\ apply_sweep_signal => TypeOK'
<1> SUFFICES ASSUME TypeOK, apply_sweep_signal PROVE TypeOK'
  OBVIOUS
<1> USE DEF TypeOK, apply_sweep_signal
<1>1. Snapshot \in [on : BOOLEAN, completed : Nat, in_flight_at_cancel : Nat,
                    not_started : Nat, exit_code : {0, 130, 137}]
  <2>1. Cardinality(pending) \in Nat /\ Cardinality(Done) \in Nat
    BY SubsetCount DEF TypeLoop, Done
  <2> QED
    BY <2>1 DEF Snapshot, TypeLoop
<1>2. TypeStop'
  <2>1. CASE escalate
    BY <2>1 DEF TypeStop, escalate
  <2>2. CASE begin_sweep_cancellation
    BY <1>1, <2>2, FlagsAssumption DEF TypeStop, begin_sweep_cancellation
  <2> QED
    BY <2>1, <2>2
<1>3. TypeLoop'
  BY DEF TypeLoop, begin_sweep_cancellation, escalate, LeaveByError
<1> QED
  BY <1>2, <1>3 DEF TypeRows, TypeSignals, TypeGauge, TypeDisk

LEMMA DispatchType == TypeOK /\ Dispatch => TypeOK'
<1> SUFFICES ASSUME TypeOK, Dispatch PROVE TypeOK'
  OBVIOUS
<1> USE DEF TypeOK, Dispatch
<1>1. ASSUME DispatchRefuse PROVE TypeLoop' /\ TypeRows'
  <2>1. Blank("budget_halt") \in Record(RowTags)
    BY BlankType DEF RowTags
  <2>2. results' \in [Slots -> Record(RowTags)]
    BY <1>1, <2>1 DEF DispatchRefuse, RefuseAll, TypeRows
  <2> QED
    BY <1>1, <2>2 DEF DispatchRefuse, TypeLoop, TypeRows
<1>2. ASSUME DispatchOne PROVE TypeLoop' /\ TypeRows'
  <2>1. Blank("running") \in Record(TaskTags)
    BY BlankType DEF TaskTags
  <2> QED
    <3>1. PICK s \in Slots : pop_front(s) /\ tasks' = [tasks EXCEPT ![s] = Blank("running")]
      BY <1>2 DEF DispatchOne
    <3>2. in_flight' \in 0 .. Parallel
      BY <1>2, ParallelAssumption DEF DispatchOne, HasRoom, TypeLoop, TypeGauge
    <3>3. TypeRows'
      BY <1>2, <2>1, <3>1 DEF DispatchOne, TypeRows
    <3>4. pending' \subseteq Slots
      BY <3>1 DEF pop_front, TypeLoop
    <3> QED
      BY <3>2, <3>3, <3>4 DEF TypeLoop
<1>3. ASSUME DispatchNone PROVE TypeLoop' /\ TypeRows'
  BY <1>3 DEF DispatchNone, TypeLoop, TypeRows
<1>4. TypeStop' /\ TypeSignals' /\ TypeGauge' /\ TypeDisk'
  BY DEF TypeStop, TypeSignals, TypeGauge, TypeDisk, stopVars, diskVars
<1> QED
  BY <1>1, <1>2, <1>3, <1>4

LEMMA OtherLoopType ==
  ASSUME TypeOK,
         SelectClosed \/ DeadlineElapsed \/ TickAimd \/ ReadGauge \/ LeaveLoop \/ Report \/ Unwind
  PROVE  TypeOK'
<1> USE DEF TypeOK, TypeLoop, TypeRows, TypeStop, TypeSignals, TypeGauge, TypeDisk,
         loopVars, stopVars, signalVars, diskVars
<1>1. CASE SelectClosed
  BY <1>1 DEF SelectClosed, AfterEvent
<1>2. CASE DeadlineElapsed
  BY <1>2 DEF DeadlineElapsed
<1>3. CASE TickAimd
  BY <1>3, SuppressBound DEF TickAimd
<1>4. CASE ReadGauge
  BY <1>4, SuppressBound, ParallelAssumption DEF ReadGauge
<1>5. CASE LeaveLoop
  BY <1>5 DEF LeaveLoop
<1>6. CASE Report
  BY <1>6 DEF Report, LeaveByError
<1>7. CASE Unwind
  <2>1. Blank("idle") \in Record(TaskTags)
    BY BlankType DEF TaskTags
  <2> QED
    BY <1>7, <2>1 DEF Unwind
<1> QED
  BY <1>1, <1>2, <1>3, <1>4, <1>5, <1>6, <1>7

LEMMA WorkType ==
  ASSUME NEW s \in Slots, NEW o \in Outcomes, TypeOK, Work(s, o)
  PROVE  TypeOK'
<1> USE DEF TypeOK
<1>1. o \in Record(LiveTags) /\ o \in Record(TaskTags)
  BY OutcomesAssumption DEF Record, TaskTags
<1>2. TypeRows'
  BY <1>1 DEF Work, TypeRows, loopVars
<1>3. \A k \in ArchiveKinds : Trajectory(k, o) \in Archive
  BY <1>1 DEF Trajectory, Archive, Record
<1>4. TypeDisk'
  BY <1>3 DEF Work, SaveTrajectory, TypeDisk, ArchiveKinds
<1> QED
  BY <1>2, <1>4 DEF Work, TypeLoop, TypeStop, TypeSignals, TypeGauge, loopVars, stopVars, signalVars

LEMMA OutsideType ==
  ASSUME TypeOK, Report429 \/ SendSignal \/ DropSender \/ UNCHANGED vars
  PROVE  TypeOK'
<1> USE DEF TypeOK, TypeLoop, TypeRows, TypeStop, TypeSignals, TypeGauge, TypeDisk,
         loopVars, stopVars, signalVars, diskVars
<1>1. CASE Report429
  BY <1>1, SuppressBound DEF Report429
<1>2. CASE SendSignal
  BY <1>2 DEF SendSignal
<1>3. CASE DropSender
  BY <1>3 DEF DropSender
<1>4. CASE UNCHANGED vars
  BY <1>4 DEF vars
<1> QED
  BY <1>1, <1>2, <1>3, <1>4

(* The type invariant: the dispatcher's counters stay in their ranges, in  *)
(* particular in_flight within --parallel and the gauge above zero.        *)
THEOREM TypeCorrect == Spec => []TypeOK
<1>1. Init => TypeOK
  BY InitType
<1>2. TypeOK /\ [Next]_vars => TypeOK'
  BY ScanType, FillType, JoinType, SignalType, DispatchType, OtherLoopType, WorkType, OutsideType
     DEF Next, Loop, SelectSignal, DispatchSignal, WorkerEnds, Finished
<1> QED
  BY <1>1, <1>2, PTL DEF Spec

----------------------------------------------------------------------------
(* Slots and the hand-kept counter.                                        *)
Accounted ==
  /\ SlotsConserved
  /\ phase # "failed" => in_flight = Cardinality(Live)
  /\ phase = "failed" => Live = {}
  /\ phase = "scan" => in_flight = 0

LEMMA LiveCount == Live \subseteq Slots /\ IsFiniteSet(Live) /\ Cardinality(Live) \in Nat
BY SubsetCount DEF Live

LEMMA InitAccounted == Init => Accounted
<1> SUFFICES ASSUME Init PROVE Accounted
  OBVIOUS
<1>1. Live = {} /\ Done = {}
  BY DEF Init, InitRows, Live, Done, Blank
<1>2. phase = "scan" /\ cursor = 1 /\ pending = {} /\ in_flight = 0
  BY DEF Init, InitLoop
<1> QED
  BY <1>1, <1>2, FS_EmptySet, SlotsAssumption DEF Accounted, SlotsConserved, InOnePlace, Slots

LEMMA ScanAccounted == TypeOK /\ Accounted /\ ScanSlot => Accounted'
<1> SUFFICES ASSUME TypeOK, Accounted, ScanSlot PROVE Accounted'
  OBVIOUS
<1> USE DEF TypeOK, Accounted
<1>1. Live' = Live /\ UNCHANGED <<phase, in_flight>> /\ phase = "scan" /\ cursor \in Slots
      /\ cursor' = cursor + 1
  BY DEF ScanSlot, Live
<1>2. ASSUME NEW s \in Slots, s # cursor PROVE InOnePlace(s)'
  <2>1. (s \in pending' <=> s \in pending) /\ (s \in Done' <=> s \in Done)
    BY <1>2 DEF ScanSlot, ScanRequeue, ScanRetry, ScanSkip, Done, TypeRows
  <2>2. s \in Nat /\ cursor \in Nat /\ (s < cursor <=> s < cursor')
    BY <1>1, <1>2, SlotsAssumption DEF Slots
  <2> QED
    BY <1>1, <2>1, <2>2 DEF SlotsConserved, InOnePlace
<1>3. ASSUME NEW s \in Slots, s = cursor PROVE InOnePlace(s)'
  <2>1. s \notin pending \cup Live \cup Done /\ s \in Nat
    BY <1>1, <1>3, SlotsAssumption DEF SlotsConserved, InOnePlace, Slots
  <2>2. \/ s \in pending' /\ s \notin Done'
        \/ s \notin pending' /\ s \in Done'
    BY <1>1, <1>3, <2>1 DEF ScanSlot, ScanRequeue, ScanRetry, ScanSkip, Done, TypeRows, Blank, SkippedRow
  <2>3. s < cursor'
    BY <1>1, <1>3, <2>1
  <2> QED
    BY <1>1, <2>1, <2>2, <2>3 DEF InOnePlace
<1> QED
  BY <1>1, <1>2, <1>3 DEF SlotsConserved

LEMMA FillAccounted == TypeOK /\ Accounted /\ Fill => Accounted'
<1> SUFFICES ASSUME TypeOK, Accounted, Fill PROVE Accounted'
  OBVIOUS
<1> USE DEF TypeOK, Accounted
<1>1. Live = {} /\ phase = "scan" /\ phase' = "select" /\ UNCHANGED cursor
  BY LiveCount, SubsetCount DEF Fill
<1>2. CASE FillHalted
  <2>1. Live' = {} /\ in_flight' = 0
    BY <1>1, <1>2 DEF FillHalted, Live
  <2>2. \A s \in Slots : s \in Done' <=> s \in Done \cup pending
    BY <1>2 DEF FillHalted, RefuseAll, Done, Blank, TypeRows
  <2>3. pending' = {}
    BY <1>2 DEF FillHalted
  <2>4. ASSUME NEW s \in Slots PROVE InOnePlace(s)'
    BY <1>1, <2>1, <2>2, <2>3 DEF SlotsConserved, InOnePlace
  <2> QED
    BY <1>1, <2>1, <2>4, FS_EmptySet DEF SlotsConserved
<1>3. CASE FillWorkers
  <2>1. PICK F \in SUBSET pending :
          Spawn(F) /\ in_flight' = Cardinality(F) /\ pending' = pending \ F
    BY <1>3 DEF FillWorkers
  <2>2. Live' = F
    BY <1>1, <2>1 DEF Spawn, Live, Blank, TypeLoop
  <2>3. Done' = Done
    BY <1>3 DEF FillWorkers, Done
  <2>4. ASSUME NEW s \in Slots PROVE InOnePlace(s)'
    BY <1>1, <2>1, <2>2, <2>3 DEF SlotsConserved, InOnePlace
  <2> QED
    BY <1>1, <2>1, <2>2, <2>4 DEF SlotsConserved
<1> QED
  BY <1>2, <1>3 DEF Fill

LEMMA JoinAccounted ==
  ASSUME NEW j \in Slots, TypeOK, Accounted, Join(j)
  PROVE  Accounted'
<1> USE DEF TypeOK, Accounted
<1>1. /\ phase = "select" /\ phase' \in {"select", "tick", "unwind"}
      /\ in_flight' = in_flight - 1 /\ UNCHANGED <<pending, cursor>>
      /\ tasks' = [tasks EXCEPT ![j] = Blank("idle")]
      /\ tasks[j].tag \in LiveTags
  BY DEF Join, JoinResult, JoinPanic, CheckBreaker, AfterEvent, LeaveByError, LiveTags
<1>2. \E row : results' = [results EXCEPT ![j] = row] /\ row.tag # "none"
  BY DEF Join, JoinResult, JoinPanic, PanicRow, Blank, LiveTags
<1>3. Live' = Live \ {j} /\ j \in Live
  BY <1>1 DEF Live, TypeRows, Blank, LiveTags
<1>4. Done' = Done \cup {j}
  BY <1>2 DEF Done, TypeRows
<1>5. ASSUME NEW s \in Slots PROVE InOnePlace(s)'
  BY <1>1, <1>3, <1>4 DEF SlotsConserved, InOnePlace
<1>6. in_flight' = Cardinality(Live')
  BY <1>1, <1>3, LiveCount, FS_RemoveElement
<1> QED
  BY <1>1, <1>5, <1>6 DEF SlotsConserved

LEMMA DispatchAccounted == TypeOK /\ Accounted /\ Dispatch => Accounted'
<1> SUFFICES ASSUME TypeOK, Accounted, Dispatch PROVE Accounted'
  OBVIOUS
<1> USE DEF TypeOK, Accounted
<1>1. phase = "dispatch" /\ phase' = "select" /\ UNCHANGED cursor
  BY DEF Dispatch
<1>2. CASE DispatchRefuse
  <2>1. Live' = Live /\ in_flight' = in_flight /\ pending' = {}
    BY <1>2 DEF DispatchRefuse, Live
  <2>2. \A s \in Slots : s \in Done' <=> s \in Done \cup pending
    BY <1>2 DEF DispatchRefuse, RefuseAll, Done, Blank, TypeRows
  <2>3. ASSUME NEW s \in Slots PROVE InOnePlace(s)'
    BY <1>1, <2>1, <2>2 DEF SlotsConserved, InOnePlace
  <2> QED
    BY <1>1, <2>1, <2>3 DEF SlotsConserved
<1>3. CASE DispatchOne
  <2>1. PICK j \in Slots : pop_front(j) /\ tasks' = [tasks EXCEPT ![j] = Blank("running")]
    BY <1>3 DEF DispatchOne
  <2>2. Live' = Live \cup {j}
    BY <2>1 DEF Live, TypeRows, Blank
  <2>3. j \in pending /\ pending' = pending \ {j} /\ Done' = Done /\ in_flight' = in_flight + 1
    BY <1>3, <2>1 DEF pop_front, DispatchOne, Done
  <2>4. j \notin Live
    BY <1>1, <2>3 DEF SlotsConserved, InOnePlace
  <2>5. ASSUME NEW s \in Slots PROVE InOnePlace(s)'
    BY <1>1, <2>2, <2>3, <2>4 DEF SlotsConserved, InOnePlace
  <2>6. in_flight' = Cardinality(Live')
    BY <1>1, <2>2, <2>3, <2>4, LiveCount, FS_AddElement
  <2> QED
    BY <1>1, <2>5, <2>6 DEF SlotsConserved
<1>4. CASE DispatchNone
  <2>1. Live' = Live /\ Done' = Done /\ UNCHANGED <<pending, in_flight>>
    BY <1>4 DEF DispatchNone, Live, Done
  <2> QED
    BY <1>1, <2>1 DEF SlotsConserved, InOnePlace
<1> QED
  BY <1>2, <1>3, <1>4 DEF Dispatch

LEMMA WorkAccounted ==
  ASSUME NEW j \in Slots, NEW o \in Outcomes, TypeOK, Accounted, Work(j, o)
  PROVE  Accounted'
<1> USE DEF TypeOK, Accounted
<1>1. o.tag # "idle"
  BY OutcomesAssumption DEF Record, LiveTags
<1>2. Live' = Live
  BY <1>1 DEF Work, Live, TypeRows
<1>3. Done' = Done /\ UNCHANGED <<phase, cursor, pending, in_flight>>
  BY DEF Work, Done, loopVars
<1> QED
  BY <1>2, <1>3 DEF SlotsConserved, InOnePlace

(* Steps that move no slot and do not touch the counter.                   *)
LEMMA StillAccounted ==
  ASSUME Accounted, UNCHANGED <<cursor, pending, tasks, in_flight, results>>,
         phase # "scan" => phase' # "scan", phase = "failed" <=> phase' = "failed"
  PROVE  Accounted'
<1>1. Live' = Live /\ Done' = Done
  BY DEF Live, Done
<1> QED
  BY <1>1 DEF Accounted, SlotsConserved, InOnePlace

LEMMA UnwindAccounted == TypeOK /\ Accounted /\ Unwind => Accounted'
<1> SUFFICES ASSUME Unwind PROVE Accounted'
  OBVIOUS
<1>1. Live' = {} /\ phase' = "failed"
  BY DEF Unwind, Live, Blank
<1> QED
  BY <1>1 DEF Accounted, SlotsConserved

LEMMA StepAccounted == TypeOK /\ Accounted /\ [Next]_vars => Accounted'
<1> SUFFICES ASSUME TypeOK, Accounted, [Next]_vars PROVE Accounted'
  OBVIOUS
<1> USE DEF loopVars, stopVars, signalVars, diskVars
<1>1. CASE apply_sweep_signal /\ phase \in {"select", "dispatch"}
  BY <1>1, StillAccounted DEF apply_sweep_signal, begin_sweep_cancellation, escalate, LeaveByError
<1>2. CASE SelectClosed
  BY <1>2, StillAccounted DEF SelectClosed, AfterEvent
<1>3. CASE DeadlineElapsed
  BY <1>3, StillAccounted DEF DeadlineElapsed
<1>4. CASE TickAimd \/ ReadGauge
  BY <1>4, StillAccounted DEF TickAimd, ReadGauge
<1>5. CASE LeaveLoop \/ Report
  BY <1>5, StillAccounted DEF LeaveLoop, Report, LeaveByError
<1>6. CASE Report429 \/ SendSignal \/ DropSender
  BY <1>6, StillAccounted DEF Report429, SendSignal, DropSender
<1>7. CASE UNCHANGED vars
  BY <1>7, StillAccounted DEF vars
<1> QED
  BY <1>1, <1>2, <1>3, <1>4, <1>5, <1>6, <1>7, ScanAccounted, FillAccounted, JoinAccounted,
     DispatchAccounted, WorkAccounted, UnwindAccounted
     DEF Next, Loop, SelectSignal, DispatchSignal, WorkerEnds, Finished

(* No slot is ever lost or in two places, whatever events race.            *)
THEOREM SlotsAreConserved == Spec => []SlotsConserved
<1>1. Init => TypeOK /\ Accounted
  BY InitType, InitAccounted
<1>2. TypeOK /\ TypeOK' /\ Accounted /\ [Next]_vars => Accounted'
  BY StepAccounted
<1>3. Accounted => SlotsConserved
  BY DEF Accounted
<1> QED
  BY <1>1, <1>2, <1>3, TypeCorrect, PTL DEF Spec

(* The loop's counter is the size of the JoinSet and within --parallel.    *)
THEOREM InFlightIsExact == Spec => []InFlightAgrees
<1>1. Init => TypeOK /\ Accounted
  BY InitType, InitAccounted
<1>2. TypeOK /\ TypeOK' /\ Accounted /\ [Next]_vars => Accounted'
  BY StepAccounted
<1>3. TypeOK /\ Accounted => InFlightAgrees
  BY ParallelAssumption DEF TypeOK, TypeLoop, Accounted, InFlightAgrees
<1> QED
  BY <1>1, <1>2, <1>3, TypeCorrect, PTL DEF Spec

----------------------------------------------------------------------------
(* Where the dispatcher may be while something stops it, and what it has   *)
(* left to do when it waits with no worker.                                *)
Flow ==
  /\ phase \in {"scan", "tick", "gauge", "dispatch"} => ~Stopping
  /\ phase = "scan" => in_flight = 0
  /\ phase = "select" /\ in_flight = 0 /\ ~Stopping => pending = {}
  /\ phase \in {"report", "done"} /\ pending # {} => Stopping

LEMMA InitFlow == Init => Flow
BY DEF Init, InitLoop, InitStop, Flow, Stopping, Systemic, NoCancellation

LEMMA FillFlow == TypeOK /\ Flow /\ Fill => Flow'
<1> SUFFICES ASSUME TypeOK, Flow, Fill PROVE Flow'
  OBVIOUS
<1>1. phase' = "select"
  BY DEF Fill
<1>2. CASE FillHalted
  BY <1>1, <1>2 DEF FillHalted, Flow
<1>3. CASE FillWorkers
  <2>1. PICK F \in SUBSET pending :
          /\ IsFront(F, pending, IF Cardinality(pending) < Parallel
                                 THEN Cardinality(pending) ELSE Parallel)
          /\ in_flight' = Cardinality(F) /\ pending' = pending \ F
    BY <1>3 DEF FillWorkers
  <2>2. Cardinality(pending) \in Nat /\ (Cardinality(pending) = 0 <=> pending = {})
    BY SubsetCount DEF TypeOK, TypeLoop
  <2>3. in_flight' = 0 => pending' = {}
    BY <2>1, <2>2, ParallelAssumption DEF IsFront
  <2> QED
    BY <1>1, <2>3 DEF Flow
<1> QED
  BY <1>2, <1>3 DEF Fill

LEMMA DispatchFlow == TypeOK /\ Flow /\ Dispatch => Flow'
<1> SUFFICES ASSUME TypeOK, Flow, Dispatch PROVE Flow'
  OBVIOUS
<1>1. phase' = "select" /\ in_flight \in Nat /\ effective_parallelism \in Nat \ {0}
  BY ParallelAssumption DEF Dispatch, TypeOK, TypeLoop, TypeGauge
<1>2. CASE DispatchRefuse
  BY <1>1, <1>2 DEF DispatchRefuse, Flow
<1>3. CASE DispatchOne
  BY <1>1, <1>3 DEF DispatchOne, Flow
<1>4. CASE DispatchNone
  BY <1>1, <1>4 DEF DispatchNone, HasRoom, Flow
<1> QED
  BY <1>2, <1>3, <1>4 DEF Dispatch

(* A signal leaves the dispatcher waiting with a cancellation, or leaving  *)
(* with an error.                                                          *)
LEMMA SignalFlow == apply_sweep_signal /\ TypeOK => Flow'
<1> SUFFICES ASSUME apply_sweep_signal, TypeOK PROVE Flow'
  OBVIOUS
<1>1. CASE phase' = "unwind"
  BY <1>1 DEF Flow
<1>2. CASE phase' # "unwind"
  <2>1. phase' = "select" /\ cancellation'.on
    <3>1. CASE cancellation.on
      BY <1>2, <3>1 DEF apply_sweep_signal, escalate, TypeOK, TypeStop
    <3>2. CASE ~cancellation.on
      BY <1>2, <3>2 DEF apply_sweep_signal, begin_sweep_cancellation, LeaveByError, Snapshot
    <3> QED
      BY <3>1, <3>2
  <2> QED
    BY <2>1 DEF Flow, Stopping
<1> QED
  BY <1>1, <1>2

LEMMA StepFlow == TypeOK /\ Flow /\ [Next]_vars => Flow'
<1> SUFFICES ASSUME TypeOK, Flow, [Next]_vars PROVE Flow'
  OBVIOUS
<1> USE DEF Flow, Stopping, Systemic, loopVars, stopVars
<1>1. CASE ScanSlot
  BY <1>1 DEF ScanSlot
<1>2. ASSUME NEW s \in Slots, Join(s) PROVE Flow'
  BY <1>2 DEF Join, JoinResult, JoinPanic, CheckBreaker, AfterEvent, LeaveByError
<1>3. CASE SelectClosed
  BY <1>3 DEF SelectClosed, AfterEvent
<1>4. CASE DeadlineElapsed
  BY <1>4 DEF DeadlineElapsed, DeadlineArmed
<1>5. CASE TickAimd \/ ReadGauge
  BY <1>5 DEF TickAimd, ReadGauge
<1>6. CASE LeaveLoop
  BY <1>6 DEF LeaveLoop
<1>7. CASE Report
  BY <1>7 DEF Report, LeaveByError
<1>8. CASE Unwind
  BY <1>8 DEF Unwind
<1>9. ASSUME NEW s \in Slots, NEW o \in Outcomes, Work(s, o) PROVE Flow'
  BY <1>9 DEF Work
<1>10. CASE Report429 \/ SendSignal \/ DropSender
  BY <1>10 DEF Report429, SendSignal, DropSender
<1>11. CASE UNCHANGED vars
  BY <1>11 DEF vars
<1> QED
  BY <1>1, <1>2, <1>3, <1>4, <1>5, <1>6, <1>7, <1>8, <1>9, <1>10, <1>11, FillFlow, DispatchFlow,
     SignalFlow DEF Next, Loop, SelectSignal, DispatchSignal, WorkerEnds, Finished

LEMMA FlowCorrect == Spec => []Flow
<1>1. Init => Flow
  BY InitFlow
<1>2. TypeOK /\ Flow /\ [Next]_vars => Flow'
  BY StepFlow
<1> QED
  BY <1>1, <1>2, TypeCorrect, PTL DEF Spec

(* The loop leaves no slot waiting unless it was told to: with any number  *)
(* of workers suppressed, one slot is always left to drain the queue.      *)
THEOREM NothingIsStranded == Spec => []NoStrandedWork
<1>1. Flow => NoStrandedWork
  BY DEF Flow, NoStrandedWork
<1> QED
  BY <1>1, FlowCorrect, PTL

(* After a cancellation, a systemic halt or the cost limit no step starts  *)
(* a worker.                                                               *)
THEOREM NothingStartsAfterStop == Spec => NoStartAfterStop
<1> DEFINE NoStart == Stopping \/ halted =>
             \A s \in Slots : tasks'[s].tag = "running" => tasks[s].tag = "running"
<1>1. TypeOK /\ Flow /\ [Next]_vars => [NoStart]_vars
  <2> SUFFICES ASSUME TypeOK, Flow, [Next]_vars, Stopping \/ halted, NEW s \in Slots,
                      tasks'[s].tag = "running"
               PROVE  tasks[s].tag = "running"
    OBVIOUS
  <2>1. CASE UNCHANGED tasks
    BY <2>1
  <2>2. CASE Fill
    BY <2>2 DEF Fill, FillHalted, FillWorkers, Flow
  <2>3. CASE Dispatch
    BY <2>3 DEF Dispatch, DispatchRefuse, DispatchOne, DispatchNone, Flow
  <2>4. ASSUME NEW j \in Slots, Join(j) PROVE tasks[s].tag = "running"
    BY <2>4 DEF Join, JoinResult, JoinPanic, Blank, TypeOK, TypeRows
  <2>5. CASE Unwind
    BY <2>5 DEF Unwind, Blank
  <2>6. ASSUME NEW j \in Slots, NEW o \in Outcomes, Work(j, o) PROVE tasks[s].tag = "running"
    <3>1. o.tag # "running"
      BY OutcomesAssumption DEF Record, LiveTags
    <3> QED
      BY <2>6, <3>1 DEF Work, TypeOK, TypeRows
  <2>7. \/ UNCHANGED tasks \/ Fill \/ Dispatch \/ Unwind
        \/ \E j \in Slots : Join(j)
        \/ \E j \in Slots, o \in Outcomes : Work(j, o)
    BY DEF Next, Loop, ScanSlot, SelectSignal, DispatchSignal, apply_sweep_signal, SelectClosed,
       DeadlineElapsed, TickAimd, ReadGauge, LeaveLoop, Report, WorkerEnds, Report429, SendSignal,
       DropSender, Finished, vars
  <2> QED
    BY <2>1, <2>2, <2>3, <2>4, <2>5, <2>6, <2>7
<1> QED
  BY <1>1, TypeCorrect, FlowCorrect, PTL DEF Spec, NoStartAfterStop

----------------------------------------------------------------------------
(* The cost limit.                                                         *)
Money ==
  CostLimitSet =>
    /\ ~halted => cumulative_cost < CostLimit
    /\ in_flight > 0 => cumulative_cost + in_flight * MaxCost < CostLimit + Parallel * MaxCost

LEMMA OneLess ==
  ASSUME NEW n \in Nat, NEW c \in Nat PROVE (n - 1) * c = n * c - c /\ n * c \in Nat
OBVIOUS

LEMMA Below ==
  ASSUME NEW p \in Int, NEW q \in Int, NEW r \in Int, p <= q, q < r PROVE p < r
OBVIOUS

LEMMA TimesMonotone ==
  ASSUME NEW n \in Nat, NEW k \in Nat, NEW c \in Nat, n <= k PROVE n * c <= k * c
OBVIOUS

(* While the limit is not reached, any number of workers up to Parallel    *)
(* stays within the bound.                                                 *)
LEMMA RoomForWorkers ==
  ASSUME NEW spent \in Nat, NEW n \in 0 .. Parallel, spent < CostLimit
  PROVE  spent + n * MaxCost < CostLimit + Parallel * MaxCost
<1>1. n * MaxCost <= Parallel * MaxCost /\ n * MaxCost \in Nat /\ Parallel * MaxCost \in Nat
  BY TimesMonotone, ParallelAssumption, CostAssumption
<1> QED
  BY <1>1, CostAssumption

LEMMA JoinMoney ==
  ASSUME NEW s \in Slots, TypeOK, Money, Join(s)
  PROVE  Money'
<1> SUFFICES ASSUME CostLimitSet
             PROVE  /\ ~halted' => cumulative_cost' < CostLimit
                    /\ in_flight' > 0 => cumulative_cost' + in_flight' * MaxCost
                                           < CostLimit + Parallel * MaxCost
  BY DEF Money
<1>1. in_flight \in Nat /\ in_flight > 0 /\ in_flight' = in_flight - 1 /\ MaxCost \in Nat
      /\ cumulative_cost \in Nat /\ CostLimit \in Nat
  BY CostAssumption, ParallelAssumption DEF Join, JoinResult, JoinPanic, TypeOK, TypeLoop
<1>2. PICK c \in 0 .. MaxCost :
        /\ cumulative_cost' = cumulative_cost + c
        /\ halted' = (halted \/ cumulative_cost + c >= CostLimit) \/ (c = 0 /\ halted' = halted)
  <2>1. CASE JoinResult(s)
    <3>1. tasks[s].cost \in 0 .. MaxCost
      BY DEF TypeOK, TypeRows, Record
    <3> QED
      BY <2>1, <3>1 DEF JoinResult, bump_cost
  <2>2. CASE JoinPanic(s)
    BY <1>1, <2>2 DEF JoinPanic
  <2> QED
    BY <2>1, <2>2 DEF Join
<1>3. (in_flight - 1) * MaxCost = in_flight * MaxCost - MaxCost /\ in_flight * MaxCost \in Nat
  BY <1>1, OneLess
<1>4. Parallel * MaxCost \in Nat
  BY <1>1, ParallelAssumption, OneLess
<1>5. cumulative_cost + in_flight * MaxCost < CostLimit + Parallel * MaxCost
  BY <1>1 DEF Money
<1>6. cumulative_cost' + in_flight' * MaxCost <= cumulative_cost + in_flight * MaxCost
  BY <1>1, <1>2, <1>3
<1>7. in_flight' * MaxCost \in Nat
  BY <1>1, OneLess
<1>8. cumulative_cost' + in_flight' * MaxCost < CostLimit + Parallel * MaxCost
  <2>1. /\ cumulative_cost' + in_flight' * MaxCost \in Int
        /\ cumulative_cost + in_flight * MaxCost \in Int
        /\ CostLimit + Parallel * MaxCost \in Int
    BY <1>1, <1>2, <1>3, <1>4, <1>7
  <2> QED
    BY <1>5, <1>6, <2>1, Below
<1>9. ASSUME ~halted' PROVE cumulative_cost' < CostLimit
  <2>1. c \in Nat /\ cumulative_cost' = cumulative_cost + c
    BY <1>1, <1>2
  <2>2. CASE halted' = (halted \/ cumulative_cost + c >= CostLimit)
    <3>1. ~(cumulative_cost + c >= CostLimit)
      BY <1>9, <2>2
    <3> QED
      BY <1>1, <2>1, <3>1
  <2>3. CASE c = 0 /\ halted' = halted
    BY <1>1, <1>9, <2>1, <2>3 DEF Money
  <2> QED
    BY <1>2, <2>2, <2>3
<1> QED
  BY <1>8, <1>9

LEMMA StepMoney == TypeOK /\ TypeOK' /\ Flow /\ Money /\ [Next]_vars => Money'
<1> SUFFICES ASSUME TypeOK, TypeOK', Flow, Money, [Next]_vars PROVE Money'
  OBVIOUS
<1>1. CASE UNCHANGED <<halted, cumulative_cost, in_flight>>
  BY <1>1 DEF Money
<1>2. CASE ScanSlot
  BY <1>2, CostAssumption DEF ScanSlot, ScanRequeue, ScanRetry, ScanSkip, bump_cost, Money, Flow, TypeOK,
     TypeLoop
<1>3. CASE Fill
  <2>1. CASE FillHalted
    BY <1>3, <2>1 DEF Fill, FillHalted, Money
  <2>2. CASE FillWorkers
    BY <1>3, <2>2, RoomForWorkers DEF Fill, FillWorkers, Money, TypeOK, TypeLoop
  <2> QED
    BY <1>3, <2>1, <2>2 DEF Fill
<1>4. CASE Dispatch
  <2>1. CASE DispatchOne
    BY <1>4, <2>1, RoomForWorkers DEF Dispatch, DispatchOne, Money, TypeOK, TypeLoop
  <2>2. CASE DispatchRefuse \/ DispatchNone
    BY <1>4, <2>2 DEF Dispatch, DispatchRefuse, DispatchNone, Money
  <2> QED
    BY <1>4, <2>1, <2>2 DEF Dispatch
<1>5. \/ UNCHANGED <<halted, cumulative_cost, in_flight>> \/ ScanSlot \/ Fill \/ Dispatch
      \/ \E s \in Slots : Join(s)
  BY DEF Next, Loop, SelectSignal, DispatchSignal, apply_sweep_signal, SelectClosed,
     DeadlineElapsed, TickAimd, ReadGauge, LeaveLoop, Report, Unwind, WorkerEnds, Work, Report429,
     SendSignal, DropSender, Finished, vars, loopVars
<1> QED
  BY <1>1, <1>2, <1>3, <1>4, <1>5, JoinMoney

(* However results, signals and 429s interleave, the live spend of a sweep *)
(* stays below the cost limit plus one full set of workers.                *)
THEOREM OvershootIsBounded == Spec => []OvershootBounded
<1>1. Init => Money
  BY CostAssumption DEF Init, InitLoop, Money
<1>2. TypeOK /\ TypeOK' /\ Flow /\ Money /\ [Next]_vars => Money'
  BY StepMoney
<1>3. TypeOK /\ Accounted /\ Money => OvershootBounded
  <2> SUFFICES ASSUME TypeOK, Accounted, Money, CostLimitSet, Live # {}
               PROVE  cumulative_cost + in_flight * MaxCost < CostLimit + Parallel * MaxCost
    BY DEF OvershootBounded
  <2>1. in_flight > 0
    BY LiveCount, SubsetCount DEF Accounted
  <2> QED
    BY <2>1 DEF Money
<1>4. Init => Accounted
  BY InitType, InitAccounted
<1>5. TypeOK /\ Accounted /\ [Next]_vars => Accounted'
  BY StepAccounted
<1> QED
  BY <1>1, <1>2, <1>3, <1>4, <1>5, TypeCorrect, FlowCorrect, PTL DEF Spec

----------------------------------------------------------------------------
(* What the dispatcher says about itself: finished runs stay finished, the *)
(* breaker judges every result before the next start, the exported         *)
(* counters and the terminal results.json agree with the rows.  All rest   *)
(* on the accounting and the flow established above.                       *)

Sound == TypeOK /\ Accounted /\ Flow

LEMMA SoundCorrect == Spec => []Sound
<1>1. Init => Accounted
  BY InitType, InitAccounted
<1>2. TypeOK /\ Accounted /\ [Next]_vars => Accounted'
  BY StepAccounted
<1> QED
  BY <1>1, <1>2, TypeCorrect, FlowCorrect, PTL DEF Spec, Sound

(* A worker may only end while its slot waits nowhere else.                *)
LEMMA RunningAlone ==
  ASSUME Sound, NEW s \in Slots, tasks[s].tag # "idle"
  PROVE  s \notin pending /\ s \notin Done /\ phase # "failed"
BY DEF Sound, Accounted, SlotsConserved, InOnePlace, Live

----------------------------------------------------------------------------
(* Resumed slots.                                                          *)

(* What waits may be run: it is not finished, worth a retry, or has lost   *)
(* its patch.  A submission has no failure category to be retried for.     *)
Requeued ==
  /\ \A s \in pending : Resume => Unfinished(s) \/ Retryable(s) \/ PatchMissing(s)
  /\ \A s \in Slots : archive[s].kind = "submitted" => archive[s].cat = NoCat

LEMMA StepRequeued == Sound /\ Requeued /\ [Next]_vars => Requeued'
<1> SUFFICES ASSUME Sound, Requeued, [Next]_vars PROVE Requeued'
  OBVIOUS
<1> USE DEF Requeued, Unfinished, Retryable, PatchMissing
<1>1. CASE pending' \subseteq pending /\ UNCHANGED archive
  BY <1>1
<1>2. CASE ScanSlot
  <2>1. UNCHANGED archive
    BY <1>2 DEF ScanSlot, diskVars
  <2> QED
    BY <1>2, <2>1 DEF ScanSlot, ScanRequeue, ScanRetry, ScanSkip
<1>3. ASSUME NEW s \in Slots, NEW o \in Outcomes, Work(s, o) PROVE Requeued'
  <2>1. s \notin pending /\ pending' = pending
    BY <1>3, RunningAlone DEF Work, loopVars
  <2>2. \A t \in Slots : t # s => archive'[t] = archive[t]
    BY <1>3 DEF Work, SaveTrajectory, Sound, TypeOK, TypeDisk
  <2>3. archive'[s].kind = "submitted" => archive'[s].cat = NoCat
    <3>1. archive' = archive \/ (o.tag = "submitted" /\ archive'[s].cat = o.cat)
            \/ archive'[s].kind \in {"failed", "cancelled"}
      BY <1>3 DEF Work, SaveTrajectory, Trajectory, Sound, TypeOK, TypeDisk
    <3> QED
      BY <3>1, OutcomesAssumption
  <2>4. \A t \in pending : t # s /\ t \in Slots
    BY <2>1 DEF Sound, TypeOK, TypeLoop
  <2> QED
    BY <2>1, <2>2, <2>3, <2>4
<1>4. \/ pending' \subseteq pending /\ UNCHANGED archive
      \/ ScanSlot
      \/ \E s \in Slots, o \in Outcomes : Work(s, o)
  BY DEF Next, Loop, Fill, FillHalted, FillWorkers, Join, JoinResult, JoinPanic, SelectSignal,
     DispatchSignal, apply_sweep_signal, SelectClosed, DeadlineElapsed, TickAimd, ReadGauge,
     Dispatch, DispatchRefuse, DispatchOne, DispatchNone, pop_front, LeaveLoop, Report, Unwind,
     WorkerEnds, Report429, SendSignal, DropSender, Finished, vars, loopVars, diskVars
<1> QED
  BY <1>1, <1>2, <1>3, <1>4

(* Only waiting slots are started.                                         *)
LEMMA StartsPending ==
  ASSUME Sound, [Next]_vars, NEW s \in Slots, tasks[s].tag = "idle", tasks'[s].tag = "running"
  PROVE  s \in pending
<1> USE DEF Sound, TypeOK, TypeRows
<1>1. CASE UNCHANGED tasks
  BY <1>1
<1>2. CASE Fill
  BY <1>2 DEF Fill, FillHalted, FillWorkers, Spawn, Blank
<1>3. CASE Dispatch
  BY <1>3 DEF Dispatch, DispatchRefuse, DispatchOne, DispatchNone, pop_front, Blank
<1>4. ASSUME NEW j \in Slots, Join(j) PROVE FALSE
  BY <1>4 DEF Join, JoinResult, JoinPanic, Blank
<1>5. CASE Unwind
  BY <1>5 DEF Unwind, Blank
<1>6. ASSUME NEW j \in Slots, NEW o \in Outcomes, Work(j, o) PROVE FALSE
  <2>1. o.tag # "running"
    BY OutcomesAssumption DEF Record, LiveTags
  <2> QED
    BY <1>6, <2>1 DEF Work
<1>7. \/ UNCHANGED tasks \/ Fill \/ Dispatch \/ Unwind
      \/ \E j \in Slots : Join(j)
      \/ \E j \in Slots, o \in Outcomes : Work(j, o)
  BY DEF Next, Loop, ScanSlot, SelectSignal, DispatchSignal, apply_sweep_signal, SelectClosed,
     DeadlineElapsed, TickAimd, ReadGauge, LeaveLoop, Report, WorkerEnds, Report429, SendSignal,
     DropSender, Finished, vars
<1> QED
  BY <1>1, <1>2, <1>3, <1>4, <1>5, <1>6, <1>7

(* A finished run is never started again by a resumed sweep: neither a     *)
(* submission with its patch nor a failure that is not to be retried.      *)
THEOREM FinishedStaysFinished == Spec => FinishedNeverRerun
<1> DEFINE Fresh == \A s \in Slots :
             tasks[s].tag = "idle" /\ tasks'[s].tag = "running" /\ Resume =>
               /\ ~(archive[s].kind = "submitted" /\ archive[s].patch)
               /\ archive[s].kind = "failed" => archive[s].cat \in RetryOn
<1>1. Init => Requeued
  BY OutcomesAssumption DEF Init, InitLoop, InitDisk, Requeued
<1>2. Sound /\ Requeued /\ [Next]_vars => Requeued'
  BY StepRequeued
<1>3. Sound /\ Requeued /\ [Next]_vars => [Fresh]_vars
  <2> SUFFICES ASSUME Sound, Requeued, [Next]_vars, Resume,
                      NEW s \in Slots, tasks[s].tag = "idle", tasks'[s].tag = "running"
               PROVE  /\ ~(archive[s].kind = "submitted" /\ archive[s].patch)
                      /\ archive[s].kind = "failed" => archive[s].cat \in RetryOn
    OBVIOUS
  <2>1. s \in pending
    BY StartsPending
  <2>2. NoCat \notin RetryOn
    BY CatsAssumption DEF NoCat
  <2> QED
    BY <2>1, <2>2 DEF Requeued, Unfinished, Retryable, PatchMissing
<1> QED
  BY <1>1, <1>2, <1>3, SoundCorrect, PTL DEF Spec, FinishedNeverRerun

----------------------------------------------------------------------------
(* The breaker.                                                            *)
Verdict ==
  /\ phase = "scan" => Joined = {}
  /\ (Joined # {} /\ ~Stopping /\ ~halted) => \A c \in Actionable : ~Trips(results, c)
  /\ \A s \in Slots : tasks[s].tag # "join_error"

LEMMA StepVerdict ==
  ASSUME Sound, Verdict, [Next]_vars, \A o \in Outcomes : o.tag # "join_error"
  PROVE  Verdict'
<1> USE DEF Verdict
<1>1. ASSUME NEW s \in Slots, Join(s) PROVE Verdict'
  <2>1. JoinResult(s)
    BY <1>1 DEF Join, JoinPanic
  <2>2. phase' \in {"select", "tick", "unwind"}
    BY <2>1 DEF JoinResult, CheckBreaker, AfterEvent, LeaveByError
  <2>3. ~Stopping' /\ ~halted' => \A c \in Actionable : ~Trips(results, c)'
    <3> SUFFICES ASSUME ~Stopping', ~halted' PROVE \A c \in Actionable : ~Trips(results', c)
      BY DEF Trips, CountOf, Completed
    <3>1. ~Systemic' /\ ~cancellation'.on /\ cancellation' = cancellation
      BY <2>1 DEF Stopping, JoinResult
    <3>2. CheckBreaker
      BY <2>1 DEF JoinResult
    <3>3. ~\E c \in Actionable : systemic_halt_category' = c
      BY <3>1, CatsAssumption DEF Systemic, NoCat
    <3>4. \/ Systemic
          \/ \A c \in Actionable : ~Trips(results', c)
      BY <3>1, <3>2, <3>3 DEF CheckBreaker, Judged
    <3>5. ~Systemic
      BY <3>1, <3>2, <3>3 DEF CheckBreaker, Systemic
    <3> QED
      BY <3>4, <3>5
  <2>4. \A t \in Slots : tasks'[t].tag # "join_error"
    BY <2>1 DEF JoinResult, Blank, Sound, TypeOK, TypeRows
  <2> QED
    BY <2>2, <2>3, <2>4
<1>2. CASE ScanSlot
  <2>1. UNCHANGED <<phase, tasks>> /\ phase = "scan" /\ cursor \in Slots
    BY <1>2 DEF ScanSlot
  <2>2. results' = results \/ \E row : results' = [results EXCEPT ![cursor] = row]
                                         /\ row.tag \notin LiveTags
    BY <1>2 DEF ScanSlot, ScanRequeue, ScanRetry, ScanSkip, SkippedRow, Blank, LiveTags
  <2>3. Joined' = {}
    BY <2>1, <2>2 DEF Joined, Sound, TypeOK, TypeRows
  <2> QED
    BY <2>1, <2>3
<1>3. CASE Fill
  <2>1. phase = "scan" /\ phase' = "select" /\ Joined = {}
    BY <1>3 DEF Fill
  <2>2. halted' \/ Joined' = {}
    BY <1>3, <2>1 DEF Fill, FillHalted, FillWorkers, Joined
  <2>3. \A t \in Slots : tasks'[t].tag # "join_error"
    BY <1>3 DEF Fill, FillHalted, FillWorkers, Spawn, Blank
  <2> QED
    BY <2>1, <2>2, <2>3
<1>4. CASE Dispatch
  <2>1. phase' = "select" /\ halted' = halted
    BY <1>4 DEF Dispatch
  <2>2. halted \/ UNCHANGED <<results, systemic_halt_category, cancellation>>
    BY <1>4 DEF Dispatch, DispatchRefuse, DispatchOne, DispatchNone, stopVars
  <2>3. \A t \in Slots : tasks'[t].tag # "join_error"
    BY <1>4 DEF Dispatch, DispatchRefuse, DispatchOne, DispatchNone, Blank, Sound, TypeOK, TypeRows
  <2>4. CASE halted
    BY <2>1, <2>3, <2>4
  <2>5. CASE UNCHANGED <<results, systemic_halt_category, cancellation>>
    BY <2>1, <2>3, <2>5 DEF Stopping, Systemic, Joined, Trips, CountOf, Completed
  <2> QED
    BY <2>2, <2>4, <2>5
<1>5. ASSUME NEW s \in Slots, NEW o \in Outcomes, Work(s, o) PROVE Verdict'
  <2>1. UNCHANGED <<phase, results, halted, systemic_halt_category, cancellation>>
    BY <1>5 DEF Work, loopVars, stopVars
  <2>2. \A t \in Slots : tasks'[t].tag # "join_error"
    BY <1>5 DEF Work, Sound, TypeOK, TypeRows
  <2> QED
    BY <2>1, <2>2 DEF Stopping, Systemic, Joined, Trips, CountOf, Completed
<1>6. CASE Unwind
  <2>1. UNCHANGED <<results, halted, systemic_halt_category, cancellation>> /\ phase' = "failed"
    BY <1>6 DEF Unwind, stopVars
  <2>2. \A t \in Slots : tasks'[t].tag # "join_error"
    BY <1>6 DEF Unwind, Blank
  <2> QED
    BY <2>1, <2>2 DEF Stopping, Systemic, Joined, Trips, CountOf, Completed
<1>7. CASE /\ UNCHANGED <<results, halted, tasks, systemic_halt_category>>
           /\ cancellation.on => cancellation'.on
           /\ phase' = "scan" => phase = "scan"
  BY <1>7 DEF Stopping, Systemic, Joined, Trips, CountOf, Completed
<1>8. \/ \E s \in Slots : Join(s)
      \/ ScanSlot \/ Fill \/ Dispatch \/ Unwind
      \/ \E s \in Slots, o \in Outcomes : Work(s, o)
      \/ /\ UNCHANGED <<results, halted, tasks, systemic_halt_category>>
         /\ cancellation.on => cancellation'.on
         /\ phase' = "scan" => phase = "scan"
  <2>1. ASSUME apply_sweep_signal
        PROVE  /\ UNCHANGED <<results, halted, tasks, systemic_halt_category>>
               /\ cancellation.on => cancellation'.on
               /\ phase' = "scan" => phase = "scan"
    BY <2>1 DEF apply_sweep_signal, escalate, begin_sweep_cancellation, Snapshot, LeaveByError,
       Sound, TypeOK, TypeStop
  <2> QED
    BY <2>1 DEF Next, Loop, SelectSignal, DispatchSignal, SelectClosed, DeadlineElapsed, TickAimd,
       ReadGauge, LeaveLoop, Report, WorkerEnds, Report429, SendSignal, DropSender, Finished, vars,
       AfterEvent, LeaveByError, loopVars, stopVars
<1> QED
  BY <1>1, <1>2, <1>3, <1>4, <1>5, <1>6, <1>7, <1>8

(* Where no worker panics, no slot is started after a result with which    *)
(* the breaker should have tripped.                                        *)
THEOREM BreakerIsPrompt ==
  ASSUME \A o \in Outcomes : o.tag # "join_error"
  PROVE  Spec => BreakerPrompt
<1> DEFINE Heeded == phase = "dispatch" /\ in_flight' > in_flight /\ Joined # {} =>
                       \A c \in Actionable : ~Trips(results, c)
<1>1. Init => Verdict
  BY DEF Init, InitLoop, InitRows, Verdict, Joined, Blank, LiveTags
<1>2. Sound /\ Verdict /\ [Next]_vars => Verdict'
  BY StepVerdict
<1>3. Sound /\ Verdict /\ [Next]_vars => [Heeded]_vars
  <2> SUFFICES ASSUME Sound, Verdict, [Next]_vars, phase = "dispatch", in_flight' > in_flight,
                      Joined # {}
               PROVE  \A c \in Actionable : ~Trips(results, c)
    OBVIOUS
  <2>1. in_flight \in Nat
    BY DEF Sound, TypeOK, TypeLoop
  <2>2. in_flight' # in_flight
    BY <2>1
  <2>3. DispatchOne
    BY <2>2 DEF Next, Loop, ScanSlot, Fill, Join, JoinResult, JoinPanic, SelectSignal,
       DispatchSignal, apply_sweep_signal, SelectClosed, DeadlineElapsed, TickAimd, ReadGauge,
       Dispatch, DispatchRefuse, DispatchNone, LeaveLoop, Report, Unwind, WorkerEnds, Work,
       Report429, SendSignal, DropSender, Finished, vars, loopVars
  <2>4. ~halted /\ ~Stopping
    BY <2>3 DEF DispatchOne, Sound, Flow
  <2> QED
    BY <2>4 DEF Verdict
<1> QED
  BY <1>1, <1>2, <1>3, SoundCorrect, PTL DEF Spec, BreakerPrompt

----------------------------------------------------------------------------
(* The exported counters.                                                  *)
Resolved == {s \in Done : IsResolved(results[s])}
Counters == [completed : Int, resolved : Int, failed : Int, in_flight : Int]
Exporting == phase \in {"select", "tick", "gauge", "dispatch", "report"}
Metered == metrics_state \in Counters /\ MetricsAgree

(* What an update of the counters leaves in each of them: rows refused, a  *)
(* result, a panic.                                                        *)
LEMMA Refusing ==
  ASSUME NEW m \in Counters, NEW all \in Int, NEW bad \in Int
  PROVE  [m EXCEPT !.completed = all, !.failed = bad]
           = [completed |-> all, resolved |-> m.resolved, failed |-> bad, in_flight |-> m.in_flight]
<1> DEFINE n == [m EXCEPT !.completed = all, !.failed = bad]
<1>1. \A p \in Counters : [p EXCEPT !.completed = all] \in Counters
  BY DEF Counters
<1>2. \A p \in Counters : [p EXCEPT !.failed = bad] \in Counters
  BY DEF Counters
<1>3. n \in Counters
  BY <1>1, <1>2, Zenon
<1>4. n.in_flight = m.in_flight
  BY Zenon DEF Counters
<1>5. n.completed = all
  BY Zenon DEF Counters
<1>6. n.resolved = m.resolved
  BY Zenon DEF Counters
<1>7. n.failed = bad
  BY Zenon DEF Counters
<1> HIDE DEF n
<1>8. n = [completed |-> all, resolved |-> m.resolved, failed |-> bad, in_flight |-> m.in_flight]
  BY <1>3, <1>4, <1>5, <1>6, <1>7 DEF Counters
<1> QED
  BY <1>8 DEF n

LEMMA Panicking ==
  ASSUME NEW m \in Counters, NEW all \in Int, NEW bad \in Int, NEW running \in Int
  PROVE  [m EXCEPT !.in_flight = running, !.completed = all, !.failed = bad]
           = [completed |-> all, resolved |-> m.resolved, failed |-> bad, in_flight |-> running]
<1> DEFINE n == [m EXCEPT !.in_flight = running, !.completed = all, !.failed = bad]
<1>1. \A p \in Counters : [p EXCEPT !.in_flight = running] \in Counters
  BY DEF Counters
<1>2. \A p \in Counters : [p EXCEPT !.completed = all] \in Counters
  BY DEF Counters
<1>3. \A p \in Counters : [p EXCEPT !.failed = bad] \in Counters
  BY DEF Counters
<1>4. n \in Counters
  BY <1>1, <1>2, <1>3, Zenon
<1>5. n.in_flight = running
  BY Zenon DEF Counters
<1>6. n.completed = all
  BY Zenon DEF Counters
<1>7. n.resolved = m.resolved
  BY Zenon DEF Counters
<1>8. n.failed = bad
  BY Zenon DEF Counters
<1> HIDE DEF n
<1>9. n = [completed |-> all, resolved |-> m.resolved, failed |-> bad, in_flight |-> running]
  BY <1>4, <1>5, <1>6, <1>7, <1>8 DEF Counters
<1> QED
  BY <1>9 DEF n

LEMMA DoneCount ==
  /\ IsFiniteSet(Done) /\ Cardinality(Done) \in Nat /\ Done \subseteq Slots
  /\ IsFiniteSet(Resolved) /\ Cardinality(Resolved) \in Nat
  /\ Cardinality(Done \ Resolved) = Cardinality(Done) - Cardinality(Resolved)
<1>1. Done \subseteq Slots /\ Resolved \subseteq Done
  BY DEF Done, Resolved
<1>2. Done \cap Resolved = Resolved
  BY <1>1
<1> QED
  BY <1>1, <1>2, SubsetCount, FS_Difference

LEMMA SeedType ==
  /\ SeedMetrics \in Counters
  /\ SeedMetrics.in_flight = 0 /\ SeedMetrics.completed = Cardinality(Done)
  /\ SeedMetrics.resolved = Cardinality(Resolved)
  /\ SeedMetrics.failed = Cardinality(Done) - Cardinality(Resolved)
BY DoneCount DEF SeedMetrics, Resolved, Counters

(* Refusing what waits adds that many rows, none of them resolved.         *)
LEMMA RefuseCount ==
  ASSUME Sound, phase \notin {"failed"}, results' = RefuseAll
  PROVE  /\ Cardinality(Done') = Cardinality(Done) + Cardinality(pending)
         /\ Cardinality(Resolved') = Cardinality(Resolved)
         /\ Cardinality(pending) \in Nat
<1>1. pending \subseteq Slots /\ results \in [Slots -> Record(RowTags)]
  BY DEF Sound, TypeOK, TypeLoop, TypeRows
<1>2. \A s \in Slots : results'[s] = IF s \in pending THEN Blank("budget_halt") ELSE results[s]
  BY DEF RefuseAll
<1>3. pending \cap Done = {}
  BY <1>1 DEF Sound, Accounted, SlotsConserved, InOnePlace
<1>4. Done' = Done \cup pending
  BY <1>1, <1>2 DEF Done, Blank
<1>5. Resolved' = Resolved
  BY <1>1, <1>2, <1>3, <1>4 DEF Resolved, Done, Blank, IsResolved
<1>6. IsFiniteSet(pending) /\ Cardinality(pending) \in Nat
  BY <1>1, SubsetCount
<1>7. Done \cap pending = {} /\ Cardinality({}) = 0
  BY <1>3, FS_EmptySet
<1>8. Cardinality(Done \cup pending) = Cardinality(Done) + Cardinality(pending)
  <2>1. Cardinality(Done \cup pending) =
          Cardinality(Done) + Cardinality(pending) - Cardinality(Done \cap pending)
    BY <1>6, DoneCount, FS_Union, Zenon
  <2> QED
    BY <1>6, <1>7, <2>1, DoneCount
<1> QED
  BY <1>4, <1>5, <1>6, <1>8

LEMMA JoinMetered ==
  ASSUME NEW s \in Slots, Sound, Metered, Join(s)
  PROVE  Metered'
<1> DEFINE row == results'[s]
<1>1. /\ phase = "select" /\ s \notin Done
      /\ results' = [results EXCEPT ![s] = row] /\ row.tag # "none"
      /\ row.tag \in LiveTags
  <2>1. phase = "select" /\ tasks[s].tag # "idle"
    BY DEF Join, JoinResult, JoinPanic, LiveTags
  <2>2. results' = [results EXCEPT ![s] = row] /\ row.tag \in LiveTags
    BY DEF Join, JoinResult, JoinPanic, PanicRow, Blank, LiveTags, Sound, TypeOK, TypeRows
  <2> QED
    BY <2>1, <2>2, RunningAlone DEF LiveTags
<1>2. in_flight' = in_flight - 1 /\ in_flight \in Int
  BY DEF Join, JoinResult, JoinPanic, Sound, TypeOK, TypeLoop
<1>3. /\ metrics_state \in Counters
      /\ metrics_state.in_flight = in_flight
      /\ metrics_state.completed = Cardinality(Done)
      /\ metrics_state.resolved = Cardinality(Resolved)
      /\ metrics_state.failed = metrics_state.completed - metrics_state.resolved
  BY <1>1 DEF Metered, MetricsAgree, Resolved
<1>4. /\ metrics_state' \in Counters
      /\ metrics_state'.in_flight = metrics_state.in_flight - 1
      /\ metrics_state'.completed = metrics_state.completed + 1
      /\ metrics_state'.resolved = metrics_state.resolved + IF IsResolved(row) THEN 1 ELSE 0
      /\ metrics_state'.failed = metrics_state.failed + IF IsResolved(row) THEN 0 ELSE 1
  <2>1. CASE JoinResult(s)
    <3>1. row = tasks[s]
      BY <2>1 DEF JoinResult, Sound, TypeOK, TypeRows
    <3> DEFINE m == metrics_state
               less == m.in_flight - 1
               all == m.completed + 1
               good == m.resolved + IF IsResolved(tasks[s]) THEN 1 ELSE 0
               bad == m.failed + IF IsResolved(tasks[s]) THEN 0 ELSE 1
    <3>2. metrics_state' = [m EXCEPT !.in_flight = less, !.completed = all,
                                     !.resolved = good, !.failed = bad]
      BY <2>1, Zenon DEF JoinResult
    <3>3. m \in Counters /\ less \in Int /\ all \in Int /\ good \in Int /\ bad \in Int
      BY <1>3 DEF Counters
    <3>4. metrics_state' = [completed |-> all, resolved |-> good, failed |-> bad,
                            in_flight |-> less]
      <4> HIDE DEF m, less, all, good, bad
      <4> DEFINE n == metrics_state'
      <4>1. /\ \A p \in Counters : [p EXCEPT !.in_flight = less] \in Counters
            /\ \A p \in Counters : [p EXCEPT !.completed = all] \in Counters
            /\ \A p \in Counters : [p EXCEPT !.resolved = good] \in Counters
            /\ \A p \in Counters : [p EXCEPT !.failed = bad] \in Counters
        BY <3>3 DEF Counters
      <4>2. n \in Counters
        BY <3>2, <3>3, <4>1, Zenon
      <4>3. n.in_flight = less
        BY <3>2, <3>3, Zenon DEF Counters
      <4>4. n.completed = all
        BY <3>2, <3>3, Zenon DEF Counters
      <4>5. n.resolved = good
        BY <3>2, <3>3, Zenon DEF Counters
      <4>6. n.failed = bad
        BY <3>2, <3>3, Zenon DEF Counters
      <4> HIDE DEF n
      <4>7. n = [completed |-> all, resolved |-> good, failed |-> bad, in_flight |-> less]
        BY <4>2, <4>3, <4>4, <4>5, <4>6 DEF Counters
      <4> QED
        BY <4>7 DEF n
    <3> QED
      BY <3>1, <3>3, <3>4 DEF Counters
  <2>2. CASE JoinPanic(s)
    <3>1. ~IsResolved(row)
      BY <2>2 DEF JoinPanic, PanicRow, Blank, IsResolved, Sound, TypeOK, TypeRows
    <3> DEFINE m == metrics_state
               less == m.in_flight - 1
               all == m.completed + 1
               bad == m.failed + 1
    <3>2. metrics_state' = [m EXCEPT !.in_flight = less, !.completed = all, !.failed = bad]
      BY <2>2, Zenon DEF JoinPanic
    <3>3. m \in Counters /\ less \in Int /\ all \in Int /\ bad \in Int
      BY <1>3 DEF Counters
    <3>4. metrics_state' = [completed |-> all, resolved |-> m.resolved, failed |-> bad,
                            in_flight |-> less]
      <4> HIDE DEF m, less, all, bad
      <4>1. [m EXCEPT !.in_flight = less, !.completed = all, !.failed = bad]
              = [completed |-> all, resolved |-> m.resolved, failed |-> bad, in_flight |-> less]
        BY <3>3, Panicking, Zenon
      <4> QED
        BY <3>2, <4>1, Zenon
    <3>5. m.resolved \in Int
      BY <1>3 DEF Counters
    <3> QED
      BY <3>1, <3>3, <3>4, <3>5 DEF Counters
  <2> QED
    BY <2>1, <2>2 DEF Join
<1>5. Done' = Done \cup {s}
  BY <1>1 DEF Done, Sound, TypeOK, TypeRows
<1>6. Cardinality(Done') = Cardinality(Done) + 1
  BY <1>1, <1>5, DoneCount, FS_AddElement
<1>7. Resolved' = IF IsResolved(row) THEN Resolved \cup {s} ELSE Resolved
  <2>1. \A t \in Slots : t # s => results'[t] = results[t]
    BY <1>1 DEF Sound, TypeOK, TypeRows
  <2>2. s \notin Resolved
    BY <1>1 DEF Resolved
  <2>3. \A t \in Slots : t \in Resolved' <=> t \in Done' /\ IsResolved(results'[t])
    BY DEF Resolved, IsResolved
  <2>4. Resolved' \subseteq Slots /\ Resolved \subseteq Slots
    BY DEF Resolved, Done
  <2>5. \A t \in Slots : t \in Resolved' <=> t \in Resolved \/ (t = s /\ IsResolved(row))
    BY <1>5, <2>1, <2>2, <2>3 DEF Resolved
  <2> QED
    BY <2>4, <2>5
<1>8. Cardinality(Resolved') = Cardinality(Resolved) + IF IsResolved(row) THEN 1 ELSE 0
  <2>1. s \notin Resolved
    BY <1>1 DEF Resolved
  <2>2. Cardinality(Resolved \cup {s}) = Cardinality(Resolved) + 1
    BY <2>1, DoneCount, FS_AddElement
  <2> HIDE DEF row
  <2> QED
    BY <1>7, <2>2, DoneCount
<1>9. Cardinality(Done) \in Int /\ Cardinality(Resolved) \in Int
  BY DoneCount
<1>10. /\ metrics_state'.in_flight = in_flight'
       /\ metrics_state'.completed = Cardinality(Done')
       /\ metrics_state'.resolved = Cardinality(Resolved')
       /\ metrics_state'.failed = metrics_state'.completed - metrics_state'.resolved
  <2> HIDE DEF row
  <2> QED
    BY <1>2, <1>3, <1>4, <1>6, <1>8, <1>9
<1> QED
  BY <1>4, <1>10 DEF Metered, MetricsAgree, Resolved

LEMMA FillMetered ==
  ASSUME Sound, Metered, Fill
  PROVE  Metered'
<1>1. phase = "scan"
  BY DEF Fill
<1>2. CASE FillHalted
  <2>1. in_flight' = 0
    BY <1>1, <1>2 DEF FillHalted, Sound, Flow
  <2>2. /\ metrics_state' \in Counters
        /\ metrics_state'.in_flight = 0
        /\ metrics_state'.completed = Cardinality(Done')
        /\ metrics_state'.resolved = Cardinality(Resolved')
        /\ metrics_state'.failed = Cardinality(Done') - Cardinality(Resolved')
    <3> HIDE DEF SeedMetrics
    <3>1. /\ Cardinality(Done') = Cardinality(Done) + Cardinality(pending)
          /\ Cardinality(Resolved') = Cardinality(Resolved)
          /\ Cardinality(pending) \in Nat
      BY <1>1, <1>2, RefuseCount DEF FillHalted
    <3> DEFINE all == SeedMetrics.completed + Cardinality(pending)
               bad == SeedMetrics.failed + Cardinality(pending)
    <3>2. metrics_state' = [SeedMetrics EXCEPT !.completed = all, !.failed = bad]
      BY <1>2, Zenon DEF FillHalted
    <3>3. all \in Int /\ bad \in Int
      BY <3>1, SeedType, DoneCount
    <3>4. metrics_state' = [completed |-> all, resolved |-> SeedMetrics.resolved,
                            failed |-> bad, in_flight |-> SeedMetrics.in_flight]
      <4> HIDE DEF all, bad
      <4> QED
        BY <3>2, <3>3, SeedType, Refusing, Zenon
    <3> QED
      BY <3>1, <3>3, <3>4, SeedType, DoneCount DEF Counters
  <2> QED
    BY <2>1, <2>2 DEF Metered, MetricsAgree, Resolved
<1>3. CASE FillWorkers
  <2>1. PICK n : n = in_flight' /\ metrics_state' = [SeedMetrics EXCEPT !.in_flight = n]
    BY <1>3 DEF FillWorkers
  <2>2. n \in Nat
    <3>1. \E F \in SUBSET pending : n = Cardinality(F)
      BY <1>3, <2>1 DEF FillWorkers
    <3> QED
      BY <3>1, SubsetCount DEF Sound, TypeOK, TypeLoop
  <2>3. Done' = Done /\ Resolved' = Resolved
    BY <1>3 DEF FillWorkers, Done, Resolved, IsResolved
  <2>4. /\ metrics_state' \in Counters
        /\ metrics_state'.in_flight = n
        /\ metrics_state'.completed = Cardinality(Done)
        /\ metrics_state'.resolved = Cardinality(Resolved)
        /\ metrics_state'.failed = Cardinality(Done) - Cardinality(Resolved)
    <3> HIDE DEF SeedMetrics
    <3> QED
      BY <2>1, <2>2, SeedType DEF Counters
  <2> QED
    BY <2>1, <2>3, <2>4 DEF Metered, MetricsAgree, Resolved
<1> QED
  BY <1>2, <1>3 DEF Fill

LEMMA DispatchMetered ==
  ASSUME Sound, Metered, Dispatch
  PROVE  Metered'
<1>1. /\ phase = "dispatch"
      /\ metrics_state \in Counters
      /\ metrics_state.in_flight = in_flight
      /\ metrics_state.completed = Cardinality(Done)
      /\ metrics_state.resolved = Cardinality(Resolved)
      /\ metrics_state.failed = metrics_state.completed - metrics_state.resolved
  BY DEF Dispatch, Metered, MetricsAgree, Resolved
<1>2. CASE DispatchRefuse
  <2>1. /\ Cardinality(Done') = Cardinality(Done) + Cardinality(pending)
        /\ Cardinality(Resolved') = Cardinality(Resolved)
        /\ Cardinality(pending) \in Nat
    BY <1>1, <1>2, RefuseCount DEF DispatchRefuse
  <2>2. /\ metrics_state' \in Counters
        /\ metrics_state'.in_flight = in_flight'
        /\ metrics_state'.completed = Cardinality(Done')
        /\ metrics_state'.resolved = Cardinality(Resolved')
        /\ metrics_state'.failed = metrics_state'.completed - metrics_state'.resolved
    <3> DEFINE m == metrics_state
               k == Cardinality(pending)
               all == m.completed + k
               bad == m.failed + k
    <3>1. metrics_state' = [m EXCEPT !.completed = all, !.failed = bad] /\ in_flight' = in_flight
      BY <1>2, Zenon DEF DispatchRefuse
    <3>2. all \in Int /\ bad \in Int /\ m \in Counters
      BY <1>1, <2>1, DoneCount
    <3>3. metrics_state' = [completed |-> all, resolved |-> m.resolved, failed |-> bad,
                            in_flight |-> m.in_flight]
      <4> HIDE DEF m, k, all, bad
      <4> QED
        BY <3>1, <3>2, Refusing, Zenon
    <3> QED
      BY <1>1, <2>1, <3>1, <3>2, <3>3, DoneCount DEF Counters
  <2> QED
    BY <2>2 DEF Metered, MetricsAgree, Resolved
<1>3. CASE DispatchOne
  <2>1. Done' = Done /\ Resolved' = Resolved
    BY <1>3 DEF DispatchOne, Done, Resolved, IsResolved
  <2>2. /\ metrics_state' \in Counters
        /\ metrics_state'.in_flight = in_flight'
        /\ metrics_state'.completed = Cardinality(Done)
        /\ metrics_state'.resolved = Cardinality(Resolved)
        /\ metrics_state'.failed = metrics_state'.completed - metrics_state'.resolved
    BY <1>1, <1>3 DEF DispatchOne, Counters
  <2> QED
    BY <2>1, <2>2 DEF Metered, MetricsAgree, Resolved
<1>4. CASE DispatchNone
  <2>1. UNCHANGED <<metrics_state, results, in_flight>>
    BY <1>4 DEF DispatchNone
  <2> QED
    BY <1>1, <2>1 DEF Metered, MetricsAgree, Resolved, Done, IsResolved
<1> QED
  BY <1>2, <1>3, <1>4 DEF Dispatch

LEMMA StepMetered == Sound /\ Metered /\ [Next]_vars => Metered'
<1> SUFFICES ASSUME Sound, Metered, [Next]_vars PROVE Metered'
  OBVIOUS
<1>1. CASE UNCHANGED <<metrics_state, results, in_flight>> /\ (Exporting' => Exporting)
  BY <1>1 DEF Metered, MetricsAgree, Exporting, Done, IsResolved
<1>2. CASE UNCHANGED metrics_state /\ ~Exporting'
  BY <1>2 DEF Metered, MetricsAgree, Exporting
<1>3. CASE Report /\ phase' = "done"
  <2>1. metrics_state' = [metrics_state EXCEPT !.in_flight = 0]
    BY <1>3 DEF Report, LeaveByError
  <2>2. metrics_state' \in Counters
    BY <2>1 DEF Metered, Counters
  <2> QED
    BY <1>3, <2>2 DEF Metered, MetricsAgree
<1>4. \/ UNCHANGED <<metrics_state, results, in_flight>> /\ (Exporting' => Exporting)
      \/ UNCHANGED metrics_state /\ ~Exporting'
      \/ Report /\ phase' = "done"
      \/ Fill \/ Dispatch \/ \E s \in Slots : Join(s)
  <2>1. ASSUME ScanSlot PROVE UNCHANGED metrics_state /\ ~Exporting'
    BY <2>1 DEF ScanSlot, Exporting
  <2>2. ASSUME Report
        PROVE (Report /\ phase' = "done") \/ (UNCHANGED metrics_state /\ ~Exporting')
    BY <2>2 DEF Report, LeaveByError, Exporting
  <2>3. ASSUME SelectSignal \/ DispatchSignal \/ SelectClosed \/ DeadlineElapsed \/ TickAimd
                 \/ ReadGauge \/ LeaveLoop \/ Unwind
        PROVE  UNCHANGED <<metrics_state, results, in_flight>> /\ (Exporting' => Exporting)
    BY <2>3 DEF SelectSignal, DispatchSignal, apply_sweep_signal, SelectClosed, DeadlineElapsed,
       TickAimd, ReadGauge, LeaveLoop, Unwind, Exporting, loopVars
  <2>4. ASSUME \/ \E s \in Slots : WorkerEnds(s)
               \/ Report429 \/ SendSignal \/ DropSender \/ Finished \/ UNCHANGED vars
        PROVE  UNCHANGED <<metrics_state, results, in_flight>> /\ (Exporting' => Exporting)
    BY <2>4 DEF WorkerEnds, Work, Report429, SendSignal, DropSender, Finished, vars, loopVars,
       Exporting
  <2> QED
    BY <2>1, <2>2, <2>3, <2>4 DEF Next, Loop
<1> QED
  BY <1>1, <1>2, <1>3, <1>4, FillMetered, DispatchMetered, JoinMetered

(* Whenever the dispatcher waits, the counters another task exports agree  *)
(* with the rows and with the workers, resumed and refused rows included.  *)
THEOREM MetricsAreExact == Spec => []MetricsAgree
<1>1. Init => Metered
  BY DEF Init, InitLoop, InitGauge, Metered, MetricsAgree, Counters
<1>2. Sound /\ Metered /\ [Next]_vars => Metered'
  BY StepMetered
<1>3. Metered => MetricsAgree
  BY DEF Metered
<1> QED
  BY <1>1, <1>2, <1>3, SoundCorrect, PTL DEF Spec

----------------------------------------------------------------------------
(* The terminal results.json.                                              *)

(* Once the scan is over, every slot waits, runs, or has its row.          *)
Scanned == phase # "scan" => cursor \notin Slots

LEMMA StepScanned == Sound /\ Scanned /\ [Next]_vars => Scanned'
<1> SUFFICES ASSUME Sound, Scanned, [Next]_vars PROVE Scanned'
  OBVIOUS
<1>1. CASE ScanSlot
  BY <1>1 DEF ScanSlot, Scanned
<1>2. CASE Fill
  BY <1>2 DEF Fill, Scanned
<1>3. CASE UNCHANGED cursor /\ phase # "scan"
  BY <1>3 DEF Scanned
<1>4. CASE UNCHANGED <<cursor, phase>>
  BY <1>4 DEF Scanned
<1>5. \/ ScanSlot \/ Fill \/ (UNCHANGED cursor /\ phase # "scan") \/ UNCHANGED <<cursor, phase>>
  BY DEF Next, Loop, Join, JoinResult, JoinPanic, SelectSignal, DispatchSignal,
     apply_sweep_signal, SelectClosed, DeadlineElapsed, TickAimd, ReadGauge, Dispatch, LeaveLoop,
     Report, Unwind, WorkerEnds, Work, Report429, SendSignal, DropSender, Finished, vars, loopVars
<1> QED
  BY <1>1, <1>2, <1>3, <1>4, <1>5

LEMMA AllCounted ==
  ASSUME Sound, Scanned, phase \notin {"scan", "failed"}
  PROVE  /\ Cardinality(Done) + in_flight + Cardinality(pending) = NumSlots
         /\ Cardinality(Done) \in Nat /\ in_flight \in Nat /\ Cardinality(pending) \in Nat
<1>1. pending \subseteq Slots /\ Live \subseteq Slots /\ Done \subseteq Slots
  BY DEF Sound, TypeOK, TypeLoop, Live, Done
<1>2. \A s \in Slots : s < cursor
  BY SlotsAssumption DEF Scanned, Slots, Sound, TypeOK, TypeLoop
<1>3. \A s \in Slots : /\ s \in pending \cup Live \cup Done
                       /\ ~(s \in pending /\ s \in Live)
                       /\ ~(s \in pending \cup Live /\ s \in Done)
  <2> SUFFICES ASSUME NEW s \in Slots
               PROVE  /\ s \in pending \cup Live \cup Done
                      /\ ~(s \in pending /\ s \in Live)
                      /\ ~(s \in pending \cup Live /\ s \in Done)
    OBVIOUS
  <2>1. ~(s >= cursor)
    BY <1>2, SlotsAssumption DEF Slots, Sound, TypeOK, TypeLoop
  <2> QED
    BY <2>1 DEF Sound, Accounted, SlotsConserved, InOnePlace
<1>4. /\ pending \cup Live \cup Done = Slots
      /\ pending \cap Live = {} /\ (pending \cup Live) \cap Done = {}
  BY <1>1, <1>3
<1>5. Cardinality(Slots) = NumSlots /\ Cardinality({}) = 0
  BY FS_Interval, FS_EmptySet, SlotsAssumption DEF Slots
<1>6. /\ IsFiniteSet(pending) /\ Cardinality(pending) \in Nat
      /\ IsFiniteSet(Live) /\ Cardinality(Live) \in Nat
      /\ IsFiniteSet(Done) /\ Cardinality(Done) \in Nat
      /\ IsFiniteSet(pending \cup Live) /\ Cardinality(pending \cup Live) \in Nat
  BY <1>1, SubsetCount
<1>7. Cardinality(pending \cup Live) = Cardinality(pending) + Cardinality(Live)
  <2>1. Cardinality(pending \cup Live) =
          Cardinality(pending) + Cardinality(Live) - Cardinality(pending \cap Live)
    BY <1>6, FS_Union, Zenon
  <2>2. Cardinality(pending \cap Live) = 0
    BY <1>4, <1>5
  <2> QED
    BY <1>6, <2>1, <2>2
<1>8. NumSlots = Cardinality(pending \cup Live) + Cardinality(Done)
  <2>1. Cardinality((pending \cup Live) \cup Done) =
          Cardinality(pending \cup Live) + Cardinality(Done)
            - Cardinality((pending \cup Live) \cap Done)
    BY <1>6, FS_Union, Zenon
  <2>2. Cardinality((pending \cup Live) \cap Done) = 0
    BY <1>4, <1>5
  <2>3. Cardinality((pending \cup Live) \cup Done) = NumSlots
    BY <1>4, <1>5
  <2> QED
    BY <1>6, <2>1, <2>2, <2>3
<1>9. in_flight = Cardinality(Live)
  BY DEF Sound, Accounted
<1> QED
  BY <1>6, <1>7, <1>8, <1>9

(* What the two ways to stop remember of the queue stays true, since a     *)
(* stopped loop moves no slot out of it.                                   *)
Remembered ==
  /\ cancellation.on =>
       /\ cancellation.completed + cancellation.in_flight_at_cancel
            + cancellation.not_started = NumSlots
       /\ cancellation.not_started = Cardinality(pending)
  /\ ~cancellation.on => cancellation.not_started = 0
  /\ Systemic => systemic_halt_not_started = Cardinality(pending)

LEMMA StepRemembered == Sound /\ Scanned /\ Remembered /\ [Next]_vars => Remembered'
<1> SUFFICES ASSUME Sound, Scanned, Remembered, [Next]_vars PROVE Remembered'
  OBVIOUS
<1>1. CASE ~Stopping' /\ UNCHANGED cancellation
  BY <1>1 DEF Remembered, Stopping, Systemic
<1>2. CASE UNCHANGED <<pending, systemic_halt_category, systemic_halt_not_started, cancellation>>
  BY <1>2 DEF Remembered, Systemic
<1>3. ASSUME NEW s \in Slots, Join(s) PROVE Remembered'
  <2>1. UNCHANGED <<pending, cancellation>>
    BY <1>3 DEF Join, JoinResult, JoinPanic, stopVars
  <2>2. \/ UNCHANGED <<systemic_halt_category, systemic_halt_not_started>>
        \/ systemic_halt_not_started' = Cardinality(pending)
    BY <1>3 DEF Join, JoinResult, JoinPanic, CheckBreaker, stopVars
  <2> QED
    BY <2>1, <2>2 DEF Remembered, Systemic
<1>4. ASSUME apply_sweep_signal, phase \in {"select", "dispatch"} PROVE Remembered'
  <2>1. UNCHANGED <<pending, systemic_halt_category, systemic_halt_not_started>>
    BY <1>4 DEF apply_sweep_signal
  <2>2. CASE cancellation.on
    <3>1. /\ cancellation'.on /\ cancellation'.completed = cancellation.completed
          /\ cancellation'.in_flight_at_cancel = cancellation.in_flight_at_cancel
          /\ cancellation'.not_started = cancellation.not_started
      BY <1>4, <2>2 DEF apply_sweep_signal, escalate, Sound, TypeOK, TypeStop
    <3> QED
      BY <2>1, <2>2, <3>1 DEF Remembered, Systemic
  <2>3. CASE ~cancellation.on /\ cancellation' = Snapshot
    <3>1. Cardinality(Done) + in_flight + Cardinality(pending) = NumSlots
      BY <1>4, AllCounted
    <3> QED
      BY <2>1, <2>3, <3>1 DEF Remembered, Systemic, Snapshot
  <2>4. CASE ~cancellation.on /\ UNCHANGED cancellation
    BY <2>1, <2>4 DEF Remembered, Systemic
  <2> QED
    BY <1>4, <2>2, <2>3, <2>4 DEF apply_sweep_signal, begin_sweep_cancellation
<1>5. \/ ~Stopping' /\ UNCHANGED cancellation
      \/ UNCHANGED <<pending, systemic_halt_category, systemic_halt_not_started, cancellation>>
      \/ \E s \in Slots : Join(s)
      \/ apply_sweep_signal /\ phase \in {"select", "dispatch"}
  <2>1. ASSUME ScanSlot \/ Fill \/ Dispatch PROVE ~Stopping' /\ UNCHANGED cancellation
    BY <2>1 DEF ScanSlot, Fill, Dispatch, Sound, Flow, Stopping, Systemic, stopVars
  <2> QED
    BY <2>1 DEF Next, Loop, SelectSignal, DispatchSignal, SelectClosed, DeadlineElapsed, TickAimd,
       ReadGauge, LeaveLoop, Report, Unwind, WorkerEnds, Work, Report429, SendSignal, DropSender,
       Finished, vars, loopVars, stopVars
<1> QED
  BY <1>1, <1>2, <1>3, <1>4, <1>5

(* The terminal file repeats what the loop ended with.                     *)
Filed ==
  /\ phase \in {"report", "done"} => in_flight = 0
  /\ phase # "done" => sweep_file.status \in {"running", "cancelling"}
  /\ phase = "done" => sweep_file = File(FinalStatus, cancellation, FinalNotStarted, results)

LEMMA StepFiled == Sound /\ Filed /\ [Next]_vars => Filed'
<1> SUFFICES ASSUME Sound, Filed, [Next]_vars PROVE Filed'
  OBVIOUS
<1>1. CASE phase # "done" /\ phase' \notin {"report", "done"} /\ UNCHANGED sweep_file
  BY <1>1 DEF Filed
<1>2. CASE UNCHANGED <<phase, in_flight, results, systemic_halt_category,
                       systemic_halt_not_started, cancellation, sweep_file>>
  BY <1>2 DEF Filed, FinalStatus, FinalNotStarted, Systemic
<1>3. CASE LeaveLoop
  BY <1>3 DEF LeaveLoop, Filed, diskVars
<1>4. CASE Report
  <2>1. in_flight = 0 /\ in_flight' = 0
    BY <1>4 DEF Report, Filed
  <2>2. CASE phase' = "done"
    <3>1. sweep_file' = File(FinalStatus, cancellation, FinalNotStarted, results)
      BY <1>4, <2>2 DEF Report, LeaveByError
    <3>2. UNCHANGED <<results, systemic_halt_category, systemic_halt_not_started, cancellation>>
      BY <1>4 DEF Report, stopVars
    <3> QED
      BY <2>1, <2>2, <3>1, <3>2 DEF Filed, FinalStatus, FinalNotStarted, Systemic
  <2>3. CASE phase' # "done"
    BY <1>4, <2>1, <2>3 DEF Report, LeaveByError, Filed
  <2> QED
    BY <2>2, <2>3
<1>5. ASSUME apply_sweep_signal, phase \in {"select", "dispatch"} PROVE Filed'
  <2>1. phase' \in {"select", "unwind"}
    BY <1>5 DEF apply_sweep_signal, begin_sweep_cancellation, escalate, LeaveByError
  <2>2. UNCHANGED sweep_file \/ sweep_file'.status = "cancelling"
    BY <1>5 DEF apply_sweep_signal, begin_sweep_cancellation, escalate, File
  <2> QED
    BY <1>5, <2>1, <2>2 DEF Filed
<1>6. ASSUME NEW s \in Slots, Join(s) PROVE Filed'
  <2>1. phase = "select" /\ phase' \in {"select", "tick", "unwind"} /\ UNCHANGED sweep_file
    BY <1>6 DEF Join, JoinResult, JoinPanic, CheckBreaker, AfterEvent, LeaveByError, diskVars
  <2> QED
    BY <2>1 DEF Filed
<1>7. \/ phase # "done" /\ phase' \notin {"report", "done"} /\ UNCHANGED sweep_file
      \/ UNCHANGED <<phase, in_flight, results, systemic_halt_category,
                     systemic_halt_not_started, cancellation, sweep_file>>
      \/ LeaveLoop \/ Report
      \/ apply_sweep_signal /\ phase \in {"select", "dispatch"}
      \/ \E s \in Slots : Join(s)
  BY DEF Next, Loop, ScanSlot, Fill, SelectSignal, DispatchSignal, SelectClosed, AfterEvent,
     DeadlineElapsed, TickAimd, ReadGauge, Dispatch, Unwind, WorkerEnds, Work, Report429,
     SendSignal, DropSender, Finished, vars, loopVars, stopVars, diskVars
<1> QED
  BY <1>1, <1>2, <1>3, <1>4, <1>5, <1>6, <1>7

(* Whatever stopped the sweep, and in whatever order, the terminal         *)
(* results.json accounts for every slot, and a cancelled one's snapshot,   *)
(* taken in the middle of the loop, adds up to its rows.                   *)
THEOREM LedgerIsFinal == Spec => []FinalLedger
<1>1. Init => Scanned /\ Remembered /\ Filed
  BY DEF Init, InitLoop, InitStop, InitDisk, Scanned, Remembered, Filed, Systemic, NoCancellation,
     File
<1>2. Sound /\ Scanned /\ [Next]_vars => Scanned'
  BY StepScanned
<1>3. Sound /\ Scanned /\ Remembered /\ [Next]_vars => Remembered'
  BY StepRemembered
<1>4. Sound /\ Filed /\ [Next]_vars => Filed'
  BY StepFiled
<1>5. Sound /\ Scanned /\ Remembered /\ Filed => FinalLedger
  <2> SUFFICES ASSUME Sound, Scanned, Remembered, Filed, phase = "done" PROVE FinalLedger
    BY DEF FinalLedger, Filed
  <2>1. sweep_file.rows = results /\ sweep_file.cancel = cancellation
        /\ sweep_file.not_started = FinalNotStarted /\ sweep_file.status = FinalStatus
    BY DEF Filed, File
  <2>2. Rowed = Cardinality(Done)
    BY <2>1 DEF Rowed, Done
  <2>3. Rowed + Cardinality(pending) = NumSlots /\ Rowed \in Nat /\ Cardinality(pending) \in Nat
    BY <2>2, AllCounted DEF Filed
  <2>4. FinalNotStarted = Cardinality(pending)
    <3>1. CASE Stopping
      BY <3>1 DEF Stopping, FinalNotStarted, Remembered
    <3>2. CASE ~Stopping
      <4>1. pending = {}
        BY <3>2 DEF Sound, Flow
      <4> QED
        BY <3>2, <4>1, FS_EmptySet DEF Stopping, FinalNotStarted, Remembered
    <3> QED
      BY <3>1, <3>2
  <2>5. ASSUME sweep_file.status = "cancelled"
        PROVE  cancellation.completed + cancellation.in_flight_at_cancel
                 + sweep_file.not_started = NumSlots
    BY <2>1, <2>4, <2>5 DEF FinalStatus, Remembered
  <2>6. cancellation.completed + cancellation.in_flight_at_cancel \in Int
    BY DEF Sound, TypeOK, TypeStop
  <2> QED
    BY <2>1, <2>3, <2>4, <2>5, <2>6 DEF FinalLedger
<1> QED
  BY <1>1, <1>2, <1>3, <1>4, <1>5, SoundCorrect, PTL DEF Spec
=============================================================================
