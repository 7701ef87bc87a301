-------------------------------- MODULE Sweep --------------------------------
(***************************************************************************)
(* `bench swebench`: the dispatcher of src/run/swebench.rs, function run().*)
(*                                                                         *)
(* A sweep owns a list of run slots (instance x run index).  It scans them *)
(* once against what an earlier sweep left on disk, fills `Parallel`       *)
(* workers, and then loops: wait for a worker, a signal or the cancel      *)
(* deadline; account for it; read the rate-limit gauge; look for a signal  *)
(* once more; and start at most one more slot.  Four things may stop it    *)
(* from starting slots: the cost limit, a cancellation signal, the         *)
(* systemic-failure circuit breaker, and a failed write of an artifact.    *)
(*                                                                         *)
(* Concurrency: the dispatcher is one async task; the workers (Work,       *)
(* Report429) and whoever sends signals (SendSignal, DropSender) take      *)
(* their steps between any two of its await points.  The dispatcher's      *)
(* position between await points is `phase`.                               *)
(*                                                                         *)
(* Abstractions: a slot is a number in scan order (the pending deque is    *)
(* popped at its least element); a result keeps the outcome class, the     *)
(* failure category and the cost; costs are small integers; the governor   *)
(* is the number of suppressed worker slots (module Governor has it in     *)
(* full).  Publication of pull requests, spans, predictions text and       *)
(* webhook traffic change none of this state and are left out.             *)
(***************************************************************************)
EXTENDS Integers, FiniteSets

CONSTANTS
  NumSlots,           \* instances x reruns
  Parallel,           \* --parallel, after max(1)
  Resume,             \* --resume
  RetryOnResume,      \* --retry-on-resume
  RetryOn,            \* --retry-on: categories worth another attempt
  CostLimitSet,       \* is there a --sweep-cost-limit-usd?
  CostLimit,          \* its value
  MaxCost,            \* bound on what one slot can cost
  Cats,               \* failure categories, numbered in enum order
  Actionable,         \* those FailureCategory::is_actionable accepts
  AgentInternal,      \* the category of a worker's panic
  BreakerOn,          \* --abort-on-systemic-failure
  MinSamples,         \* --systemic-failure-min-samples
  SharePct,           \* --systemic-failure-share-pct
  Outcomes,           \* results a worker may return
  Archived,           \* what an earlier sweep may have left for a slot
  GovernorOn,         \* --max-rpm or --max-input-tpm given
  SignalsWired,       \* does run() get a signal receiver?
  CancelDeadlineZero, \* --cancel-deadline-secs 0
  MaxSignals,         \* bound: signals sent during one sweep
  WritesMayFail       \* may an atomic artifact write return an error?

Slots == 1 .. NumSlots
NoCat == 0
LiveTags == {"submitted", "error", "limit", "cancelled", "join_error"}
SkipTags == {"skipped_submitted", "skipped_failed"}
RowTags == {"none", "budget_halt"} \cup LiveTags \cup SkipTags
TaskTags == {"idle", "running"} \cup LiveTags

Record(T) == [tag : T, cat : Cats \cup {NoCat}, cost : 0 .. MaxCost, last : 0 .. MaxCost]
Blank(t) == [tag |-> t, cat |-> NoCat, cost |-> 0, last |-> 0]
ArchiveKinds == {"none", "partial", "cancelled", "submitted", "failed"}
Archive == [kind : ArchiveKinds, cat : Cats \cup {NoCat}, cost : 0 .. MaxCost, patch : BOOLEAN]

SuppressMax_All == Parallel

(* report_429: half of the workers are suppressed, and never all of them.  *)
SuppressMax == IF Parallel \div 2 <= Parallel - 1 THEN Parallel \div 2 ELSE Parallel - 1

ASSUME SlotsAssumption == NumSlots \in Nat \ {0}
ASSUME ParallelAssumption == Parallel \in Nat \ {0}
ASSUME CostAssumption == /\ CostLimitSet \in BOOLEAN
                         /\ CostLimit \in Nat \ {0}
                         /\ MaxCost \in Nat
ASSUME CatsAssumption == /\ Cats \subseteq Nat \ {0}
                         /\ Actionable \subseteq Cats
                         /\ RetryOn \subseteq Cats
                         /\ AgentInternal \in Cats \ Actionable
ASSUME BreakerAssumption == /\ BreakerOn \in BOOLEAN
                            /\ MinSamples \in Nat
                            /\ SharePct \in 0 .. 100
ASSUME OutcomesAssumption == /\ Outcomes \subseteq Record(LiveTags)
                             /\ Archived \subseteq Archive
                             /\ \A o \in Outcomes : o.tag = "submitted" => o.cat = NoCat
                             /\ \A a \in Archived : a.kind = "submitted" => a.cat = NoCat
ASSUME FlagsAssumption == /\ Resume \in BOOLEAN
                          /\ RetryOnResume \in BOOLEAN
                          /\ GovernorOn \in BOOLEAN
                          /\ SignalsWired \in BOOLEAN
                          /\ CancelDeadlineZero \in BOOLEAN
                          /\ WritesMayFail \in BOOLEAN
                          /\ MaxSignals \in Nat

VARIABLES
  phase,                     \* where the dispatcher is between two awaits
  cursor,                    \* the next slot the scan looks at
  pending,                   \* slots waiting to be started
  tasks,                     \* the JoinSet: running workers, results not joined yet
  in_flight,                 \* the dispatcher's own count of workers
  results,                   \* one row per finished slot
  cumulative_cost,           \* spend charged against the limit
  halted,                    \* the cost limit was reached
  systemic_halt_category,    \* what tripped the breaker, NoCat before
  systemic_halt_not_started, \* pending.len() when it tripped
  cancellation,              \* the CancellationSnapshot; `on` says there is one
  force_cancel_sent,         \* the watch channel workers observe
  sent,                      \* signals sent so far
  received,                  \* signals the dispatcher took
  sender_alive,              \* the signal sender still exists
  signal_rx_closed,          \* the dispatcher stopped listening
  suppressed,                \* worker slots the governor holds back
  effective_parallelism,     \* the gauge as it was last read
  metrics_state,             \* what the OTLP exporter task reads
  sweep_file,                \* results.json: status, cancellation fields, rows
  archive,                   \* trajectories and patches on disk
  prior_results              \* cost an earlier results.json records per slot

loopVars == <<phase, pending, in_flight, results, cumulative_cost, halted>>
stopVars == <<systemic_halt_category, systemic_halt_not_started, cancellation,
              force_cancel_sent>>
signalVars == <<sent, received, sender_alive, signal_rx_closed>>
diskVars == <<sweep_file, archive, prior_results>>
vars == <<loopVars, stopVars, signalVars, diskVars, cursor, tasks, suppressed,
          effective_parallelism, metrics_state>>

NoCancellation ==
  [on |-> FALSE, completed |-> 0, in_flight_at_cancel |-> 0, not_started |-> 0, exit_code |-> 0]

File(status, cancel, not_started, rows) ==
  [status |-> status, cancel |-> cancel, not_started |-> not_started, rows |-> rows]

Live == {s \in Slots : tasks[s].tag # "idle"}
Done == {s \in Slots : results[s].tag # "none"}
Systemic == systemic_halt_category # NoCat
Stopping == cancellation.on \/ Systemic

Unfinished(s) == archive[s].kind \in {"none", "partial", "cancelled"}
IsResolved(row) == row.tag \in {"submitted", "skipped_submitted"}

(* Exactly the slots a pop_front of `n` elements takes from the deque.     *)
IsFront(F, Q, n) == /\ F \subseteq Q
                    /\ Cardinality(F) = n
                    /\ \A s \in F, t \in Q \ F : s < t

InitLoop ==
  /\ phase = "scan"
  /\ cursor = 1
  /\ pending = {}
  /\ in_flight = 0
  /\ cumulative_cost = 0
  /\ halted = FALSE
InitRows ==
  /\ tasks = [s \in Slots |-> Blank("idle")]
  /\ results = [s \in Slots |-> Blank("none")]
InitStop ==
  /\ systemic_halt_category = NoCat
  /\ systemic_halt_not_started = 0
  /\ cancellation = NoCancellation
  /\ force_cancel_sent = FALSE
InitSignals ==
  /\ sent = 0
  /\ received = 0
  /\ sender_alive = SignalsWired
  /\ signal_rx_closed = ~SignalsWired
InitGauge ==
  /\ suppressed = 0
  /\ effective_parallelism = Parallel
  /\ metrics_state = [completed |-> 0, resolved |-> 0, failed |-> 0, in_flight |-> 0]
(* The first results.json says "running" and has no rows yet; what earlier *)
(* runs left on disk may be anything in Archived, and the results.json of  *)
(* an earlier sweep may say of a finished run that it cost more than its   *)
(* last attempt.                                                           *)
InitDisk ==
  /\ sweep_file = File("running", NoCancellation, 0, [s \in Slots |-> Blank("none")])
  /\ archive \in [Slots -> Archived]
  /\ prior_results \in [Slots -> 0 .. MaxCost]
  /\ \A s \in Slots : prior_results[s] # 0 =>
       Resume /\ ~Unfinished(s) /\ prior_results[s] > archive[s].cost
Init == InitLoop /\ InitRows /\ InitStop /\ InitSignals /\ InitGauge /\ InitDisk

bump_cost_Each(cost) ==
  /\ cumulative_cost' = cumulative_cost + cost
  /\ halted' = (halted \/ (CostLimitSet /\ cost >= CostLimit))

(* The limit is inclusive, and once halted a sweep stays so.               *)
bump_cost(cost) ==
  /\ cumulative_cost' = cumulative_cost + cost
  /\ halted' = (halted \/ (CostLimitSet /\ cumulative_cost + cost >= CostLimit))

----------------------------------------------------------------------------
(* The resume scan, one slot per step, in slot order.                      *)

(* What resume_snapshot_for_run charges: an earlier results.json carries   *)
(* the cost of every attempt, the trajectory only that of the last one.    *)
PriorCost(s) == IF prior_results[s] > archive[s].cost THEN prior_results[s] ELSE archive[s].cost

Retryable_AnyFailure(s) == archive[s].kind = "failed" /\ RetryOnResume
Retryable(s) == /\ ~Unfinished(s)
                /\ RetryOnResume
                /\ archive[s].cat \in RetryOn
PatchMissing(s) == archive[s].kind = "submitted" /\ ~archive[s].patch

(* No trajectory, a mid-run checkpoint, a cancelled run, or a submitted    *)
(* run whose patch is gone: the slot runs again and nothing is charged.    *)
ScanRequeue(s) ==
  /\ \/ ~Resume
     \/ Unfinished(s)
     \/ ~Retryable(s) /\ PatchMissing(s)
  /\ pending' = pending \cup {s}
  /\ UNCHANGED <<results, cumulative_cost, halted>>

(* A failure worth retrying: its earlier cost counts against this sweep's  *)
(* limit, and when that exhausts the limit the slot is not run again.      *)
ScanRetry(s) ==
  /\ Resume /\ Retryable(s)
  /\ bump_cost(PriorCost(s))
  /\ IF halted'
       THEN /\ results' = [results EXCEPT ![s] = Blank("budget_halt")]
            /\ UNCHANGED pending
       ELSE /\ pending' = pending \cup {s}
            /\ UNCHANGED results

SkippedRow(s) ==
  [tag |-> IF archive[s].kind = "submitted" THEN "skipped_submitted" ELSE "skipped_failed",
   cat |-> archive[s].cat, cost |-> PriorCost(s), last |-> 0]

(* A finished run is archived: one row, its cost charged, no worker.       *)
ScanSkip(s) ==
  /\ Resume /\ ~Unfinished(s) /\ ~Retryable(s) /\ ~PatchMissing(s)
  /\ results' = [results EXCEPT ![s] = SkippedRow(s)]
  /\ bump_cost(PriorCost(s))
  /\ UNCHANGED pending

ScanSlot ==
  /\ phase = "scan" /\ cursor \in Slots
  /\ ScanRequeue(cursor) \/ ScanRetry(cursor) \/ ScanSkip(cursor)
  /\ cursor' = cursor + 1
  /\ UNCHANGED <<phase, in_flight, stopVars, signalVars, diskVars, tasks, suppressed,
                 effective_parallelism, metrics_state>>

----------------------------------------------------------------------------
(* After the scan: seed the metrics from the skipped rows, then either     *)
(* refuse every pending slot (the scan used up the budget) or start the    *)
(* first `Parallel` of them.  The limit is not looked at between them.     *)
RefuseAll == [s \in Slots |-> IF s \in pending THEN Blank("budget_halt") ELSE results[s]]

Spawn(F) == tasks' = [s \in Slots |-> IF s \in F THEN Blank("running") ELSE tasks[s]]

SeedMetrics_Empty == [completed |-> 0, resolved |-> 0, failed |-> 0, in_flight |-> 0]
SeedMetrics ==
  LET resolved == {s \in Done : IsResolved(results[s])}
  IN  [completed |-> Cardinality(Done), resolved |-> Cardinality(resolved),
       failed |-> Cardinality(Done \ resolved), in_flight |-> 0]

FillHalted ==
  /\ halted
  /\ results' = RefuseAll
  /\ metrics_state' = [SeedMetrics EXCEPT !.completed = @ + Cardinality(pending),
                                          !.failed = @ + Cardinality(pending)]
  /\ pending' = {}
  /\ UNCHANGED <<tasks, in_flight>>

FillWorkers ==
  /\ ~halted
  /\ \E F \in SUBSET pending :
       /\ IsFront(F, pending, IF Cardinality(pending) < Parallel
                              THEN Cardinality(pending) ELSE Parallel)
       /\ Spawn(F)
       /\ in_flight' = Cardinality(F)
       /\ metrics_state' = [SeedMetrics EXCEPT !.in_flight = Cardinality(F)]
       /\ pending' = pending \ F
  /\ UNCHANGED results

(* The signal receiver is only taken when at least one worker was started. *)
Fill ==
  /\ phase = "scan" /\ cursor \notin Slots
  /\ FillHalted \/ FillWorkers
  /\ phase' = "select"
  /\ signal_rx_closed' = (~SignalsWired \/ in_flight' = 0)
  /\ UNCHANGED <<cumulative_cost, halted, stopVars, sent, received, sender_alive, diskVars,
                 cursor, suppressed, effective_parallelism>>

----------------------------------------------------------------------------
(* circuit_breaker::check over every row that was not refused for budget:  *)
(* skipped rows count too, in the total and in their category.             *)
Completed(rows) == {s \in Slots : rows[s].tag \notin {"none", "budget_halt"}}
CountOf(rows, c) == Cardinality({s \in Completed(rows) : rows[s].cat = c})
Trips(rows, c) ==
  /\ BreakerOn
  /\ Cardinality(Completed(rows)) >= MinSamples
  /\ CountOf(rows, c) > 0
  /\ 100 * CountOf(rows, c) >= SharePct * Cardinality(Completed(rows))
Dominant(rows, c) ==
  /\ c \in Actionable /\ Trips(rows, c)
  /\ \A d \in Actionable : Trips(rows, d) => c <= d

(* The tail of a loop iteration looks for more work only while nothing     *)
(* stops the sweep; a `?` on a failed write leaves run() altogether.       *)
AfterEvent_Always == phase' = "tick"
AfterEvent == phase' = IF Stopping' THEN "select" ELSE "tick"
LeaveByError == WritesMayFail /\ phase' = "unwind"

(* The rows the breaker is shown: the one just pushed is among them.       *)
Judged_Before == results
Judged == results'

CheckBreaker ==
  \/ /\ \/ Systemic \/ halted' \/ cancellation.on
        \/ \A c \in Actionable : ~Trips(Judged, c)
     /\ UNCHANGED <<systemic_halt_category, systemic_halt_not_started>>
     /\ AfterEvent
  \/ /\ ~Systemic /\ ~halted' /\ ~cancellation.on
     /\ \E c \in Actionable : Dominant(Judged, c) /\ systemic_halt_category' = c
     /\ systemic_halt_not_started' = Cardinality(pending)
     /\ AfterEvent \/ LeaveByError

(* join_next returned a worker's result.                                   *)
JoinResult(s) ==
  /\ phase = "select" /\ in_flight > 0
  /\ tasks[s].tag \in LiveTags \ {"join_error"}
  /\ in_flight' = in_flight - 1
  /\ tasks' = [tasks EXCEPT ![s] = Blank("idle")]
  /\ results' = [results EXCEPT ![s] = tasks[s]]
  /\ bump_cost(tasks[s].cost)
  /\ metrics_state' = [metrics_state EXCEPT !.in_flight = @ - 1,
                                            !.completed = @ + 1,
                                            !.resolved = @ + IF IsResolved(tasks[s]) THEN 1 ELSE 0,
                                            !.failed = @ + IF IsResolved(tasks[s]) THEN 0 ELSE 1]
  /\ UNCHANGED <<pending, cancellation, force_cancel_sent, signalVars, diskVars, cursor,
                 suppressed, effective_parallelism>>
  /\ CheckBreaker

PanicRow == [Blank("join_error") EXCEPT !.cat = AgentInternal]

(* join_next returned a JoinError: the worker panicked.  The row says      *)
(* nothing of the cost, and the breaker is not consulted.  Nor does it say *)
(* whose it is: its instance_id is "<join_error>" and its run_index 1.     *)
(* Here it takes the place of the slot, of which there is no other row; no *)
(* property of this module reads a row by its instance (Cascade does, and  *)
(* models the panic as a missing row).                                     *)
JoinPanic(s) ==
  /\ phase = "select" /\ in_flight > 0
  /\ tasks[s].tag = "join_error"
  /\ in_flight' = in_flight - 1
  /\ tasks' = [tasks EXCEPT ![s] = Blank("idle")]
  /\ results' = [results EXCEPT ![s] = PanicRow]
  /\ metrics_state' = [metrics_state EXCEPT !.in_flight = @ - 1, !.completed = @ + 1,
                                            !.failed = @ + 1]
  /\ UNCHANGED <<pending, cumulative_cost, halted, stopVars, signalVars, diskVars, cursor,
                 suppressed, effective_parallelism>>
  /\ AfterEvent

----------------------------------------------------------------------------
(* Cancellation.  The first signal freezes a snapshot and writes it; the   *)
(* second, unless the workers were told already, escalates.                *)
Snapshot_RunningOnly ==
  [on |-> TRUE, completed |-> Cardinality(Done),
   in_flight_at_cancel |-> Cardinality({s \in Slots : tasks[s].tag = "running"}),
   not_started |-> Cardinality(pending), exit_code |-> 130]

Snapshot ==
  [on |-> TRUE, completed |-> Cardinality(Done), in_flight_at_cancel |-> in_flight,
   not_started |-> Cardinality(pending), exit_code |-> 130]

begin_sweep_cancellation ==
  \/ /\ cancellation' = Snapshot
     /\ force_cancel_sent' = CancelDeadlineZero
     /\ sweep_file' = File("cancelling", cancellation', Cardinality(pending), results)
     /\ phase' = "select"
  \/ /\ LeaveByError
     /\ UNCHANGED <<cancellation, force_cancel_sent, sweep_file>>

escalate ==
  /\ cancellation' = IF force_cancel_sent THEN cancellation
                     ELSE [cancellation EXCEPT !.exit_code = 137]
  /\ force_cancel_sent' = TRUE
  /\ phase' = "select"
  /\ UNCHANGED sweep_file

apply_sweep_signal ==
  /\ ~signal_rx_closed /\ received < sent
  /\ received' = received + 1
  /\ IF cancellation.on THEN escalate ELSE begin_sweep_cancellation
  /\ UNCHANGED <<pending, in_flight, results, cumulative_cost, halted, systemic_halt_category,
                 systemic_halt_not_started, sent, sender_alive, signal_rx_closed, archive,
                 prior_results, cursor, tasks, suppressed, effective_parallelism, metrics_state>>

SelectSignal == phase = "select" /\ in_flight > 0 /\ apply_sweep_signal

(* recv() returned None: every sender is gone and the queue is empty.      *)
SelectClosed ==
  /\ phase = "select" /\ in_flight > 0
  /\ ~signal_rx_closed /\ ~sender_alive /\ received = sent
  /\ signal_rx_closed' = TRUE
  /\ UNCHANGED <<pending, in_flight, results, cumulative_cost, halted, stopVars, sent, received,
                 sender_alive, diskVars, cursor, tasks, suppressed, effective_parallelism,
                 metrics_state>>
  /\ AfterEvent

DeadlineArmed_Never == FALSE
DeadlineArmed == cancellation.on /\ ~force_cancel_sent

DeadlineElapsed ==
  /\ phase = "select" /\ in_flight > 0
  /\ DeadlineArmed
  /\ force_cancel_sent' = TRUE
  /\ UNCHANGED <<loopVars, systemic_halt_category, systemic_halt_not_started, cancellation,
                 signalVars, diskVars, cursor, tasks, suppressed, effective_parallelism,
                 metrics_state>>

----------------------------------------------------------------------------
(* The rest of an iteration: give back a suppressed slot when one is due,  *)
(* read the gauge, then look at the signal queue once more and dispatch.   *)
TickAimd ==
  /\ phase = "tick"
  /\ suppressed' \in IF suppressed > 0 THEN {suppressed, suppressed - 1} ELSE {suppressed}
  /\ phase' = "gauge"
  /\ UNCHANGED <<pending, in_flight, results, cumulative_cost, halted, stopVars, signalVars,
                 diskVars, cursor, tasks, effective_parallelism, metrics_state>>

ReadGauge ==
  /\ phase = "gauge"
  /\ effective_parallelism' = Parallel - suppressed
  /\ phase' = "dispatch"
  /\ UNCHANGED <<pending, in_flight, results, cumulative_cost, halted, stopVars, signalVars,
                 diskVars, cursor, tasks, suppressed, metrics_state>>

DispatchSignal == phase = "dispatch" /\ apply_sweep_signal

NoSignal_Open == signal_rx_closed \/ (received = sent /\ sender_alive)
NoSignal == signal_rx_closed \/ received = sent

DispatchRefuse ==
  /\ halted
  /\ results' = RefuseAll
  /\ metrics_state' = [metrics_state EXCEPT !.completed = @ + Cardinality(pending),
                                            !.failed = @ + Cardinality(pending)]
  /\ pending' = {}
  /\ UNCHANGED <<tasks, in_flight>>

HasRoom_OffByOne == in_flight <= effective_parallelism
HasRoom == in_flight < effective_parallelism

pop_front_Peek(s) == s \in pending /\ (\A t \in pending : s <= t) /\ UNCHANGED pending
pop_front(s) == /\ s \in pending
                /\ \A t \in pending : s <= t
                /\ pending' = pending \ {s}

DispatchOne ==
  /\ ~halted /\ HasRoom
  /\ \E s \in Slots :
       /\ pop_front(s)
       /\ tasks' = [tasks EXCEPT ![s] = Blank("running")]
  /\ in_flight' = in_flight + 1
  /\ metrics_state' = [metrics_state EXCEPT !.in_flight = @ + 1]
  /\ UNCHANGED results

DispatchNone ==
  /\ ~halted /\ (~HasRoom \/ pending = {})
  /\ UNCHANGED <<results, metrics_state, pending, tasks, in_flight>>

(* try_recv finding the queue empty and every sender gone closes it.       *)
Dispatch ==
  /\ phase = "dispatch" /\ NoSignal
  /\ DispatchRefuse \/ DispatchOne \/ DispatchNone
  /\ phase' = "select"
  /\ signal_rx_closed' = (signal_rx_closed \/ ~sender_alive)
  /\ UNCHANGED <<cumulative_cost, halted, stopVars, sent, received, sender_alive, diskVars,
                 cursor, suppressed, effective_parallelism>>

----------------------------------------------------------------------------
(* After the loop: results.json gets its terminal status.  A systemic halt *)
(* outranks a cancellation, whose fields are kept all the same.            *)
(* (join_next finds no worker only when none is in flight: InFlightAgrees.)*)
LeaveLoop ==
  /\ phase = "select" /\ in_flight = 0
  /\ phase' = "report"
  /\ UNCHANGED <<pending, in_flight, results, cumulative_cost, halted, stopVars, signalVars,
                 diskVars, cursor, tasks, suppressed, effective_parallelism, metrics_state>>

FinalStatus == IF Systemic THEN "systemic_halt"
               ELSE IF cancellation.on THEN "cancelled" ELSE "completed"
FinalNotStarted == IF Systemic THEN systemic_halt_not_started ELSE cancellation.not_started

Report ==
  /\ phase = "report"
  /\ \/ /\ sweep_file' = File(FinalStatus, cancellation, FinalNotStarted, results)
        /\ metrics_state' = [metrics_state EXCEPT !.in_flight = 0]
        /\ phase' = "done"
     \/ LeaveByError /\ UNCHANGED <<sweep_file, metrics_state>>
  /\ UNCHANGED <<pending, in_flight, results, cumulative_cost, halted, stopVars, signalVars,
                 archive, prior_results, cursor, tasks, suppressed, effective_parallelism>>

(* run() returned an error: dropping the JoinSet aborts every worker.      *)
Unwind ==
  /\ phase = "unwind"
  /\ tasks' = [s \in Slots |-> Blank("idle")]
  /\ phase' = "failed"
  /\ UNCHANGED <<pending, in_flight, results, cumulative_cost, halted, stopVars, signalVars,
                 diskVars, cursor, suppressed, effective_parallelism, metrics_state>>

Over == phase \in {"done", "failed"}
Finished == Over /\ UNCHANGED vars
----------------------------------------------------------------------------
(* The workers and the sender of signals.                                  *)

(* What mini::run leaves on disk before its worker returns `o`.  A panic   *)
(* leaves what was there; so does an error before the agent existed, and a *)
(* checkpoint whose worker is refused at the rate-limit gate stays one.    *)
Trajectory(kind, o) == [kind |-> kind, cat |-> o.cat, cost |-> o.last, patch |-> kind = "submitted"]
SaveTrajectory(s, o) ==
  \/ o.tag = "submitted" /\ archive' = [archive EXCEPT ![s] = Trajectory("submitted", o)]
  \/ o.tag \in {"error", "limit"} /\ archive' = [archive EXCEPT ![s] = Trajectory("failed", o)]
  \/ o.tag = "cancelled" /\ archive' = [archive EXCEPT ![s] = Trajectory("cancelled", o)]
  \/ o.tag = "join_error" /\ UNCHANGED archive
  \/ o.tag = "cancelled" /\ archive[s].kind = "partial" /\ UNCHANGED archive
  \/ o.tag = "error" /\ o.cost = 0 /\ UNCHANGED archive

(* A worker ends.  One told to stop may still come to its own end.  One    *)
(* that was not ends as cancelled only where it continues a checkpoint:    *)
(* an earlier sweep may have marked that (RunOne, CancelledByUser).        *)
Work(s, o) ==
  /\ tasks[s].tag = "running"
  /\ o.tag = "cancelled" => force_cancel_sent \/ archive[s].kind = "partial"
  /\ tasks' = [tasks EXCEPT ![s] = o]
  /\ SaveTrajectory(s, o)
  /\ UNCHANGED <<loopVars, stopVars, signalVars, sweep_file, prior_results, cursor, suppressed,
                 effective_parallelism, metrics_state>>

(* A worker reports a burst of 429s while nothing is suppressed yet.       *)
Report429 ==
  /\ GovernorOn /\ suppressed = 0
  /\ \E s \in Slots : tasks[s].tag = "running"
  /\ suppressed' = SuppressMax
  /\ UNCHANGED <<loopVars, stopVars, signalVars, diskVars, cursor, tasks, effective_parallelism,
                 metrics_state>>

SendSignal ==
  /\ ~Over /\ sender_alive /\ sent < MaxSignals
  /\ sent' = sent + 1
  /\ UNCHANGED <<loopVars, stopVars, received, sender_alive, signal_rx_closed, diskVars, cursor,
                 tasks, suppressed, effective_parallelism, metrics_state>>

DropSender ==
  /\ ~Over /\ sender_alive
  /\ sender_alive' = FALSE
  /\ UNCHANGED <<loopVars, stopVars, sent, received, signal_rx_closed, diskVars, cursor, tasks,
                 suppressed, effective_parallelism, metrics_state>>

WorkerEnds(s) == \E o \in Outcomes : Work(s, o)
Join(s) == JoinResult(s) \/ JoinPanic(s)

Loop ==
  \/ ScanSlot \/ Fill
  \/ \E s \in Slots : Join(s)
  \/ SelectSignal \/ SelectClosed \/ DeadlineElapsed
  \/ TickAimd \/ ReadGauge \/ DispatchSignal \/ Dispatch
  \/ LeaveLoop \/ Report \/ Unwind

Next ==
  \/ Loop
  \/ \E s \in Slots : WorkerEnds(s)
  \/ Report429 \/ SendSignal \/ DropSender
  \/ Finished

Spec == Init /\ [][Next]_vars

(* The dispatcher keeps taking steps (its timer included), and a worker    *)
(* told to stop does stop: run_one, the agent loop and the environment     *)
(* all select on the cancellation token.                                   *)
StopFairness == WF_vars(Loop) /\ \A s \in Slots : WF_vars(force_cancel_sent /\ WorkerEnds(s))
CancelSpec == Spec /\ StopFairness

(* Every worker ends by itself: steps, cost and wall clock are bounded.    *)
WorkFairness == WF_vars(Loop) /\ \A s \in Slots : WF_vars(WorkerEnds(s))
FairSpec == Spec /\ WorkFairness

----------------------------------------------------------------------------
(* PROPERTIES                                                              *)

(* Every variable holds a value of the type the code gives it; the gauge   *)
(* in particular always leaves at least one worker slot.                   *)
TypeLoop ==
  /\ phase \in {"scan", "select", "tick", "gauge", "dispatch", "report", "unwind", "done", "failed"}
  /\ cursor \in 1 .. NumSlots + 1
  /\ pending \subseteq Slots
  /\ in_flight \in 0 .. Parallel
  /\ cumulative_cost \in Nat
  /\ halted \in BOOLEAN
TypeRows ==
  /\ tasks \in [Slots -> Record(TaskTags)]
  /\ results \in [Slots -> Record(RowTags)]
TypeStop ==
  /\ systemic_halt_category \in Actionable \cup {NoCat}
  /\ systemic_halt_not_started \in Nat
  /\ cancellation \in [on : BOOLEAN, completed : Nat, in_flight_at_cancel : Nat,
                       not_started : Nat, exit_code : {0, 130, 137}]
  /\ force_cancel_sent \in BOOLEAN
TypeSignals ==
  /\ sent \in Nat /\ received \in Nat /\ received <= sent
  /\ sender_alive \in BOOLEAN /\ signal_rx_closed \in BOOLEAN
TypeGauge ==
  /\ suppressed \in 0 .. SuppressMax
  /\ effective_parallelism \in 1 .. Parallel
TypeDisk ==
  /\ archive \in [Slots -> Archive]
  /\ prior_results \in [Slots -> 0 .. MaxCost]
TypeOK == TypeLoop /\ TypeRows /\ TypeStop /\ TypeSignals /\ TypeGauge /\ TypeDisk

(* Every slot is in exactly one place: not scanned yet, waiting, with a    *)
(* worker, or in the results.  None is lost when a worker panics, when a   *)
(* signal overtakes a result, or when the budget refuses the queue.        *)
InOnePlace(s) ==
  \/ s >= cursor /\ s \notin pending \cup Live \cup Done
  \/ s < cursor /\ s \in pending /\ s \notin Live \cup Done
  \/ s < cursor /\ s \in Live /\ s \notin pending \cup Done
  \/ s < cursor /\ s \in Done /\ s \notin pending \cup Live
SlotsConserved == phase # "failed" => \A s \in Slots : InOnePlace(s)

(* The hand-kept counter agrees with the JoinSet, so the loop ends exactly *)
(* when the set is empty, and never more than --parallel workers run.      *)
InFlightAgrees ==
  phase # "failed" => in_flight = Cardinality(Live) /\ in_flight <= Parallel

(* No stranded work: the loop may only end with slots still waiting when a *)
(* cancellation or a systemic halt told it to leave them for --resume.  In *)
(* particular the AIMD gauge never starves the last empty worker slot.     *)
NoStrandedWork ==
  phase \in {"report", "done"} /\ pending # {} => Stopping

(* The cost limit is overshot by no more than what was already running:    *)
(* whatever the interleaving, the live spend of a sweep that was allowed   *)
(* to start stays below the limit plus one full set of workers.            *)
OvershootBounded ==
  CostLimitSet /\ Live # {} =>
    cumulative_cost + in_flight * MaxCost < CostLimit + Parallel * MaxCost

(* Once a cancellation, a systemic halt or the cost limit stops dispatch,  *)
(* no slot is ever started again, whatever events are still queued.        *)
NoStartAfterStop ==
  [][Stopping \/ halted =>
       \A s \in Slots : tasks'[s].tag = "running" => tasks[s].tag = "running"]_vars

(* Whatever its status, a terminal results.json accounts for every slot: a *)
(* row, or one of the not_started slots left for --resume, also when a     *)
(* signal follows a systemic halt.  The cancellation snapshot, taken       *)
(* mid-loop while results may already be waiting to be joined, still adds  *)
(* up then, and every slot in flight at the signal has its row.            *)
Rowed == Cardinality({s \in Slots : sweep_file.rows[s].tag # "none"})
FinalLedger ==
  /\ phase = "done" => Rowed + sweep_file.not_started = NumSlots
  /\ sweep_file.status = "cancelled" =>
       LET at_signal == sweep_file.cancel IN
       /\ at_signal.completed + at_signal.in_flight_at_cancel + sweep_file.not_started = NumSlots
       /\ at_signal.completed + at_signal.in_flight_at_cancel = Rowed

(* A run that an earlier sweep finished is never run, nor paid for, again: *)
(* between its scan and every later start its trajectory stays as it was.  *)
FinishedNeverRerun ==
  [][\A s \in Slots :
       tasks[s].tag = "idle" /\ tasks'[s].tag = "running" /\ Resume =>
         /\ ~(archive[s].kind = "submitted" /\ archive[s].patch)
         /\ archive[s].kind = "failed" => archive[s].cat \in RetryOn]_vars

(* The counters the OTLP exporter samples from another task agree with the *)
(* rows whenever the dispatcher waits.                                     *)
MetricsAgree ==
  phase \in {"select", "tick", "gauge", "dispatch", "report"} =>
    /\ metrics_state.in_flight = in_flight
    /\ metrics_state.completed = Cardinality(Done)
    /\ metrics_state.resolved = Cardinality({s \in Done : IsResolved(results[s])})
    /\ metrics_state.failed = metrics_state.completed - metrics_state.resolved

(* A cancelled sweep ends although no worker would end by itself: the      *)
(* deadline or the second signal reaches every worker.                     *)
CancelEnds == cancellation.on ~> Over

(* A sweep ends, whatever the governor, the breaker and the signals do.    *)
SweepEnds == <>Over

(* Where no worker panics, the loop starts no slot after a result with     *)
(* which the rows met both conditions of the breaker: it judges every      *)
(* result before the next dispatch, and the tail of the iteration heeds    *)
(* its verdict.  (A panic's row is pushed without asking the breaker, and  *)
(* so are the rows of the resume scan, before a first result came.)        *)
Joined == {s \in Slots : results[s].tag \in LiveTags}
BreakerPrompt ==
  [][phase = "dispatch" /\ in_flight' > in_flight /\ Joined # {} =>
       \A c \in Actionable : ~Trips(results, c)]_vars

(* src/run/rate_limit.rs:9 says of the halved concurrency that it is       *)
(* "restored one slot every 30 s": a dispatcher that waits with nothing    *)
(* suppressed and work left has every worker slot in use.                  *)
ConcurrencyRestored ==
  phase = "select" /\ pending # {} /\ ~Stopping /\ suppressed = 0 => in_flight = Parallel

=============================================================================
