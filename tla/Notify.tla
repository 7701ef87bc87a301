-------------------------------- MODULE Notify --------------------------------
(***************************************************************************)
(* The two webhook sinks: SweepWebhookSink (src/stream/sweep_webhook.rs)   *)
(* with the places of the sweep loop that feed it (src/run/swebench.rs),   *)
(* and WebhookSink (src/stream/webhook.rs) with the run that feeds it      *)
(* (src/agent/default.rs, src/run/mini.rs).                                *)
(*                                                                         *)
(* Emitting is a try_send into a bounded channel; a task of its own takes  *)
(* one event after the other and posts it.  The sweep waits for that task  *)
(* at its end, up to 30 seconds; a run does not.  When the process ends,   *)
(* what is still on its way is gone.                                       *)
(*                                                                         *)
(* Abstractions: events are known by their number, type and share; costs   *)
(* are whole units; redaction, headers and the envelope are left out.      *)
(***************************************************************************)
EXTENDS Integers, Sequences, FiniteSets

CONSTANTS
  Capacity,  \* slots of the channel
  Total,     \* instances of the sweep
  Reruns,    \* --reruns: run slots per instance
  Limit,     \* --sweep-cost-limit-usd
  MaxCost,   \* bound: cost of one slot
  MaxSteps   \* bound: events of a run before its end

ASSUME CapacityAssumption == Capacity \in Nat \ {0}
ASSUME SweepAssumption == Total \in Nat \ {0} /\ Reruns \in Nat \ {0} /\ Limit \in Nat \ {0}
ASSUME BoundAssumption == MaxCost \in Nat /\ MaxSteps \in Nat

Slots == Total * Reruns

VARIABLES
  sink,              \* which of the two sinks
  phase,             \* where the emitting side is
  outbox,            \* what the handler at work still has to emit
  rows,              \* results so far
  cumulative_cost,   \* of these results
  thresholds_fired,  \* cost_thresholds_fired, in quarters
  milestones_fired,  \* milestones_fired, in quarters
  systemic_halt_triggered, \* has the breaker tripped?
  queue,             \* the channel
  sending,           \* the event the task is posting
  dropped,           \* the shared counter
  announced,         \* history: events emitted so far
  said,              \* history: how often each share was announced
  delivered,         \* history: events the receiver acknowledged
  heard,             \* history: the last final event among them
  failed_ends,       \* history: final events that were refused or not posted
  judged             \* history: rows and cost when the shares were last looked at

loopVars == <<rows, cumulative_cost, thresholds_fired, milestones_fired,
              systemic_halt_triggered, judged>>
heardVars == <<delivered, heard>>
lossVars == <<dropped, failed_ends>>
sinkVars == <<queue, sending, lossVars, heardVars>>
saidVars == <<announced, said>>
vars == <<sink, phase, outbox, loopVars, sinkVars, saidVars>>

Types == {"started", "step", "instance", "threshold", "milestone", "halt",
          "sweep_completed", "run_ended"}
Event(type, share) == [type |-> type, share |-> share, n |-> 0, count |-> 0]
NoEvent == Event("started", 0)

Init ==
  /\ sink \in {"sweep", "run"}
  /\ phase = "loop"
  /\ outbox = <<Event("started", 0)>>
  /\ rows \in IF sink = "sweep" THEN {0, 1} \cap 0 .. Slots ELSE {0}
  /\ cumulative_cost \in 0 .. rows * MaxCost
  /\ thresholds_fired = {} /\ milestones_fired = {} /\ systemic_halt_triggered = FALSE
  /\ judged = [rows |-> 0, cost |-> 0]
  /\ queue = <<>> /\ sending = NoEvent /\ dropped = 0
  /\ announced = 0 /\ said = [type \in {"threshold", "milestone"} |-> [i \in 1 .. 4 |-> 0]]
  /\ failed_ends = {} /\ delivered = 0 /\ heard = NoEvent

----------------------------------------------------------------------------
(* The sending side: one handler at a time, one event after the other.     *)

(* emit.  A full channel refuses an event and counts it.                   *)
Numbered(e) == [e EXCEPT !.n = announced + 1]

EndEvents == {"sweep_completed", "run_ended"}
FailedEnds(e) == IF e.type \in EndEvents THEN failed_ends \cup {e.n} ELSE failed_ends
Dropped(e) == dropped' = dropped + 1 /\ failed_ends' = FailedEnds(e)

Refused_Uncounted(e) == UNCHANGED dropped /\ failed_ends' = FailedEnds(e)
Refused(e) == Dropped(e)

Emit ==
  /\ phase # "over"
  /\ outbox # <<>>
  /\ LET e == Numbered(Head(outbox)) IN
       /\ announced' = e.n
       /\ said' = IF e.type \in DOMAIN said THEN [said EXCEPT ![e.type][e.share] = @ + 1] ELSE said
       /\ IF Len(queue) < Capacity
          THEN queue' = Append(queue, e) /\ UNCHANGED lossVars
          ELSE Refused(e) /\ UNCHANGED queue
  /\ outbox' = Tail(outbox)
  /\ UNCHANGED <<sink, phase, loopVars, sending, heardVars>>

Crosses(i, cost) == i \notin thresholds_fired /\ 4 * cost >= i * Limit
Reaches(i, count) == i \notin milestones_fired /\ 4 * count >= i * Total
If(due, type, share) == IF due THEN <<Event(type, share)>> ELSE <<>>

Fired_Forgotten(set, new) == set
Fired(set, new) == set \cup new

Thresholds(cost) ==
  If(Crosses(1, cost), "threshold", 1) \o If(Crosses(2, cost), "threshold", 2)
    \o If(Crosses(3, cost), "threshold", 3) \o If(Crosses(4, cost), "threshold", 4)
Milestones(count) ==
  If(Reaches(1, count), "milestone", 1) \o If(Reaches(2, count), "milestone", 2)
    \o If(Reaches(3, count), "milestone", 3)
Announcements(cost, count, trips) ==
  <<Event("instance", 0)>> \o Thresholds(cost) \o Milestones(count) \o If(trips, "halt", 0)

(* A joined worker: instance_completed, then the thresholds of the cost,   *)
(* then the milestones, then a systemic halt if the breaker trips, once.   *)
JoinResult(cost, trips) ==
  /\ sink = "sweep" /\ phase = "loop" /\ outbox = <<>>
  /\ rows < Slots
  /\ trips => ~systemic_halt_triggered
  /\ systemic_halt_triggered' = (systemic_halt_triggered \/ trips)
  /\ rows' = rows + 1
  /\ cumulative_cost' = cumulative_cost + cost
  /\ judged' = [rows |-> rows', cost |-> cumulative_cost']
  /\ thresholds_fired' = Fired(thresholds_fired, {i \in 1 .. 4 : Crosses(i, cumulative_cost')})
  /\ milestones_fired' = Fired(milestones_fired, {i \in 1 .. 3 : Reaches(i, rows')})
  /\ outbox' = Announcements(cumulative_cost', rows', trips)
  /\ UNCHANGED <<sink, phase, sinkVars, saidVars>>

(* A worker that panicked leaves a row and emits nothing.                  *)
JoinPanic ==
  /\ sink = "sweep" /\ phase = "loop" /\ outbox = <<>>
  /\ rows < Slots
  /\ rows' = rows + 1
  /\ UNCHANGED <<sink, phase, outbox, cumulative_cost, thresholds_fired, milestones_fired,
                 systemic_halt_triggered, judged, sinkVars, saidVars>>

(* The loop is left: sweep_completed, then shutdown.  The number of drops  *)
(* in the event is read here, one step before the event is queued: in      *)
(* between the task may fail a post and take the next event.               *)
LastEvent == [Event("sweep_completed", 0) EXCEPT !.count = dropped]
SweepCompletes ==
  /\ sink = "sweep" /\ phase = "loop" /\ outbox = <<>>
  /\ phase' = "flush"
  /\ outbox' = <<LastEvent>>
  /\ UNCHANGED <<sink, loopVars, sinkVars, saidVars>>

(* An error leaves run() by `?`: no event and no shutdown.                 *)
SweepFails ==
  /\ sink = "sweep" /\ phase = "loop" /\ outbox = <<>>
  /\ phase' = "returned"
  /\ UNCHANGED <<sink, outbox, loopVars, sinkVars, saidVars>>

Steps == announced - 1

RunStep ==
  /\ sink = "run" /\ phase = "loop" /\ outbox = <<>>
  /\ Steps < MaxSteps
  /\ outbox' = <<Event("step", 0)>>
  /\ UNCHANGED <<sink, phase, loopVars, sinkVars, saidVars>>

(* The end of a run is announced by the agent, once; a second time when a  *)
(* cancellation is noticed behind a submission; not at all when the run    *)
(* ends in an error of the model or the environment.                       *)
RunEnds ==
  /\ sink = "run" /\ phase \in {"loop", "submitted"} /\ outbox = <<>>
  /\ outbox' = <<Event("run_ended", 0)>>
  /\ phase' = IF phase = "loop" THEN "submitted" ELSE "returned"
  /\ UNCHANGED <<sink, loopVars, sinkVars, saidVars>>
RunReturns ==
  /\ sink = "run" /\ phase \in {"loop", "submitted"} /\ outbox = <<>>
  /\ phase' = "returned"
  /\ UNCHANGED <<sink, outbox, loopVars, sinkVars, saidVars>>

----------------------------------------------------------------------------
(* The task.  The number of drops in run_ended is read here, when all the  *)
(* events before it have been posted.                                      *)
Stamped_AtEmission(e) == e
Stamped(e) == IF e.type = "run_ended" THEN [e EXCEPT !.count = dropped] ELSE e

Receive ==
  /\ phase # "over"
  /\ queue # <<>> /\ sending = NoEvent
  /\ sending' = Stamped(Head(queue))
  /\ queue' = Tail(queue)
  /\ UNCHANGED <<sink, phase, outbox, loopVars, lossVars, heardVars, saidVars>>

PostSucceeds ==
  /\ phase # "over"
  /\ sending # NoEvent
  /\ delivered' = delivered + 1
  /\ heard' = IF sending.type \in EndEvents THEN sending ELSE heard
  /\ sending' = NoEvent
  /\ UNCHANGED <<sink, phase, outbox, loopVars, queue, lossVars, saidVars>>

(* No success, no connection, or five seconds without an answer.           *)
PostFails ==
  /\ phase # "over"
  /\ sending # NoEvent
  /\ Dropped(sending)
  /\ sending' = NoEvent
  /\ UNCHANGED <<sink, phase, outbox, loopVars, queue, heardVars, saidVars>>

----------------------------------------------------------------------------
(* shutdown: the sender is dropped and the task drains the channel; after  *)
(* 30 seconds it is left to itself.                                        *)
Drained == outbox = <<>> /\ queue = <<>> /\ sending = NoEvent
Flushed_AtOnce == outbox = <<>>
Flushed == Drained

Flush ==
  /\ phase = "flush"
  /\ Flushed
  /\ phase' = "flushed"
  /\ UNCHANGED <<sink, outbox, loopVars, sinkVars, saidVars>>
FlushElapses ==
  /\ phase = "flush" /\ outbox = <<>>
  /\ phase' = "returned"
  /\ UNCHANGED <<sink, outbox, loopVars, sinkVars, saidVars>>

(* The process ends, and the runtime takes the task with it.               *)
ProcessExits ==
  /\ phase \in {"flushed", "returned"} /\ outbox = <<>>
  /\ phase' = "over"
  /\ UNCHANGED <<sink, outbox, loopVars, sinkVars, saidVars>>

Over == phase = "over" /\ UNCHANGED vars

Next ==
  \/ Emit \/ (\E cost \in 0 .. MaxCost, trips \in BOOLEAN : JoinResult(cost, trips))
  \/ JoinPanic \/ SweepCompletes \/ SweepFails
  \/ RunStep \/ RunEnds \/ RunReturns
  \/ Receive \/ PostSucceeds \/ PostFails
  \/ Flush \/ FlushElapses \/ ProcessExits \/ Over

Spec == Init /\ [][Next]_vars

----------------------------------------------------------------------------
(* Every variable has its shape.                                           *)
EventSet == [type : Types, share : 0 .. 4, n : Nat, count : Nat]
TypeOK ==
  /\ sink \in {"sweep", "run"}
  /\ phase \in {"loop", "submitted", "flush", "flushed", "returned", "over"}
  /\ outbox \in Seq(EventSet) /\ queue \in Seq(EventSet) /\ Len(queue) <= Capacity
  /\ sending \in EventSet /\ heard \in EventSet
  /\ announced \in Nat /\ delivered \in Nat /\ failed_ends \subseteq Nat
  /\ said \in [{"threshold", "milestone"} -> [1 .. 4 -> Nat]]
  /\ rows \in Nat /\ cumulative_cost \in Nat /\ judged \in [rows : Nat, cost : Nat]
  /\ thresholds_fired \subseteq 1 .. 4 /\ milestones_fired \subseteq 1 .. 3
  /\ systemic_halt_triggered \in BOOLEAN
  /\ dropped \in Nat

(* The sink keeps the promise of Delivery: every event ends up delivered   *)
(* or counted, exactly once, as long as the process lives.                 *)
OnTheWay == Len(queue) + (IF sending = NoEvent THEN 0 ELSE 1)
Promise == INSTANCE Delivery WITH Room <- Capacity + 1, emitted <- announced, waiting <- OnTheWay,
                                  counted <- dropped
DeliverySpec == Promise!Spec

(* A sweep whose sink was shut down in time has told the receiver of every *)
(* event, or counted it; sweep_completed is the last one it hears.         *)
FlushedMeansSettled ==
  phase = "flushed" =>
    /\ delivered + dropped = announced
    /\ failed_ends = {} => heard.type = "sweep_completed"

(* What the last event says of the losses before it: run_ended has them    *)
(* all, although they are counted by two parties and it is queued behind   *)
(* events that may fail yet; sweep_completed misses at most what was on    *)
(* its way when the sweep read the counter: a full channel, and the event  *)
(* that was being posted.  (It does miss them, although the comment at     *)
(* sweep_webhook.rs:181 says that it tells of all failures.)               *)
LostBefore(n) == dropped - Cardinality({k \in failed_ends : k >= n})
EndCounts ==
  /\ heard.type = "run_ended" =>
       /\ heard.count >= LostBefore(heard.n)
       /\ heard.n = announced => heard.count = LostBefore(heard.n)
  /\ heard.type = "sweep_completed" =>
       /\ heard.count <= LostBefore(heard.n)
       /\ LostBefore(heard.n) <= heard.count + Capacity + 1

(* Whenever a result has been handled, exactly the shares of the limit     *)
(* that the cost has reached have been announced, each once in the whole   *)
(* sweep.  A milestone is a share of the instances, but the code holds     *)
(* rows, one per run slot, against their number: no milestone comes twice  *)
(* or late, and without reruns none comes early either.  (Of judged.rows   *)
(* rows at most judged.rows \div Reruns instances have all of theirs.)     *)
(* With reruns they do come early, although sweep_webhook.rs:41 says       *)
(* "Emitted when 25 %, 50 %, or 75 % of instances have completed".         *)
InstanceShare(i) == 4 * (judged.rows \div Reruns) >= i * Total
AnnouncedOnce ==
  outbox = <<>> =>
    /\ \A i \in 1 .. 4 : said["threshold"][i] = IF 4 * judged.cost >= i * Limit THEN 1 ELSE 0
    /\ \A i \in 1 .. 3 : /\ said["milestone"][i] <= 1
                         /\ InstanceShare(i) => said["milestone"][i] = 1
                         /\ Reruns = 1 /\ said["milestone"][i] = 1 => InstanceShare(i)

=============================================================================
