# Specifications of the maxwells-daemon sweep runner

maxwells-daemon is a small coding agent with a benchmark harness around it. The
harness (`bench swebench`) runs an agent on many instances at once, under cost,
rate and time limits, survives cancellation, panics and kills, and continues
where an earlier sweep stopped. This directory holds TLA+ models of that part,
from the dispatcher down to the child processes, what TLC checks of them and
what TLAPS proves about them. All paths below are relative to the repository's
root.

## 1. Inventory

| part | state it keeps | operations | talks to |
|---|---|---|---|
| sweep dispatcher (`src/run/swebench.rs`, `run`) | pending deque, JoinSet, `in_flight`, rows, cumulative cost, breaker verdict, cancellation snapshot, gauge, `results.json` | resume scan, fill, select loop (worker, signal, deadline, tick), dispatch, final report | workers (JoinSet, watch channel), governor, signals, exporter task, sweep webhook, disk |
| run slot (`run_one` in the same file) | attempts, retry reasons, accumulated cost, checkpoint to continue | gate, attempt, report, backoff, leave cancelled | governor, `mini::run`, trajectory and patch on disk |
| one run (`src/run/mini.rs`) | the agent, its trajectory | set up, run, capture and validate the patch, finalise, save | agent loop, environment, run webhook, disk |
| agent loop (`src/agent/default.rs`) | history, steps, cost, parse errors, auto-approve rules | limits, model call, parse, policy, hooks, confirmation, tool call, checkpoint, submit | model, environment, tools, streams, operator |
| stagnation detector (`src/stagnation.rs`) | window of recent commands | observe | agent loop |
| model fallback (`src/model/fallback.rs`) | attempt records | query | providers |
| trajectories (`src/trajectory/mod.rs`) | files | atomic checkpoint, final save, load | everything that resumes or reports |
| rate-limit governor (`src/run/rate_limit.rs`) | bucket, Retry-After floor, 429 window, suppressed slots | acquire (cancellable), report 429, tick | workers, dispatcher |
| circuit breaker (`CircuitBreaker`) | none | check | dispatcher |
| environments (`src/env`) | child process, process group, pipes, container | run, time out, cancel, be dropped, shut down | agent loop, hooks, patch capture |
| notifications (`src/stream`) | bounded queue, task, drop counter, fired shares | emit, post, shut down | dispatcher, agent loop |
| evaluation (`src/run/evaluate.rs`) | prior verdicts, containers | reuse, run tests with a timeout, merge | `results.json`, patches |
| cascade (`src/run/cascade.rs`) | `cascade.json`: attempts, resolving tier, costs; totals per tier | budget guard, a sweep per tier, record, evaluate, resume | dispatcher, evaluator, tier directories |
| other outer loops (matrix, ladder, suite, best-of, stability, retry) | arms, caps, tallies | start sweeps or runs | dispatcher, `mini::run` |
| the rest (reports, audits, CLI, config, policy, redaction, drivers, GitHub, replay) | files | mostly pure functions of artifacts | disk |

What is hard about it: the dispatcher's `select` interleaves with workers,
signals, a deadline and a timer; workers sleep at the governor's gate and in
backoffs and must hear a cancellation there; the same slot is run again by later
sweeps from whatever files a kill left; money is charged from those files, and
once more by the outer loop that starts the sweep; several counters are kept by
hand next to what they count; a command passes four gates, one of which may
replace it by another; a killed command leaves processes and full pipes behind;
events are dropped by two parties that share one counter.

What makes each part correct, in short. The dispatcher loses no slot, strands
none, starts nothing after a stop, accounts for every slot in its final report
and ends. The governor keeps its rate over every interval, never lets anybody
through before the floor, and gives slots back as promised. A run slot reports a
submission only with its own validated patch, charges what was paid, and never
pays for a finished slot again. The agent loop runs only what every gate has
passed in the form that runs, keeps its limits, and calls stagnant what is. A
command's output is complete, nothing it was killed for goes on, and its caller
comes back. An event is delivered or counted, once. The cascade's totals are
those of its records, its ceiling holds over all tiers, and no tier is skipped
unless a worker panicked there.
`PROJECT.json` lists all components, the ones that are not modelled too, and the
hazards with their lines.

## 2. Modules and the code

```
 Cascade          tiers of sweeps over one budget
   |                 (keeps of a sweep its rows, spend and status)
 Sweep            the dispatcher and its workers' outcomes
   |      \
   |       Governor ---implements---> AimdSlots
   |       Notify   ---implements---> Delivery
 RunOne           one worker: gate, attempts, files, the next --resume
   |
 Agent            one attempt: the loop, its gates and limits
   |
 Command          one command of it: process group, pipes, kill
```

The levels meet in what one shows to the other and not in a product, which TLC
could not explore: Sweep has of a worker its outcome (RunOne shows where the
outcomes come from, and that a cancelled worker comes back); RunOne has of an
attempt turns, ends and checkpoints (Agent shows which ends there are and that a
cancellation is heard); Agent takes from Command that a command comes back.

**Sweep** is `run()` of `src/run/swebench.rs`. `phase` is the dispatcher's
position between two await points: `scan` (one `ScanSlot` per run slot, as in the
loop at line 2196), `select` (`JoinResult`, `JoinPanic`, `SelectSignal`,
`SelectClosed`, `DeadlineElapsed`), `tick`, `gauge` (the governor is read, after
its lock was awaited), `dispatch` (pending signals are drained, then at most one
slot is started), `report`. `tasks` is the JoinSet: a slot in it runs (`running`)
or has a result that nobody joined yet. Workers (`Work`, `Report429`) and signals
(`SendSignal`, `DropSender`) act between any two phases. `archive` is what is on
disk per slot, and `prior_results` what the `results.json` of an earlier sweep
says a finished slot had cost, which `PriorCost` prefers. The row of a panicked
worker stands in the slot that panicked; in the code it has the id
`<join_error>` and run index 1, which nothing in the loop looks at and the
cascade does (module Cascade). The breaker is `CountOf`, `Trips`, `Dominant`, `CheckBreaker`.
A slot is a number and pending slots are started in order, which is what the
deque does.

**Governor** is `src/run/rate_limit.rs`. The mutex makes `Check`, `ReportBare`,
`ReportRetryAfter` and `TickAimd` single steps; between a check and the sleep it
asked for (`delayed`, `sleeping`), and between the wake-up and the next check,
everything else may happen. Time is counted in ticks, and tokens in fractions of
a request, so the bucket's arithmetic is exact where the code uses `f64`.
**AimdSlots** is the abstract promise about worker slots; Governor implements it
under the mapping `suppressed <- suppressed_slots`, `since <- Since`. Sweep uses
of it only that `suppressed` rises to at most half and falls one by one.

**RunOne** follows one slot through several sweeps. `at` is the await point
of the worker: the gate, the set-up, the agent's turn and its checkpoint, the
capture and validation of the patch, the two halves of the final save, the
report, the backoff. `Exit` is a kill, or the end of the process, at any of them;
it forgets everything but `traj` and `patch`. `Scan` is the next `--resume`.
The gate's answers are `Granted` and `GateCancelled` (module Governor has why).
Every turn costs 1, so the cost of a run is its number of turns.

**Agent** is `DefaultAgent::step` with everything it awaits: `query` (the model,
through the fallback chain), `hooks`, `confirm` (the operator), `edited` (the
hooks once more), `run`, `post`. Between two of them a step runs without
interruption, so one action is one such stretch: `Top` the limits, `Answer` the
payment, the second look at the token, the parse and the policy, `Hooks`,
`Decide` the operator and the auto-approve rules, `Run`, `Post` the stagnation
detector and the checkpoint. `Wallclock` drops the loop at any await, `Crash`
kills the process, and the run goes on from `saved`. `cleared` records the form
in which each gate let the command pass.

**Command** is one child process in `LocalEnvironment` (own process group,
guard, SIGTERM, grace, SIGKILL, reap, drain), in `DockerEnvironment` (the child
is the `docker exec` client, a cancellation removes the container), and under the
evaluator's `run_with_timeout` (which reads only after the exit). `program` says
how the command behaves: how much it writes, whether it hangs, ignores SIGTERM or
reads its input, whether the timeout is long enough and whether the machine is
slower than the waits that follow a kill. `others` are the processes it left in
its group, outside of it, or inside the container. The operating system's part,
pipes and signals, is modelled as the code relies on it.

**Notify** is the sweep's webhook with the places of the loop that feed it, and
the webhook of a single run; `outbox` is what the handler at work has still to
emit, `queue` the channel, `sending` the event the task is posting. The drop
count of `sweep_completed` is read when the event is put into `outbox`
(`LastEvent`), one step before it is queued, so the task may lose an event and
free a slot in between. `Slots` are `Total * Reruns` run slots; milestones compare
the rows, one per slot, with `Total`, as the code does. `said`, `judged`, `heard`
and `failed_ends` are history: the properties read them, no guard does.
**Delivery** is the abstract promise: an event is taken in or counted at once,
and what was taken in is later delivered or counted. Notify implements it under
`waiting <- OnTheWay`, `counted <- dropped`, `emitted <- announced`.

**Cascade** is `run()` of `src/run/cascade.rs`: the head of a tier with its
budget guard, the tier's sweep (of which it keeps rows, spend, halt and
cancellation, and what the tier's directory holds), Phase A that records the
spend, the evaluator's answer or failure, and `--resume`, which recomputes the
totals from the records. A worker that panics (`RunPanics`) leaves its instance
without a row, and perhaps a trajectory; `missed` remembers it for the
properties (and for the bound), and so does `raised` a limit that was raised.

An operator with an underscore suffix (`Refilled_Uncapped`, `Judged_Before`) is
not part of a specification. It is a plausible slip in the definition it stands
before; putting it in its place makes the property violated that `PROJECT.json`
pairs it with, which is how we know that the property says something.

The MC modules hold the constants of the runs. SweepProofs, GovernorProofs,
RunOneProofs, AgentProofs, CommandProofs, NotifyProofs and CascadeProofs hold the
proofs; Sums, the lemmas about sums over finite sets that CascadeProofs needs.

## 3. What TLC checks

| run | shows | bounds, and why they are enough |
|---|---|---|
| sweep_cancel | no slot is lost, stranded, or started after a stop; the final ledger; a cancelled sweep ends | 3 slots on 2 workers leave one waiting while two race; 2 signals reach both levels of escalation; panics, 429 bursts, breaker (2 samples, 80 %) and failing writes on |
| sweep_resume | finished runs stay finished; counters agree with the rows; the cost limit is overshot by one set of workers at most; the breaker judges before the next start; the sweep ends | all mixes of seven leftovers over 3 slots, an earlier `results.json` that may charge more for a finished one, `--retry-on-resume`, cost limit 2 with runs that cost up to 2, breaker at 1 sample and 50 %, 1 signal |
| governor_gate | rate over every interval, no start-up burst, floor, reductions have their storm, the slots implement AimdSlots, cancellation frees sleepers | 2 workers share a `Parallel` of 4 (so 2 slots can be suppressed), 3 permits, 3 reports, ticks of 30 s, horizon 5: two refills, two competing floors, a storm whose first slot comes back |
| runone_slot | submissions are real, costs add up, cancelled runs are picked up, turns are paid at most once more per interruption, never after a submission, cancellation is heard | 3 sweeps (a mark made in the second is used in the third), 1 retry, 2 turns, 1 failed write anywhere, 1 refused turn, a kill or a cancellation at every await point |
| agent_loop | limits are kept and named right, only vetted commands run, stagnation is exact, cancellation is heard | 3 steps, window and threshold 2, 2 models, 1 parse retry, 1 kill; five commands: two spellings of one, a denied one of the same scope, another scope, a tool without a shell; all combinations of limits, read-only and interactive |
| command_run | output is complete, nothing is left behind, enough time suffices, the caller comes back | a pipe of 2 chunks and up to 3 chunks of output, so a writer can block; every program, three kinds of caller, every set of companions |
| notify_sinks | events are delivered or counted once (DeliverySpec), what a flushed sink guarantees, what the last event says of the losses, shares of the limit and of the instances are announced once and in time | queue of 2, which one result with its thresholds and milestones overflows; 4 instances, so that each share falls on a row of its own, without reruns (2 instances with 2 runs each were checked as well; milestones are then early, section 6), limit 2; runs of up to 3 steps, ended once, twice or never |
| cascade_run | totals agree with the records, one ceiling for all tiers and invocations, what runs at a tier had a worker at every lower one | 2 instances, 2 tiers, limits 1 and 2, and up to 2 of what is rare, in any mix: a `--resume` (two, for a placeholder made by one invocation, retried by the second and read by the third) or a panicking worker (two, or one before or after a resume); one resume with two panics, and two with one, were checked offline |

Four more runs each exhibit one disagreement between the code and its own
documentation (section 6). Bounds are the constants marked "bound" in the
modules: `MaxSignals` (Sweep), `MaxReports`, `MaxPermits`, `Horizon` (Governor),
`MaxSweeps`, `MaxFailures`, `MaxRefusals` (RunOne), `MaxCost`, `MaxCrashes`
(Agent), `MaxChunks` (Command), `MaxCost`, `MaxSteps` (Notify), `MaxFaults`
(Cascade). In Sweep `MaxCost` is what a run may cost at most.
RunOne uses one category worth a retry and one that is not; no property tells
more of them apart. Cascade's instances are interchangeable, and the runs use
that symmetry; they check no liveness.

**Fairness.** Sweep: `WF(Loop)`, as tokio polls the dispatcher whenever an event
is ready and the deadline timer is an event. `CancelSpec` adds only that a worker
*told to stop* ends. `FairSpec`, used for `SweepEnds`, adds that every worker
ends, since steps, cost and wall clock of a run are bounded. Both rest on the
awaits of a worker listening to the token, and there are two that do not: the
collection of the output of a command that has exited (`join_reader`,
`env/local.rs:124`; `CommandEnds` says that only a process that outlives its
command can hold it) and the operator's prompt (`CancelHeard` excepts it; a sweep
has no operator). Governor: only a worker that can go on is polled; the clock,
the provider and the canceller owe nothing. RunOne: a worker with something to do
does it; the gate may never grant and the scan may never come. Agent: the loop is
polled; neither a model nor an operator has to answer. Command: the caller and
its tasks are polled, the system runs the child and delivers signals; a process
in the background never has to end. It also assumes that `docker rm -f`, which is
awaited without a timeout (`env/docker.rs:126`), returns, be it with an error:
`Removed` and `RemoveFails` are steps of the caller, and `CommandEnds` says
nothing of a docker that hangs. Notify and Cascade assume no fairness.

Deadlock is checked in every run; the terminated states stutter explicitly
(`Finished`, `Over`).

## 4. What is proved

For all values of the constants that satisfy the named assumptions. Every
property below is also checked by a run.

*SweepProofs.* `TypeCorrect`; `SlotsAreConserved` and `InFlightIsExact`, from the
inductive invariant `Accounted`, which joins the two: a counter is only right
because each slot is in one place, and the places are only right because phase
and cursor say which list may be touched. `NothingIsStranded` and
`NothingStartsAfterStop` from `Flow` (outside the select the loop has a worker or
a reason to stop). `OvershootIsBounded` from `Money`: when dispatch is allowed
the accumulated cost is below the limit, and every unjoined result charges at
most `MaxCost`. The product `in_flight * MaxCost` is kept from the solver behind
small lemmas (`OneLess`, `TimesMonotone`). It assumes a positive limit, which the
command line enforces for a limit that is set. The second half of the module is
about what the dispatcher says of itself. `FinishedStaysFinished` from `Requeued`: whatever waits in a
resumed sweep was put there by one of the scan's three reasons, and its files
have not changed since. `BreakerIsPrompt` from `Verdict`: after a joined result,
and with no stop pending, the rows do not trip the breaker; it assumes that no
worker dies of a join error, whose row is pushed unasked (section 6).
`MetricsAreExact` from `Metered`, step by step over the sets of resolved and
finished rows. `LedgerIsFinal` from `Remembered` (the snapshot of a cancellation
and the count of a halt still add up, as nothing leaves the queue after them) and
`Filed` (what the file says once the sweep is over).

*GovernorProofs.* `TypeCorrect`. `RateIsBounded`: the property speaks of pairs of
instants and is not inductive; `Metered` keeps, for every earlier instant, what
was handed out since plus what is left in the bucket within the capacity plus
the inflow up to the last refill, and `Quiet` that no permit is dated in the
future. `OpensWithoutBurst` from `Frugal`, the same sum counted from the start,
where the bucket holds one request. `FloorIsKept` from `Floored` (the floor that
is stored, or has passed, is the furthest one asked). `HalvedByStormOnly` from
`Windowed`: the counted 429s are the last ones reported and none is older than
the window. `ImplementsAimd` is the refinement, step by step: a Governor step is
a `Reduce`, a `Restore`, a `Pass` or a stutter of AimdSlots.

*RunOneProofs.* `TypeCorrect`; `SubmissionIsReal`, `SubmittedIsPaidOnce` and
`CancelledIsPickedUp` from `Staged` (what is known at each await) and `Sound`,
whose parts follow a claim through the program: what the agent holds (`Modest`),
what is about to be saved (`Saying`), what is on disk (`Genuine`), what is
reported (`Honest`). `InterruptionsAreCheap` from `Funded`, which says for each
place how much of the step limit of the current start is still unspent, kept in
the agent, the checkpoint to continue, or the file. `CostIsAccounted` from
`Charged` (no sum the row may become exceeds what was paid) and `Exact` (in an
undisturbed slot, equals it).

*AgentProofs.* `TypeCorrect`; `BudgetIsHeld` from `Paid` (a query is only made
below the limits; the checkpoint is bounded as the live cost is, hence kills and
resumes do not matter); `OnlyVettedRun` from `Vetted` (at each gate, which
clearances the command already carries); `StagnationIsExact` from `Detected`:
the window is the tail of everything observed, and as long as the loop runs no
earlier command was stagnant.

*CommandProofs.* `TypeCorrect`, with the conservation of chunks;
`OutputIsComplete`, `NothingStaysBehind`, `EnoughTimeIsEnough` from one invariant
of five parts, above all `Peaceful` (before anything goes wrong nobody is
signalled, and a child that has left has written everything) and `Hunted` (on a
machine that keeps up, whatever is waited for has its signal on the way).

*NotifyProofs.* `TypeCorrect` (the queue is never overfull); `FlushedSettled` from
`Ending` and `Sorted` (once the sweep flushes, its last event is at one of the
places where it counts, and nothing is behind it); `ImplementsDelivery`, the
refinement, from `Balance`: emitted = on the way + delivered + counted.
The second half is about the events. `SharesOnce` rests on `Said` (a share in a fired set was said
once or is still in the outbox, once; one that is not fired is in neither) and
`Reached` (the fired sets are the shares that the judged cost and rows reach).
Of the milestones it says what holds for rows and instances alike: never twice,
never late, and exact when there are no reruns (`RowsShare` relates the two).
`EndsCount` needs the order of the channel: `Line` (events are posted in the
order of their numbers), `Closed` (nothing but another end follows an end),
`Alone` (a sweep ends once, with its last event) and `Telling` (what each end
says, from where its count is read: between the reading and the queueing of the
last event the losses may grow by what is on its way, at most the channel and the
event being posted); a count of lost ends by Cardinality needs
the library's theorems on finite sets.

*Sums.* The totals of Cascade are sums over instances, tiers and attempts,
written with `SumFunction` of the community modules: a fold, that is, a CHOOSE of
a recursive function over subsets which takes out one chosen element after the
other. Sums proves that the recursion has a solution, that every element may be
the first to go, and from this what the proofs cite: a sum of two families, a
summand that grows, summands that are zero, sums of ones. The library's induction
theorems take an operator as a parameter, which the provers cannot instantiate;
the lemmas are proved from the least counterexample instead, which exists because
the sets of one size form a set and `<` is well-founded on the naturals.

*CascadeProofs.* Three layers, each inductive on top of the one before.
`TotalsAgree` from `BooksInv`. `LedgerAgrees` alone is not inductive: Phase A
replaces a placeholder without touching the totals, so placeholders must cost
nothing, and hence the rows they are made from; a resolved instance is counted
for its tier, so it must have an attempt there when the evaluator answers
(`Recorded`). What each step does to a list of attempts is said once
(`MarkedEffect`, `SpendEffect`, `EvaluateEffect`, `FailEffect`), and then summed
up over tiers and instances; `WithoutSkip`, the `retain` of Phase A, is a
recursive function and shown to keep what it should by the same argument.
`SweepInv` is the account of the tier's sweep: its instances are pending, its
spend is on its rows, only the limit refuses a row, and what its directory holds
is on a row.
`TiersTriedInOrder` from `Order`, which holds until a `--resume` raises the limit.
While money is left, nothing is refused (`Unrefused`), of the instances a tier has
still to try all or none were run before (`Together`), and the tiers below are
through (`Through`); once it is gone, only what was run is run again. The step
that matters is Phase A (`NothingRefused`): had the sweep refused an instance, all
its rows would be new, so what it spent would be recorded in full, and no money
be left. Panics are excused instance by instance: the three are asked of the
instances that lost no worker so far, and of the others only that the worker was
started. `CeilingKept` from `Ceiling`: a trajectory without an attempt is of a tier
the cascade has not gone beyond, so that of all that is known to be spent only the
sweep's own part is not in the books (`KnownWithin`). Before the proofs TLC
checked the three invariants without panics on the instance of cascade_run and
with three tiers or three instances (there as far as a bounded search goes), and
the properties with panics in the same way.

*Only model-checked:* liveness (`CancelEnds`, `SweepEnds`, `CancelReleases`,
`CancelEndsRun`, `CommandEnds`, `CancelHeard`), which the prover does not handle.
Every other property of a passing run is proved.

## 5. What is not modelled

The repository has about 140 000 lines, and what is modelled here is the part
with state, concurrency, failures and money in it. Most of the rest is the
command line and the configuration, the terminal user interface, and some forty
reports, audits and comparisons, which are functions from files to text: there is
no order of events in them to get wrong, and a model of one would repeat it.

Left out of the modelled parts: text and layout of every artifact, predictions,
spans, dashboards, preflight, redaction (its one control effect is
`CaptureLeak`), pull requests, rehearsal, verification checks, tokens, the
token-per-minute bucket (all callers ask it for 0). The circuit breaker compares
`f64` shares; the model multiplies integers. Whether an attempt wrote its
trajectory is told in the code by modification time and length
(`trajectory_fingerprint`); the model has the exact fact. In Sweep any resumed
checkpoint may end as `cancelled`; RunOne shows which really can. Agent leaves
out prompts, elision and the parsing of an answer; what the policy, the hooks and
`canonicalize_action` say of a command are parameters or choices. Command has one
pipe for stdout and stderr, and no failing spawn or file transfer. Notify leaves
out the broadcast, SSE and event-log sinks. Cascade's tiers are sweeps reduced to
what it reads of them.

Read and not modelled: matrix, suite and retry (their state is a file rewritten
between sequential sweeps; section 6 lists what we saw). Not read in depth:
ladder, best-of, stability, replay, fork, bisect, reproduce, the drivers of other
agents, MCP and skills. Components without a module, and why, are in
`PROJECT.json`.

## 6. Disagreements found

1. `sweep_aimd` (`swebench.rs:2842`): an event starts at most one slot, so after
   a 429 burst the concurrency never grows back, against the header of
   `rate_limit.rs` (lines 9-11).
2. `runone_crash` (`mini.rs:1429`): the final save truncates the checkpoint
   before it writes, against `docs/spec-checkpointing.md:15`.
3. `runone_stale` (`swebench.rs:4058`): a checkpoint marked cancelled at the gate
   stays partial; the run that continues it inherits the mark and reports its own
   failure as cancelled, against `trajectory/mod.rs:161` and `mini.rs:3694`.
4. `cascade_order` (`cascade.rs:564`): a resumed tier charges its archived
   attempts twice, halts early, refuses what the raised limit was to pay for, and
   the cascade then runs it on the dearer tier, against `cascade.rs:437` and
   `docs/spec-cascade.md:4`.

Noticed while modelling, and not run:

*Sweep.* The elapsed cancel deadline reports exit code 130 and not 137
(`swebench.rs:2774`, `docs/exit-codes.md:63`). Failures of an earlier sweep reach
the breaker of a resumed one, though only at its first joined result
(`swebench.rs:2646`, `docs/spec-systemic-halt.md:21`). A panic's row is pushed
without asking the breaker (`swebench.rs:2698`). A cancelled sweep whose webhook
does not answer waits up to 30 s before `results.json` is final.

*Governor.* One permit per attempt, not per request (`swebench.rs:5003`,
`docs/config-reference.md:204`). 429s of one storm that straddle two windows do
not add up to a reduction (`rate_limit.rs:302`). An idle minute followed by a
busy one hands out nearly twice `--max-rpm` (within `RateBounded`).

*Run slot.* A gate refused at a second attempt drops the cost of the first and
counts an attempt that did not execute (`swebench.rs:5003`, against the field's
comment at 384), which is why `CostAccounted` speaks of slots whose last counted
attempt did run. A leaking or invalid patch is written although
`swebench.rs:375` says non-submitted outcomes never write one.

*Agent.* Turns that end in a denial, a rejection or a refused edit are not
checkpointed (`default.rs:433`, `docs/spec-checkpointing.md`). The prompt does not
hear a cancellation, and an approval after it still starts the command. The exit
for stagnation does not look at the money first. Hooks run before the operator is
asked. A query cancelled in flight is not charged. A command rejected by a gate
never counts for stagnation.

*Command.* The timeout of a command does not cover the collection of its output
(`env/local.rs:124`, `docs/config-reference.md:180`), and neither does anything
cover the removal of a container (`env/docker.rs:126`). The evaluator reports a
command whose output does not fit into the pipe as timed out
(`evaluate.rs:2241`).

*Notifications.* The drop count of `sweep_completed` is read before the event is
queued and the queue drained (`swebench.rs:3166`), and misses losses that came
before it, against `sweep_webhook.rs:181` and
`docs/spec-sweep-notifications.md:131`; by how much is `EndCounts`. Milestones
compare run slots with the number of instances (`swebench.rs:2611`), so with
reruns they come early, against `sweep_webhook.rs:41`: of two instances with two
runs each, half are announced after the first run (TLC finds it in
`AnnouncedOnce` without its condition `Reruns = 1`). The webhook of a run has no
shutdown. Rows of a budget halt and of a panic emit no `instance_completed`
(`sweep_webhook.rs:48`). `run_ended` may come twice, or never.

*Cascade.* The row of a panicked worker has the id `<join_error>`
(`swebench.rs:2703`), so Phase A finds no row for its instance (`cascade.rs:584`)
and records no attempt, while the sweep is complete: the next, dearer tier runs
it, against `docs/spec-cascade.md:4` and the comment at `cascade.rs:653` (TLC finds
it in `NeverSkipsTier` without `missed`). A kill between Phase A and the verdicts, or a cancelled tier, leaves
attempts without a verdict that count as completed: their instances escalate. An
attempt that waits for its evaluator and left no trajectory is run again by the
retry, past an exhausted budget and unrecorded (the comment says "Evaluator retry
is free"). A raised limit may let tiers run out of order, so that what a killed
later tier spent is not seen; hence `raised` in `CeilingShared`. What a panicked
worker spent is charged when its tier is swept again, and so never if a lower tier
has resolved the instance meanwhile; hence `Seen`.

*Matrix, suite, retry* (read only). A matrix resumed after a cancellation runs
its unfinished arms without `--resume` and does not count what they had cost;
its budget guard marks only pending arms. A suite started over an old directory
may take an old trajectory for a fresh one, and reads only trajectories where its
comment prefers `suite-results.json`. A retry killed between its inner sweep and
the merge leaves a `results.json` with the retried rows alone, and the merged
cost drops what the replaced rows had cost.

## 7. What is left

1. An abstract worker, with one outcome, its trajectory and its cost, which Sweep
   would use and RunOne implement; today the two agree by inspection.
2. Matrix and retry as modules of their own: both rewrite one result file over
   several sweeps, and the notes above say where to look.
3. Shard and merge, against a reference definition over bounded inputs.
