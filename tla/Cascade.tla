-------------------------------- MODULE Cascade --------------------------------
(***************************************************************************)
(* `bench cascade`: run() of src/run/cascade.rs, which routes every        *)
(* instance through an ordered list of model tiers until one resolves it.  *)
(*                                                                         *)
(* Each tier is a sweep over the instances it still has to try (run_tier,  *)
(* always with resume: true, in a directory of its own), whose rows are    *)
(* written to cascade.json (Phase A) before the evaluator is asked (Phase  *)
(* B) and its verdicts are filled in (Phase C).  All tiers share a cost    *)
(* limit.  The process may be killed at any await, the evaluator may fail, *)
(* the operator may cancel a sweep; `bench cascade --resume` then starts   *)
(* over from cascade.json and from the directories of the tiers, perhaps   *)
(* with another limit.                                                     *)
(*                                                                         *)
(* Abstractions: instances are in no order; the sweep of a tier keeps of   *)
(* module Sweep what its rows, its spend and its status show; costs are    *)
(* small integers; a state file is as new as the last write, since every   *)
(* change of `state` is followed by one before the next await.             *)
(***************************************************************************)
EXTENDS Integers, Sequences, FiniteSetsExt

CONSTANTS
  Instances,
  NumTiers,    \* manifest.tiers.len()
  Limits,      \* --sweep-cost-limit-usd of the invocations
  Parallel,    \* --parallel
  Costs,       \* what a model run may cost
  MaxFaults    \* bound: invocations with --resume and panicking workers, together

Tiers == 1 .. NumTiers

ASSUME TiersAssumption == NumTiers \in Nat \ {0} /\ Parallel \in Nat \ {0}
ASSUME InstancesAssumption == IsFiniteSet(Instances)
ASSUME CostsAssumption == Limits \subseteq Nat /\ Costs \subseteq Nat
ASSUME FaultsAssumption == MaxFaults \in Nat

VARIABLES
  records,         \* cascade.json: resolving_tier, total_cost_usd, attempts
  limit,           \* the limit of this invocation
  at,              \* where run() stands
  tier,            \* tier_idx
  cumulative_cost,
  tier_stats,      \* per tier: attempted, resolved, cost
  todo,            \* of the tier's sweep: queued,
  running,         \*   started,
  rows,            \*   and finished instances
  spent,           \* the sweep's own cumulative cost
  halted,          \* it has reached its limit
  cancelled,       \* it was told to stop
  tier_dir,        \* trajectories in the directory of each tier
  restarts,
  raised,          \* for the properties: some --resume had a higher limit,
  missed           \*   and (also for the bound) <<tier, instance>> whose worker panicked

stateVars == <<records, cumulative_cost, tier_stats>>
sweepVars == <<todo, running, rows, spent, halted, cancelled>>
vars == <<stateVars, sweepVars, limit, at, tier, tier_dir, restarts, raised, missed>>

Row(tag, cost) == [tag |-> tag, cost |-> cost]
NoRow == Row("none", 0)
Archived == {"submitted", "failed"}
Attempt(t, row) ==
  [tier |-> t, cost |-> row.cost, verdict |-> "none",
   halted |-> IF row.tag = "budget_halt" THEN "skipped_budget" ELSE "none"]

AttemptsAt(i, t) == {k \in DOMAIN records[i].attempts : records[i].attempts[k].tier = t}
HaltedAt(i, t) == {records[i].attempts[k].halted : k \in AttemptsAt(i, t)}
RealAt(i, t) == HaltedAt(i, t) \ {"skipped_budget"} # {}
CompletedAt(i, t) == "none" \in HaltedAt(i, t)

Pending(t) ==
  {i \in Instances : /\ records[i].resolving = 0
                     /\ ~CompletedAt(i, t)
                     /\ Cardinality({u \in Tiers : CompletedAt(i, u)}) < NumTiers}
EvalPending(t) == {i \in Pending(t) : "eval_pending" \in HaltedAt(i, t)}

TotalCost == SumFunction([i \in Instances |-> records[i].total])

NoSweep ==
  /\ todo' = {} /\ running' = {} /\ spent' = 0
  /\ rows' = [i \in Instances |-> NoRow]
  /\ halted' = FALSE /\ cancelled' = FALSE

Init ==
  /\ records = [i \in Instances |-> [resolving |-> 0, total |-> 0, attempts |-> <<>>]]
  /\ limit \in Limits
  /\ at = "tier" /\ tier = 1
  /\ cumulative_cost = 0
  /\ tier_stats = [t \in Tiers |-> [attempted |-> 0, resolved |-> 0, cost |-> 0]]
  /\ todo = {} /\ running = {} /\ spent = 0
  /\ rows = [i \in Instances |-> NoRow]
  /\ halted = FALSE /\ cancelled = FALSE
  /\ tier_dir = [t \in Tiers |-> [i \in Instances |-> NoRow]]
  /\ restarts = 0 /\ raised = FALSE /\ missed = {}

(* Bound: may one more invocation or panic come?                           *)
FaultLeft == restarts + Cardinality(missed) < MaxFaults

----------------------------------------------------------------------------
(* The head of a tier.                                                     *)
AtTier == at = "tier" /\ tier \in Tiers
BudgetExhausted == cumulative_cost >= limit
Remaining_Whole == limit
Remaining == limit - cumulative_cost

SkipTier ==
  /\ AtTier /\ Pending(tier) = {}
  /\ tier' = tier + 1
  /\ UNCHANGED <<stateVars, sweepVars, limit, at, tier_dir, restarts, raised, missed>>

(* The guard leaves a placeholder for every instance it refuses, once.     *)
Unmarked == {i \in Pending(tier) \ EvalPending(tier) :
               "skipped_budget" \notin HaltedAt(i, tier)}
MarkSkipped ==
  /\ records' = [i \in Instances |->
       IF i \in Unmarked
         THEN [records[i] EXCEPT !.attempts = Append(@, Attempt(tier, Row("budget_halt", 0)))]
         ELSE records[i]]
  /\ tier_stats' = [tier_stats EXCEPT ![tier].attempted = @ + Cardinality(Unmarked)]

StopForBudget ==
  /\ AtTier /\ Pending(tier) # {} /\ EvalPending(tier) = {} /\ BudgetExhausted
  /\ MarkSkipped
  /\ at' = "over"
  /\ UNCHANGED <<cumulative_cost, sweepVars, limit, tier, tier_dir, restarts, raised, missed>>

(* The sweep of the tier: what its directory holds as finished is charged  *)
(* against what is left of the limit and not run again; if that exhausts   *)
(* it, the rest is refused.  (With nothing charged it never looks.)        *)
LaunchSweep(ids) ==
  LET done == {i \in ids : tier_dir[tier][i].tag \in Archived}
  IN  /\ spent' = SumFunction([i \in done |-> tier_dir[tier][i].cost])
      /\ halted' = (done # {} /\ spent' >= Remaining)
      /\ todo' = IF halted' THEN {} ELSE ids \ done
      /\ rows' = [i \in Instances |-> IF i \in done THEN tier_dir[tier][i]
                                      ELSE IF i \in ids /\ halted' THEN Row("budget_halt", 0)
                                      ELSE NoRow]
      /\ running' = {} /\ cancelled' = FALSE

StartTier ==
  /\ AtTier /\ Pending(tier) # {} /\ ~BudgetExhausted
  /\ LaunchSweep(Pending(tier))
  /\ at' = "sweep"
  /\ UNCHANGED <<stateVars, limit, tier, tier_dir, restarts, raised, missed>>

(* With the budget gone, the sweep is for the evaluator's retries only.    *)
StartEvalRetry ==
  /\ AtTier /\ EvalPending(tier) # {} /\ BudgetExhausted
  /\ MarkSkipped
  /\ LaunchSweep(EvalPending(tier))
  /\ at' = "sweep"
  /\ UNCHANGED <<cumulative_cost, limit, tier, tier_dir, restarts, raised, missed>>

----------------------------------------------------------------------------
(* Inside the sweep of a tier.                                             *)
StartRun(i) ==
  /\ at = "sweep" /\ i \in todo
  /\ ~halted /\ ~cancelled
  /\ Cardinality(running) < Parallel
  /\ running' = running \cup {i}
  /\ todo' = todo \ {i}
  /\ UNCHANGED <<stateVars, rows, spent, halted, cancelled, limit, at, tier, tier_dir, restarts,
                 raised, missed>>

(* A run ends with a trajectory, or (its environment does not start) with  *)
(* a row and nothing on disk.                                              *)
EndRun(i, row) ==
  /\ at = "sweep" /\ i \in running
  /\ row.tag = "lost" => row.cost = 0
  /\ row.tag = "cancelled" => cancelled
  /\ running' = running \ {i}
  /\ rows' = [rows EXCEPT ![i] = row]
  /\ spent' = spent + row.cost
  /\ halted' = (halted \/ spent' >= Remaining)
  /\ tier_dir' = IF row.tag = "lost" THEN tier_dir ELSE [tier_dir EXCEPT ![tier][i] = row]
  /\ UNCHANGED <<stateVars, todo, cancelled, limit, at, tier, restarts, raised, missed>>

(* A worker panics, before or after its trajectory is saved.  The sweep    *)
(* goes on with a row under the id "<join_error>", which no instance has:  *)
(* for the instance the sweep has no row, as if it had never been started. *)
WorkerPanics(i, left) ==
  /\ at = "sweep" /\ i \in running
  /\ FaultLeft
  /\ running' = running \ {i}
  /\ tier_dir' = IF left.tag \in Archived THEN [tier_dir EXCEPT ![tier][i] = left] ELSE tier_dir
  /\ missed' = missed \cup {<<tier, i>>}
  /\ UNCHANGED <<stateVars, todo, rows, spent, halted, cancelled, limit, at, tier, restarts,
                 raised>>

RefuseRest ==
  /\ at = "sweep" /\ halted /\ ~cancelled /\ todo # {}
  /\ rows' = [i \in Instances |-> IF i \in todo THEN Row("budget_halt", 0) ELSE rows[i]]
  /\ todo' = {}
  /\ UNCHANGED <<stateVars, running, spent, halted, cancelled, limit, at, tier, tier_dir,
                 restarts, raised, missed>>

CancelSweep ==
  /\ at = "sweep" /\ running # {} /\ ~cancelled
  /\ cancelled' = TRUE
  /\ UNCHANGED <<stateVars, todo, running, rows, spent, halted, limit, at, tier, tier_dir,
                 restarts, raised, missed>>

(* An error of the sweep itself leaves the cascade at once (`.await?`).     *)
SweepFails ==
  /\ at = "sweep"
  /\ at' = "failed"
  /\ NoSweep
  /\ UNCHANGED <<stateVars, limit, tier, tier_dir, restarts, raised, missed>>

----------------------------------------------------------------------------
(* Phase A: the rows become attempts, before anything else can fail.  A    *)
(* placeholder gives way; an attempt that is waiting for its evaluator     *)
(* stays as it is.                                                         *)
Rowed == {i \in Instances : rows[i].tag # "none"}
NewAttempts == {i \in Rowed : records[i].resolving = 0 /\ ~RealAt(i, tier)}

WithoutSkip_Kept(attempts) == attempts
WithoutSkip(attempts) ==
  LET kept[n \in 0 .. Len(attempts)] ==
        IF n = 0 THEN <<>>
        ELSE IF attempts[n].tier = tier /\ attempts[n].halted = "skipped_budget" THEN kept[n - 1]
        ELSE Append(kept[n - 1], attempts[n])
  IN  kept[Len(attempts)]

RecordSpend ==
  LET new == NewAttempts
      tier_cost == SumFunction([i \in new |-> rows[i].cost])
  IN  /\ records' = [i \in Instances |->
           IF i \in new
             THEN [records[i] EXCEPT
                     !.attempts = Append(WithoutSkip(@), Attempt(tier, rows[i])),
                     !.total = @ + rows[i].cost]
             ELSE records[i]]
      /\ cumulative_cost' = cumulative_cost + tier_cost
      /\ tier_stats' = [tier_stats EXCEPT
           ![tier].attempted = @ + Cardinality({i \in new : AttemptsAt(i, tier) = {}}),
           ![tier].cost = @ + tier_cost]

(* A cancelled sweep ends the cascade: its rows are not evaluated.         *)
AfterSweep_Evaluate == "evaluate"
AfterSweep == IF cancelled THEN "over" ELSE "evaluate"
PhaseA ==
  /\ at = "sweep" /\ running = {}
  /\ todo = {} \/ cancelled
  /\ RecordSpend
  /\ at' = AfterSweep
  /\ UNCHANGED <<sweepVars, limit, tier, tier_dir, restarts, raised, missed>>

(* Phases B and C.  The evaluator resolves submissions only.               *)
Judged(i, a, resolved) ==
  IF a.tier # tier \/ a.halted = "skipped_budget" THEN a
  ELSE [a EXCEPT !.halted = "none",
                 !.verdict = IF rows[i].tag = "budget_halt" THEN "none"
                             ELSE IF i \in resolved THEN "resolved" ELSE "unresolved"]

Evaluate(resolved) ==
  /\ at = "evaluate"
  /\ records' = [i \in Instances |->
       IF i \notin Rowed THEN records[i]
       ELSE [records[i] EXCEPT
               !.attempts = [k \in DOMAIN @ |-> Judged(i, @[k], resolved)],
               !.resolving = IF i \in resolved /\ @ = 0 THEN tier ELSE @]]
  /\ tier_stats' = [tier_stats EXCEPT
       ![tier].resolved = @ + Cardinality({i \in resolved : records[i].resolving = 0})]
  /\ tier' = tier + 1
  /\ at' = "tier"
  /\ NoSweep
  /\ UNCHANGED <<cumulative_cost, limit, tier_dir, restarts, raised, missed>>
EvaluatorAnswers ==
  \E resolved \in SUBSET {i \in Rowed : rows[i].tag = "submitted"} : Evaluate(resolved)

(* The attempts that have no verdict are marked for a retry.               *)
ToRetry(a) ==
  IF a.tier = tier /\ a.halted = "none" /\ a.verdict = "none"
    THEN [a EXCEPT !.halted = "eval_pending"] ELSE a
EvaluatorFails ==
  /\ at = "evaluate"
  /\ records' = [i \in Instances |->
       IF i \notin Rowed THEN records[i]
       ELSE [records[i] EXCEPT !.attempts = [k \in DOMAIN @ |-> ToRetry(@[k])]]]
  /\ at' = "failed"
  /\ UNCHANGED <<cumulative_cost, tier_stats, sweepVars, limit, tier, tier_dir, restarts, raised, missed>>

----------------------------------------------------------------------------
(* --resume, after a kill, a failure, or a cascade that came to an end.    *)
(* What a killed sweep had running leaves nothing.                         *)
AttemptedAt(t) == {i \in Instances : AttemptsAt(i, t) # {}}
CostAt(i, t) == SumFunction([k \in AttemptsAt(i, t) |-> records[i].attempts[k].cost])
StatsFromRecords ==
  [t \in Tiers |->
     [attempted |-> SumFunction([i \in Instances |-> Cardinality(AttemptsAt(i, t))]),
      resolved |-> Cardinality({i \in AttemptedAt(t) : records[i].resolving = t}),
      cost |-> SumFunction([i \in Instances |-> CostAt(i, t)])]]

Resume ==
  /\ FaultLeft
  /\ restarts' = restarts + 1
  /\ limit' \in Limits
  /\ raised' = (raised \/ limit' > limit)
  /\ cumulative_cost' = TotalCost
  /\ tier_stats' = StatsFromRecords
  /\ tier' = 1 /\ at' = "tier"
  /\ NoSweep
  /\ UNCHANGED <<records, tier_dir, missed>>

Over == at \in {"over", "failed"} \/ tier \notin Tiers
Finished == Over /\ UNCHANGED vars

RunEnds(i) ==
  \E tag \in {"submitted", "failed", "lost", "cancelled"}, cost \in Costs \cup {0} :
    EndRun(i, Row(tag, cost))
RunPanics(i) ==
  \E tag \in {"none"} \cup Archived, cost \in Costs \cup {0} : WorkerPanics(i, Row(tag, cost))

Tier == SkipTier \/ StopForBudget \/ StartTier \/ StartEvalRetry
TierSweep ==
  \/ RefuseRest \/ CancelSweep \/ SweepFails
  \/ \E i \in Instances : StartRun(i) \/ RunEnds(i) \/ RunPanics(i)
Phases == PhaseA \/ EvaluatorAnswers \/ EvaluatorFails
Next == Tier \/ TierSweep \/ Phases \/ Resume \/ Finished

Spec == Init /\ [][Next]_vars

----------------------------------------------------------------------------
(* PROPERTIES                                                              *)

RowSet == [tag : {"none", "submitted", "failed", "lost", "cancelled", "budget_halt"}, cost : Nat]
AttemptSet == [tier : Tiers, cost : Nat, verdict : {"none", "resolved", "unresolved"},
               halted : {"none", "skipped_budget", "eval_pending"}]

(* The types of the variables.                                             *)
TypeOK ==
  /\ records \in [Instances -> [resolving : 0 .. NumTiers, total : Nat, attempts : Seq(AttemptSet)]]
  /\ limit \in Limits
  /\ at \in {"tier", "sweep", "evaluate", "over", "failed"} /\ tier \in 1 .. NumTiers + 1
  /\ cumulative_cost \in Nat
  /\ tier_stats \in [Tiers -> [attempted : Nat, resolved : Nat, cost : Nat]]
  /\ todo \in SUBSET Instances /\ running \in SUBSET Instances
  /\ rows \in [Instances -> RowSet]
  /\ spent \in Nat /\ halted \in BOOLEAN /\ cancelled \in BOOLEAN
  /\ tier_dir \in [Tiers -> [Instances -> RowSet]]
  /\ restarts \in Nat /\ raised \in BOOLEAN
  /\ missed \in SUBSET (Tiers \X Instances)

(* The running totals never drift from cascade.json: over any history of   *)
(* kills, cancellations, evaluator failures, raised limits and resumes, an *)
(* instance has at most one attempt per tier, its total is what its        *)
(* attempts cost, and the counters from which the summary is built say     *)
(* what the attempts say.                                                  *)
LedgerAgrees ==
  /\ \A i \in Instances :
       /\ \A t \in Tiers : Cardinality(AttemptsAt(i, t)) <= 1
       /\ records[i].total = SumFunction([t \in Tiers |-> CostAt(i, t)])
  /\ cumulative_cost = TotalCost
  /\ tier_stats = StatsFromRecords

Panicked(i, t) == \E u \in 1 .. t : <<u, i>> \in missed
Seen(i, t) == t <= tier /\ tier_dir[t][i].tag \in Archived /\ ~Panicked(i, t)
OnDisk(i, t) == IF RealAt(i, t) THEN CostAt(i, t)
                ELSE IF Seen(i, t) THEN tier_dir[t][i].cost ELSE 0
Known == SumFunction([i \in Instances |-> SumFunction([t \in Tiers |-> OnDisk(i, t)])])

(* The ceiling is shared by all tiers and all invocations: a run starts    *)
(* only while what cascade.json, and the archived trajectories up to its   *)
(* tier, say was spent is below the limit.  Not seen are, by design of the *)
(* code: a run that repeats a lost one (it has its attempt already and is  *)
(* not charged); a trajectory whose instance lost a worker at that tier or *)
(* below (it is charged when that tier is swept again, which need not      *)
(* happen once a lower one has resolved the instance); and, when a raised  *)
(* limit lets tiers run out of order (TiersInOrder), what a killed sweep   *)
(* of a later tier spent.                                                  *)
CeilingShared ==
  [][\A i \in running' \ running : raised \/ RealAt(i, tier) \/ Known < limit]_vars

(* No tier is skipped: for what runs at a tier a worker was started at     *)
(* every lower one, and left an attempt unless it panicked.  (A panicked   *)
(* worker leaves none, and the cascade goes on to the next tier with its   *)
(* instance, although the comment at cascade.rs:653 would have it wait.)   *)
(* Tiers are in order as long as no --resume raised the limit.             *)
StartedAt(i, t) == RealAt(i, t) \/ <<t, i>> \in missed
NeverSkipsTier ==
  [][\A i \in running' \ running : raised \/ \A t \in 1 .. tier - 1 : StartedAt(i, t)]_vars

(* The same although a --resume may raise the limit.                       *)
(* src/run/cascade.rs:437 says of the placeholders "skipped_budget ->      *)
(* retry when budget is raised", and docs/spec-cascade.md:4 that a higher  *)
(* tier is used "only for instances that cheaper tiers cannot resolve".    *)
TiersInOrder == [][\A i \in running' \ running : \A t \in 1 .. tier - 1 : StartedAt(i, t)]_vars

=============================================================================
