-------------------------------- MODULE RunOne --------------------------------
(***************************************************************************)
(* The life of one run slot of a sweep: run_one in src/run/swebench.rs     *)
(* with the retry loop, crate::run::mini::run (src/run/mini.rs) for every  *)
(* attempt, the checkpoints of the agent loop (src/agent/default.rs), and  *)
(* what the next `bench swebench --resume` makes of the files it finds.    *)
(*                                                                         *)
(* A slot lives through several sweeps.  Within one, `at` is the await     *)
(* point the worker stands at; between two of them the process may be      *)
(* killed, which keeps the files and forgets everything else, and the      *)
(* sweep may be cancelled.  Files that are replaced by a rename change in  *)
(* one step; std::fs::write first truncates and then writes.               *)
(*                                                                         *)
(* Abstractions: every model turn costs 1, so the cost of a run is its     *)
(* number of steps; an attempt is identified by a number that is never     *)
(* used twice; patch validation is on and the base commit is known.        *)
(* Pull requests, the rehearsal mode, verification checks, tokens and      *)
(* telemetry are left out.                                                 *)
(***************************************************************************)
EXTENDS Integers, Sequences

CONSTANTS
  MaxRetries,    \* --max-retries
  RetryOn,       \* --retry-on
  RetryOnResume, \* --retry-on-resume
  GovernorOn,    \* is there a rate-limit governor to wait for?
  StepLimit,     \* agent.step_limit
  Cats,          \* failure categories
  EnvSetup,      \* of them: a failed patch capture or setup
  BadPatch,      \* PatchEmpty, PatchApplyInvalid and SecretLeakDetected
  StepLimitCat,  \* the step limit was reached
  AgentInternal, \* an I/O error
  Unknown,       \* none was recorded
  MaxSweeps,     \* bound: sweeps the slot lives through
  MaxFailures,   \* bound: failed writes
  MaxRefusals    \* bound: refused turns

NoCat == "none"

ASSUME CatsAssumption == /\ {EnvSetup, BadPatch, StepLimitCat, AgentInternal, Unknown}
                              \subseteq Cats
                         /\ RetryOn \subseteq Cats
                         /\ NoCat \notin Cats
ASSUME PolicyAssumption == /\ MaxRetries \in Nat
                           /\ StepLimit \in Nat
                           /\ RetryOnResume \in BOOLEAN
                           /\ GovernorOn \in BOOLEAN
ASSUME BoundAssumption == MaxSweeps \in Nat /\ MaxFailures \in Nat /\ MaxRefusals \in Nat

VARIABLES
  at,             \* where the worker is; "down" between sweeps
  cancelled,      \* the cancellation token of this sweep
  attempts,       \* attempts counted in this sweep
  retry_reasons,  \* categories that triggered a retry
  total_cost,     \* cost of the attempts of this sweep
  resume_from,    \* the checkpoint to continue, if any
  agent,          \* info of the agent's trajectory in memory
  run_err,        \* category of the error mini::run returns, NoCat for Ok
  fresh,          \* was the trajectory written since the attempt began?
  row,            \* the InstanceResult
  traj,           \* run-N.traj.json
  patch,          \* run-N.patch
  sweeps,         \* history: sweeps so far
  failures,       \* history: failed writes so far
  starts,         \* history: attempts begun without a checkpoint
  last_gen,       \* history: the number of the last attempt
  executed,       \* history: attempts of this sweep that ran
  spent,          \* history: what the provider was paid for this slot
  refused         \* history: turns refused, and so not checkpointed

loopVars == <<attempts, retry_reasons, total_cost, resume_from>>
diskVars == <<traj, patch>>
histVars == <<sweeps, starts, last_gen, executed, spent, refused>>
vars == <<at, cancelled, loopVars, agent, run_err, fresh, row, diskVars, failures, histVars>>

Places == {"down", "top", "gate", "setup", "agent", "turned", "capture", "validate",
           "saving", "writing", "report", "backoff", "done"}
Exits == {"none", "submitted", "limit", "error", "cancelled"}
Info == [partial : BOOLEAN, exit : Exits, outcome : Exits \ {"cancelled"},
         cat : Cats \cup {NoCat}, cost : Nat, gen : Nat]
Row == [exit : Exits \cup {"skipped_resume"}, outcome : Exits \ {"cancelled"},
        cat : Cats \cup {NoCat}, cost : Nat, attempts : Nat, reasons : Seq(Cats)]

NewInfo(gen) ==
  [partial |-> FALSE, exit |-> "none", outcome |-> "none", cat |-> NoCat, cost |-> 0, gen |-> gen]
NoInfo == NewInfo(0)
NoRow == [exit |-> "none", outcome |-> "none", cat |-> NoCat, cost |-> 0,
          attempts |-> 0, reasons |-> <<>>]
File(state, info) == [state |-> state, info |-> info]

Init ==
  /\ at = "down"
  /\ attempts = 0 /\ retry_reasons = <<>> /\ total_cost = 0 /\ resume_from = NoInfo
  /\ agent = NoInfo /\ run_err = NoCat /\ fresh = FALSE /\ row = NoRow
  /\ cancelled = FALSE /\ executed = 0
  /\ traj = File("none", NoInfo)
  /\ patch = [present |-> FALSE, good |-> FALSE, gen |-> 0]
  /\ sweeps = 0 /\ starts = 0 /\ failures = 0 /\ last_gen = 0 /\ spent = 0 /\ refused = 0

----------------------------------------------------------------------------
(* The resume scan of the next sweep.  A trajectory that cannot be parsed  *)
(* counts as none; a checkpoint is continued; a cancelled run, a retryable *)
(* failure and a submitted run without its patch start over; any other run *)
(* is archived.                                                            *)
Resumable == traj.state = "ok" /\ traj.info.partial
Cancelled == traj.state = "ok" /\ ~traj.info.partial /\ traj.info.exit = "cancelled"
Retryable == /\ traj.state = "ok" /\ ~traj.info.partial /\ traj.info.exit # "cancelled"
             /\ RetryOnResume /\ traj.info.cat \in RetryOn
Submitted == traj.state = "ok" /\ ~traj.info.partial /\ traj.info.outcome = "submitted"
Archived == /\ traj.state = "ok" /\ ~Resumable /\ ~Cancelled /\ ~Retryable
            /\ Submitted => patch.present

SkipRow == [NoRow EXCEPT !.exit = "skipped_resume", !.outcome = traj.info.outcome,
                         !.cat = traj.info.cat, !.cost = traj.info.cost]

Scan ==
  /\ at = "down"
  /\ sweeps < MaxSweeps
  /\ sweeps' = sweeps + 1
  /\ IF Archived
     THEN at' = "done" /\ row' = SkipRow /\ UNCHANGED resume_from
     ELSE /\ at' = "top"
          /\ resume_from' = IF Resumable THEN traj.info ELSE NoInfo
          /\ UNCHANGED row
  /\ UNCHANGED <<cancelled, attempts, retry_reasons, total_cost, agent, run_err, fresh, diskVars,
                 failures, starts, last_gen, executed, spent, refused>>

(* The process ends, killed or finished: only the files stay.              *)
Exit ==
  /\ at # "down"
  /\ sweeps < MaxSweeps
  /\ at' = "down"
  /\ attempts' = 0 /\ retry_reasons' = <<>> /\ total_cost' = 0 /\ resume_from' = NoInfo
  /\ agent' = NoInfo /\ run_err' = NoCat /\ fresh' = FALSE /\ row' = NoRow
  /\ cancelled' = FALSE /\ executed' = 0
  /\ UNCHANGED <<diskVars, failures, sweeps, starts, last_gen, spent, refused>>

Cancel ==
  /\ at \notin {"down", "done"}
  /\ ~cancelled
  /\ cancelled' = TRUE
  /\ UNCHANGED <<at, loopVars, agent, run_err, fresh, row, diskVars, failures, histVars>>

----------------------------------------------------------------------------
(* The head of an attempt.                                                 *)

(* cancelled_wait_result: whatever trajectory is there is marked cancelled *)
(* - its `partial` flag stays as it was - and saved; the row is built from *)
(* the attempt just reported, or from nothing when the gate was refused.   *)
LeaveCancelled_Silent(current) ==
  /\ row' = [current EXCEPT !.exit = "cancelled", !.outcome = "error", !.cat = NoCat,
                            !.attempts = attempts, !.reasons = retry_reasons]
  /\ at' = "done"
  /\ UNCHANGED agent
LeaveCancelled(current) ==
  /\ agent' = [(IF traj.state = "ok" THEN traj.info ELSE NoInfo)
                 EXCEPT !.exit = "cancelled", !.outcome = "error", !.cat = NoCat]
  /\ row' = [current EXCEPT !.exit = "cancelled", !.outcome = "error", !.cat = NoCat,
                            !.attempts = attempts, !.reasons = retry_reasons]
  /\ at' = "saving"

(* Only the first attempt continues a checkpoint.                          *)
Top ==
  /\ at = "top"
  /\ attempts' = attempts + 1
  /\ resume_from' = IF attempts = 0 THEN resume_from ELSE NoInfo
  /\ at' = IF GovernorOn THEN "gate" ELSE "setup"
  /\ fresh' = FALSE
  /\ run_err' = NoCat
  /\ UNCHANGED <<cancelled, retry_reasons, total_cost, agent, row, diskVars, failures, histVars>>

(* acquire_until_cancelled (Governor.tla): granted, or given up.           *)
Granted ==
  /\ at = "gate"
  /\ at' = "setup"
  /\ UNCHANGED <<cancelled, loopVars, agent, run_err, fresh, row, diskVars, failures, histVars>>

GateCancelled_Deaf == FALSE
GateCancelled ==
  /\ at = "gate"
  /\ cancelled
  /\ LeaveCancelled(NoRow)
  /\ UNCHANGED <<cancelled, loopVars, run_err, fresh, diskVars, failures, histVars>>

Continued_Blank == NewInfo(last_gen')
Continued == IF resume_from = NoInfo
             THEN NewInfo(last_gen')
             ELSE [resume_from EXCEPT !.partial = FALSE, !.gen = last_gen']

(* build_env and the agent builder.  An error here leaves no trajectory.   *)
Setup ==
  /\ at = "setup"
  /\ executed' = executed + 1
  /\ starts' = IF resume_from = NoInfo THEN starts + 1 ELSE starts
  /\ \/ /\ last_gen' = last_gen + 1
        /\ agent' = Continued
        /\ at' = "agent"
        /\ UNCHANGED run_err
     \/ /\ run_err' = EnvSetup
        /\ at' = "report"
        /\ UNCHANGED <<agent, last_gen>>
  /\ UNCHANGED <<cancelled, loopVars, fresh, row, diskVars, failures, sweeps, spent, refused>>

----------------------------------------------------------------------------
(* The agent loop.                                                         *)

Turn ==
  /\ at = "agent"
  /\ ~cancelled
  /\ agent.cost < StepLimit
  /\ agent' = [agent EXCEPT !.cost = @ + 1]
  /\ spent' = spent + 1
  /\ at' = "turned"
  /\ UNCHANGED <<cancelled, loopVars, run_err, fresh, row, diskVars, failures, sweeps, starts, last_gen,
                 executed, refused>>

(* save_partial_atomic: a failure is only logged.                          *)
Checkpoint ==
  /\ at = "turned"
  /\ \/ /\ traj' = File("ok", [agent EXCEPT !.partial = TRUE])
        /\ fresh' = TRUE
        /\ UNCHANGED failures
     \/ /\ failures < MaxFailures
        /\ failures' = failures + 1
        /\ UNCHANGED <<traj, fresh>>
  /\ at' = "agent"
  /\ UNCHANGED <<cancelled, loopVars, agent, run_err, row, patch, histVars>>

(* A command the policy denies or the operator rejects ends its turn       *)
(* before step() comes to its checkpoint.                                  *)
Refuse ==
  /\ at = "turned"
  /\ refused < MaxRefusals
  /\ at' = "agent"
  /\ refused' = refused + 1
  /\ UNCHANGED <<cancelled, loopVars, agent, run_err, fresh, row, diskVars, failures, sweeps, starts,
                 last_gen, executed, spent>>

FinalCancelled(info) == [info EXCEPT !.exit = "cancelled", !.outcome = "error", !.cat = NoCat]
FinalError(exit, cat) == [agent EXCEPT !.exit = exit, !.outcome = "error", !.cat = cat]

(* What mini::run does with the agent's end before it awaits again: a      *)
(* cancellation overrides everything, and only a submission is captured.   *)
Ended(info, err) ==
  /\ agent' = IF cancelled THEN FinalCancelled(agent) ELSE info
  /\ run_err' = IF cancelled THEN NoCat ELSE err
  /\ at' = IF ~cancelled /\ info.exit = "submitted" THEN "capture" ELSE "saving"
  /\ UNCHANGED <<cancelled, loopVars, fresh, row, diskVars, failures, histVars>>

Submit ==
  /\ at = "turned"
  /\ Ended([agent EXCEPT !.exit = "submitted", !.outcome = "submitted", !.cat = NoCat], NoCat)

(* A model or tool error: finalize_error_trajectory inserts an exit reason *)
(* and a category only where there is none.                                *)
Fail(cat) ==
  /\ at \in {"agent", "turned"}
  /\ Ended(FinalError(IF agent.exit = "none" THEN "error" ELSE agent.exit,
                      IF agent.cat = NoCat THEN cat ELSE agent.cat), cat)

(* The wallclock deadline or a stagnation: both are stamped and returned.  *)
Stop(cat) ==
  /\ at \in {"agent", "turned"}
  /\ Ended(FinalError("error", cat), cat)

Limit ==
  /\ at = "agent"
  /\ agent.cost >= StepLimit
  /\ Ended([agent EXCEPT !.exit = "limit", !.outcome = "limit", !.cat = StepLimitCat], NoCat)

AgentCancelled ==
  /\ at \in {"agent", "turned"}
  /\ cancelled
  /\ Ended(agent, NoCat)

----------------------------------------------------------------------------
(* Patch capture and validation.                                           *)

WritePatch(good) == patch' = [present |-> TRUE, good |-> good, gen |-> agent.gen]

CaptureCancelled ==
  /\ at \in {"capture", "validate"}
  /\ cancelled
  /\ agent' = FinalCancelled(agent)
  /\ at' = "saving"
  /\ UNCHANGED <<cancelled, loopVars, run_err, fresh, row, diskVars, failures, histVars>>

CaptureFails ==
  /\ at = "capture"
  /\ ~cancelled
  /\ agent' = FinalError("error", EnvSetup)
  /\ at' = "saving"
  /\ UNCHANGED <<cancelled, loopVars, run_err, fresh, row, diskVars, failures, histVars>>

(* A leaking patch is written, redacted, for inspection.                   *)
CaptureLeak ==
  /\ at = "capture"
  /\ ~cancelled
  /\ WritePatch(FALSE)
  /\ agent' = FinalError("error", BadPatch)
  /\ at' = "saving"
  /\ UNCHANGED <<cancelled, loopVars, run_err, fresh, row, traj, failures, histVars>>

CapturePatch(good) == /\ at' = "validate" /\ WritePatch(good)

(* Every other patch is written before it is validated.                    *)
Capture ==
  /\ at = "capture"
  /\ ~cancelled
  /\ \E good \in BOOLEAN : CapturePatch(good)
  /\ UNCHANGED <<cancelled, loopVars, agent, run_err, fresh, row, traj, failures, histVars>>

(* A failed write of the patch leaves mini::run without a final trajectory.*)
PatchWriteFails ==
  /\ at = "capture"
  /\ ~cancelled
  /\ failures < MaxFailures
  /\ failures' = failures + 1
  /\ WritePatch(FALSE)
  /\ run_err' = AgentInternal
  /\ at' = "report"
  /\ UNCHANGED <<cancelled, loopVars, agent, fresh, row, traj, histVars>>

Validated_Trusting == agent
Validated == IF patch.good THEN agent ELSE FinalError("error", BadPatch)

(* `git apply --check` found the patch good, or found it bad and no        *)
(* cancellation explains that.                                             *)
Validate ==
  /\ at = "validate"
  /\ patch.good \/ ~cancelled
  /\ agent' = Validated
  /\ at' = "saving"
  /\ UNCHANGED <<cancelled, loopVars, run_err, fresh, row, diskVars, failures, histVars>>

----------------------------------------------------------------------------
(* save_pretty: std::fs::write over the checkpoint.                        *)
Truncate ==
  /\ at = "saving"
  /\ traj' = File("torn", NoInfo)
  /\ fresh' = TRUE
  /\ at' = "writing"
  /\ UNCHANGED <<cancelled, loopVars, agent, run_err, row, patch, failures, histVars>>

(* A worker that leaves has its row already.                               *)
AfterSave == at' = IF row = NoRow THEN "report" ELSE "done"

Written ==
  /\ at = "writing"
  /\ traj' = File("ok", agent)
  /\ AfterSave
  /\ UNCHANGED <<cancelled, loopVars, agent, run_err, fresh, row, patch, failures, histVars>>

(* The write fails before or after the file was truncated.                 *)
SaveFails ==
  /\ at \in {"saving", "writing"}
  /\ failures < MaxFailures
  /\ failures' = failures + 1
  /\ run_err' = AgentInternal
  /\ AfterSave
  /\ UNCHANGED <<cancelled, loopVars, agent, fresh, row, diskVars, histVars>>

----------------------------------------------------------------------------
(* The tail of an attempt: the row, and whether to try again.              *)
Seen == fresh /\ traj.state = "ok"
ReportedCost_Last == IF Seen THEN traj.info.cost ELSE 0
ReportedCost == total_cost + (IF Seen THEN traj.info.cost ELSE 0)
ReportedOutcome == IF Seen /\ traj.info.outcome # "none" THEN traj.info.outcome ELSE "error"
ReportedExit == IF Seen /\ traj.info.exit # "none" THEN traj.info.exit ELSE ReportedOutcome
ReportedCat ==
  IF ReportedOutcome = "submitted" THEN NoCat
  ELSE IF Seen /\ traj.info.cat # NoCat THEN traj.info.cat
  ELSE IF ReportedExit = "cancelled" THEN NoCat
  ELSE IF run_err # NoCat THEN run_err ELSE Unknown

Current == [exit |-> ReportedExit, outcome |-> ReportedOutcome, cat |-> ReportedCat,
            cost |-> ReportedCost, attempts |-> attempts, reasons |-> retry_reasons]

ShouldRetry_Always == attempts <= MaxRetries
ShouldRetry == ReportedCat \in RetryOn /\ attempts <= MaxRetries

Report ==
  /\ at = "report"
  /\ total_cost' = ReportedCost
  /\ IF ShouldRetry
     THEN /\ retry_reasons' = Append(retry_reasons, ReportedCat)
          /\ at' = "backoff"
          /\ UNCHANGED row
     ELSE /\ row' = Current
          /\ at' = "done"
          /\ UNCHANGED retry_reasons
  /\ UNCHANGED <<cancelled, attempts, resume_from, agent, run_err, fresh, diskVars, failures,
                 histVars>>

(* sleep_or_cancelled.                                                     *)
Backoff ==
  /\ at = "backoff"
  /\ ~cancelled
  /\ at' = "top"
  /\ UNCHANGED <<cancelled, loopVars, agent, run_err, fresh, row, diskVars, failures, histVars>>

BackoffCancelled ==
  /\ at = "backoff"
  /\ cancelled
  /\ UNCHANGED <<cancelled, loopVars, run_err, fresh, diskVars, failures, histVars>>
  /\ LeaveCancelled([NoRow EXCEPT !.cost = total_cost])

Work == \/ Top \/ GateCancelled \/ Setup
        \/ Turn \/ Checkpoint \/ Refuse \/ Submit \/ Limit \/ AgentCancelled
        \/ \E cat \in Cats : Fail(cat) \/ Stop(cat)
        \/ CaptureCancelled \/ CaptureFails \/ CaptureLeak \/ Capture \/ PatchWriteFails
        \/ Validate \/ Truncate \/ Written \/ SaveFails
        \/ Report \/ Backoff \/ BackoffCancelled

(* The slot has lived through its last sweep.                              *)
Over == at = "done" /\ sweeps = MaxSweeps /\ UNCHANGED vars

Next == Scan \/ Exit \/ Cancel \/ Granted \/ Work \/ Over

Spec == Init /\ [][Next]_vars

(* tokio polls the worker while there is something it can do.  Nothing is  *)
(* assumed of the governor: it may never grant.                            *)
FairSpec == Spec /\ WF_vars(Work)

----------------------------------------------------------------------------
(* Every variable has its shape.                                           *)
TypeWorker == /\ at \in Places
              /\ cancelled \in BOOLEAN
              /\ attempts \in 0 .. MaxRetries + 1
              /\ retry_reasons \in Seq(RetryOn)
              /\ total_cost \in Nat
              /\ resume_from \in Info
TypeRun == /\ agent \in Info
           /\ run_err \in Cats \cup {NoCat}
           /\ fresh \in BOOLEAN
           /\ row \in Row
TypeDisk == /\ traj \in [state : {"none", "torn", "ok"}, info : Info]
            /\ patch \in [present : BOOLEAN, good : BOOLEAN, gen : Nat]
TypeHistory == /\ sweeps \in 0 .. MaxSweeps
               /\ failures \in 0 .. MaxFailures
               /\ starts \in Nat /\ last_gen \in Nat /\ executed \in Nat /\ spent \in Nat
               /\ refused \in 0 .. MaxRefusals
TypeOK == TypeWorker /\ TypeRun /\ TypeDisk /\ TypeHistory

(* A row that claims a submission, of this sweep or taken over by the scan,*)
(* stands on a final trajectory and on a validated patch that the very same*)
(* attempt wrote, whatever was killed, cancelled or failed on the way.     *)
SubmittedIsReal ==
  (at = "done" /\ row.outcome = "submitted") =>
    /\ Submitted /\ traj.info.cat = NoCat
    /\ patch.present /\ patch.good /\ patch.gen = traj.info.gen

(* Nothing is paid for a slot whose submission is on disk: no retry, no    *)
(* resumed checkpoint and no later sweep runs it again.                    *)
PaidOnce == [][spent' > spent => ~Submitted]_vars

(* However often the slot is killed and resumed, the step limit is shared  *)
(* by all sweeps that continue one start: beyond it an interruption and a  *)
(* failed write cost one turn each, the one that was not checkpointed, and *)
(* so does a refused turn.                                                 *)
LittlePaidTwice ==
  sweeps > 0 => spent <= StepLimit * starts + (sweeps - 1) + failures + refused

(* The row never charges more than was paid, although a resumed checkpoint *)
(* brings the cost of an earlier sweep with it; and it charges all of it   *)
(* in a slot that was never killed, no write of which failed, and whose    *)
(* last counted attempt did run.                                           *)
CostAccounted ==
  (at = "done" /\ row.exit # "skipped_resume") =>
    /\ row.cost <= spent
    /\ (sweeps = 1 /\ failures = 0 /\ executed = row.attempts) => row.cost = spent

(* A run reported as cancelled is picked up by the next --resume, from its *)
(* checkpoint or from the start, wherever the cancellation met it.         *)
CancelledIsRerun ==
  (at = "done" /\ row.exit = "cancelled" /\ failures = 0) => Resumable \/ Cancelled

(* A cancelled worker comes back, even from the gate or a backoff.         *)
CancelEndsRun == cancelled ~> at \in {"down", "done"}

(* src/trajectory/mod.rs:161 says of "cancelled": "The run was manually    *)
(* cancelled by the user."  The sweep that reports it was cancelled.       *)
CancelledByUser == (at = "done" /\ row.exit = "cancelled") => cancelled

(* docs/spec-checkpointing.md:15 demands that an interruption during the   *)
(* write of a checkpoint file "does not corrupt the entire history".  With *)
(* more turns than starts and refusals, one at least was checkpointed.     *)
HistorySurvives ==
  (at = "down" /\ failures = 0 /\ spent > starts + refused) => traj.state # "torn"

=============================================================================
