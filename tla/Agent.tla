--------------------------------- MODULE Agent ---------------------------------
(***************************************************************************)
(* The agent loop: DefaultAgent::step (src/agent/default.rs) with the      *)
(* fallback chain of models (src/model/fallback.rs), the policy and hook   *)
(* gates, the operator's confirmation (src/agent/confirm.rs), the          *)
(* stagnation detector (src/stagnation.rs), the checkpoint of every turn,  *)
(* and the end of a run as crate::run::mini::run sees it (src/run/mini.rs).*)
(*                                                                         *)
(* A step runs without interruption from one await to the next; these are  *)
(* the places.  The cancellation token and the wallclock deadline may      *)
(* strike at each of them, and so may a kill of the process, from which    *)
(* --resume continues at the last checkpoint.                              *)
(*                                                                         *)
(* Abstractions: the model's answer is a command, a submission, or nothing *)
(* that can be acted on; costs are whole units; commands are values with a *)
(* canonical form and a scope; prompts, elision, redaction and telemetry   *)
(* are left out, a failed compaction is a choice.                          *)
(***************************************************************************)
EXTENDS Integers, Sequences, FiniteSets

CONSTANTS
  Commands,     \* what the model may ask for
  Bash,         \* of them: those for the bash tool
  Denied,       \* shell commands that the policy denies, or would ask about
  Canonical,    \* command -> its form after canonicalize_action
  Scope,        \* command -> derive_scope: its first word, or its tool
  StepLimit,    \* agent.step_limit
  Limits,       \* values of cost_limit_usd and per_task_budget_usd
  Retries,      \* agent.parse_error_retries
  Threshold,    \* stagnation: repeats that trip it
  Window,       \* stagnation: actions remembered
  Models,       \* candidates of the fallback chain
  MaxCost,      \* bound: cost of one answer
  MaxCrashes    \* bound: kills

NoLimit == -1

ASSUME CommandsAssumption == Bash \subseteq Commands /\ Denied \subseteq Commands
ASSUME LimitsAssumption == /\ StepLimit \in Nat
                           /\ Limits \subseteq Nat \cup {NoLimit}
                           /\ Retries \in Nat
                           /\ Models \in Nat \ {0}
ASSUME StagnationAssumption == /\ Threshold \in Nat \ {0}
                               /\ Window \in Nat
                               /\ Threshold <= Window
ASSUME BoundAssumption == MaxCost \in Nat /\ MaxCrashes \in Nat

VARIABLES
  setup,        \* the configuration of the run
  at,           \* where the loop stands
  steps,        \* self.steps
  cost,         \* self.total_cost_usd
  parse_errors, \* self.parse_error_count, of consecutive answers
  buffer,       \* the window of the stagnation detector
  rules,        \* auto_approve_rules
  candidate,    \* the model of the chain that is asked
  command,      \* final_tool_input
  cancelled,    \* the cancellation token
  exit,         \* info.exit_reason with its failure category
  saved,        \* the checkpoint: steps and cost
  cleared,      \* history: the form in which each gate let the command pass
  observed,     \* history: bash commands run since the process started
  crashes       \* history: kills so far

countVars == <<steps, cost, parse_errors>>
stepVars == <<candidate, command, cleared>>
memoryVars == <<buffer, rules, observed>>
sessionVars == <<setup, cancelled, crashes>>
vars == <<sessionVars, at, countVars, memoryVars, stepVars, exit, saved>>

Setups == [read_only : BOOLEAN, interactive : BOOLEAN, cost_limit : Limits, budget : Limits]
Places == {"top", "query", "hooks", "confirm", "edited", "run", "post", "returned", "ended"}
Awaits == {"query", "hooks", "confirm", "edited", "run", "post"}
Exits == {"none", "submitted", "cancelled", "step_limit", "cost_limit", "budget_exhausted",
          "history_compaction_failed", "agent_stagnation", "wallclock_timeout",
          "model_parse", "malformed", "model_api", "read_only_violation", "env", "internal"}
Nothing == "none"
Uncleared == [policy |-> Nothing, hooks |-> Nothing, operator |-> Nothing]

Init ==
  /\ setup \in Setups
  /\ at = "top"
  /\ steps = 0 /\ cost = 0 /\ parse_errors = 0
  /\ buffer = <<>> /\ rules = {} /\ observed = <<>>
  /\ candidate = 1
  /\ command = Nothing /\ cleared = Uncleared
  /\ cancelled = FALSE
  /\ exit = "none"
  /\ saved = [steps |-> 0, cost |-> 0]
  /\ crashes = 0

----------------------------------------------------------------------------
(* step() returns, with its local variables: to be called again, or for    *)
(* the end of the run.                                                     *)
Forget == candidate' = 1 /\ command' = Nothing /\ cleared' = Uncleared
Continue == at' = "top" /\ Forget /\ UNCHANGED exit
Return(reason) == at' = "returned" /\ Forget /\ exit' = reason

Terminate(reason) ==
  /\ Return(reason)
  /\ UNCHANGED <<sessionVars, countVars, memoryVars, saved>>

(* The head of a step.  The order of the limits decides what a run that    *)
(* has reached several of them is called.                                  *)
Exceeds(spent, limit) == limit # NoLimit /\ spent >= limit
MoneyExit(spent) == IF Exceeds(spent, setup.cost_limit) THEN "cost_limit"
                    ELSE IF Exceeds(spent, setup.budget) THEN "budget_exhausted" ELSE "none"
LimitExit == IF steps >= StepLimit THEN "step_limit" ELSE MoneyExit(cost)

Top ==
  /\ at = "top"
  /\ IF cancelled THEN Terminate("cancelled")
     ELSE IF LimitExit # "none" THEN Terminate(LimitExit)
     ELSE \/ Terminate("history_compaction_failed")
          \/ /\ at' = "query"
             /\ UNCHANGED <<sessionVars, countVars, memoryVars, stepVars, exit, saved>>

----------------------------------------------------------------------------
(* query_model_until_cancelled around FallbackModel::query: a transient    *)
(* failure asks the next candidate, the last one's and any other failure   *)
(* ends the run.                                                           *)
NextCandidate ==
  /\ at = "query"
  /\ candidate < Models
  /\ candidate' = candidate + 1
  /\ UNCHANGED <<sessionVars, at, countVars, memoryVars, command, cleared, exit, saved>>

(* A malformed answer of the first candidate keeps its category; with      *)
(* failed attempts before it, it is one of AllCandidatesFailed.            *)
QueryFails ==
  /\ at = "query"
  /\ Terminate("model_api") \/ (candidate = 1 /\ Terminate("malformed"))

CancelQuery_Deaf == FALSE
CancelQuery ==
  /\ at = "query"
  /\ cancelled
  /\ Terminate("cancelled")

(* save_partial_atomic: a failure is only logged.                          *)
Checkpoint ==
  saved' = [steps |-> steps', cost |-> cost'] \/ UNCHANGED saved

(* Every answer is paid for, then the token is read again.                 *)
Pay(price) == cost' = cost + price

AnswerCancelled(price) ==
  /\ cancelled
  /\ Return("cancelled")
  /\ UNCHANGED <<steps, parse_errors, saved>>

Submit ==
  /\ ~cancelled
  /\ Return("submitted")
  /\ UNCHANGED <<steps, parse_errors, saved>>

(* Nothing to act on: asked again, or, once too often, the end; and then   *)
(* the money this very answer cost comes before the parse error.           *)
OutOfRetries == parse_errors' > Retries
ParseExit_Plain(spent) == "model_parse"
ParseExit(spent) == IF MoneyExit(spent) # "none" THEN MoneyExit(spent) ELSE "model_parse"

Unactionable ==
  /\ ~cancelled
  /\ parse_errors' = parse_errors + 1
  /\ IF OutOfRetries
     THEN Return(ParseExit(cost')) /\ UNCHANGED <<steps, saved>>
     ELSE /\ steps' = steps + 1
          /\ Checkpoint
          /\ Continue

(* A proposed command.  In read-only mode it ends the run; a denied one    *)
(* costs a step, and step() returns before its checkpoint; any other goes  *)
(* to the hooks.                                                           *)
Allowed(c) == c \notin Denied

Propose(c) ==
  /\ ~cancelled
  /\ parse_errors' = 0
  /\ UNCHANGED saved
  /\ \/ /\ setup.read_only
        /\ Return("read_only_violation")
        /\ UNCHANGED steps
     \/ /\ ~setup.read_only /\ ~Allowed(c)
        /\ steps' = steps + 1
        /\ Continue
     \/ /\ ~setup.read_only /\ Allowed(c)
        /\ at' = "hooks"
        /\ candidate' = 1
        /\ command' = c
        /\ cleared' = [Uncleared EXCEPT !.policy = c]
        /\ UNCHANGED <<steps, exit>>

Answer ==
  /\ at = "query"
  /\ \E price \in 0 .. MaxCost :
       /\ Pay(price)
       /\ \/ AnswerCancelled(price) \/ Submit \/ Unactionable
          \/ \E c \in Commands : Propose(c)
  /\ UNCHANGED <<sessionVars, memoryVars>>

----------------------------------------------------------------------------
(* The PreToolUse hooks, of the proposed and of an edited command: they    *)
(* let it pass, block it, or cannot run, which ends the run.  A blocked    *)
(* command is not shown to the operator; it becomes an observation.        *)
AfterHooks == IF at = "hooks" /\ setup.interactive THEN "confirm" ELSE "run"

Hooks ==
  /\ at \in {"hooks", "edited"}
  /\ \/ Terminate(IF cancelled THEN "cancelled" ELSE "env")
     \/ /\ ~cancelled
        /\ UNCHANGED <<sessionVars, cost, parse_errors, memoryVars>>
        /\ \/ /\ cleared' = [cleared EXCEPT !.hooks = command]
              /\ at' = AfterHooks
              /\ UNCHANGED <<steps, candidate, command, saved, exit>>
           \/ steps' = steps + 1 /\ Checkpoint /\ Continue

(* confirm_operator_action: a rule for the scope answers by itself.        *)
Go(operator) ==
  /\ cleared' = [cleared EXCEPT !.operator = operator]
  /\ at' = "run"
  /\ UNCHANGED <<candidate, command, steps, exit>>

Ruled == Scope[command] \in rules
ByRule == Ruled /\ Go(Nothing) /\ UNCHANGED rules
Approve == ~Ruled /\ Go(command) /\ UNCHANGED rules
AutoApprove == ~Ruled /\ Go(command) /\ rules' = rules \cup {Scope[command]}

(* A rejection is a step without a checkpoint.                             *)
Reject == ~Ruled /\ steps' = steps + 1 /\ Continue /\ UNCHANGED rules

(* The operator's text, for the same tool, passes the policy once more,    *)
(* and the hooks.                                                          *)
SameTool(c, d) == IF c \in Bash THEN d \in Bash ELSE d \notin Bash /\ Scope[c] = Scope[d]

EditAllowed_Trusted(c) == TRUE
EditAllowed(c) == Allowed(c)

Edit(c) ==
  /\ ~Ruled
  /\ SameTool(command, c)
  /\ IF EditAllowed(c)
     THEN /\ command' = c
          /\ cleared' = [Uncleared EXCEPT !.policy = IF Allowed(c) THEN c ELSE Nothing,
                                          !.operator = c]
          /\ at' = "edited"
          /\ UNCHANGED <<candidate, steps, exit>>
     ELSE steps' = steps + 1 /\ Continue
  /\ UNCHANGED rules

Abort == at = "confirm" /\ ~Ruled /\ Terminate("cancelled")

(* The prompt does not listen to the token.                                *)
Decide ==
  /\ at = "confirm"
  /\ ByRule \/ Approve \/ AutoApprove \/ Reject \/ (\E c \in Commands : Edit(c))
  /\ UNCHANGED <<sessionVars, cost, parse_errors, buffer, observed, saved>>

----------------------------------------------------------------------------
(* The command runs; an error of its environment or of the tool, also the  *)
(* one a cancellation makes, ends the run.                                 *)
Run ==
  /\ at = "run"
  /\ \/ Terminate(IF command \in Bash THEN "env" ELSE "internal")
     \/ /\ at' = "post"
        /\ UNCHANGED <<sessionVars, countVars, memoryVars, stepVars, exit, saved>>

(* StagnationDetector::observe.                                            *)
Repeats(c, past) == Cardinality({i \in DOMAIN past : Canonical[past[i]] = Canonical[c]})
Remembered_All(past) == past
Remembered(past) == IF Len(past) = Window THEN Tail(past) ELSE past
Tripped == /\ command \in Bash
           /\ Repeats(command, buffer') >= Threshold

(* The PostToolUse hooks cannot fail.  Then the step is counted, the token *)
(* read, the detector asked and the turn saved.                            *)
Observe ==
  /\ steps' = steps + 1
  /\ IF cancelled
     THEN Return("cancelled") /\ UNCHANGED <<buffer, observed, saved>>
     ELSE /\ buffer' = IF command \in Bash THEN Append(Remembered(buffer), command) ELSE buffer
          /\ observed' = IF command \in Bash THEN Append(observed, command) ELSE observed
          /\ IF Tripped
             THEN Return("agent_stagnation") /\ UNCHANGED saved
             ELSE Checkpoint /\ Continue

Post ==
  /\ at = "post"
  /\ UNCHANGED <<sessionVars, cost, parse_errors, rules>>
  /\ Observe

----------------------------------------------------------------------------
(* run_agent_with_timeout drops the loop wherever it waits.                *)
Wallclock == at \in Awaits /\ Terminate("wallclock_timeout")

(* mini::run: a cancellation overrides whatever the run ended in.          *)
Finish ==
  /\ at = "returned"
  /\ at' = "ended"
  /\ exit' = IF cancelled THEN "cancelled" ELSE exit
  /\ UNCHANGED <<sessionVars, countVars, memoryVars, stepVars, saved>>

Cancel ==
  /\ at # "ended" /\ ~cancelled
  /\ cancelled' = TRUE
  /\ UNCHANGED <<setup, crashes, at, countVars, memoryVars, stepVars, exit, saved>>

(* The process is killed and the run resumed: steps and cost come from the *)
(* checkpoint, everything else starts anew.                                *)
Crash ==
  /\ at # "ended"
  /\ crashes < MaxCrashes
  /\ crashes' = crashes + 1
  /\ steps' = saved.steps /\ cost' = saved.cost /\ parse_errors' = 0
  /\ buffer' = <<>> /\ rules' = {} /\ observed' = <<>>
  /\ at' = "top" /\ Forget /\ exit' = "none" /\ cancelled' = FALSE
  /\ UNCHANGED <<setup, saved>>

Over == at = "ended" /\ UNCHANGED vars

Query == NextCandidate \/ QueryFails \/ Answer
Loop == Top \/ CancelQuery \/ Hooks \/ Run \/ Post \/ Finish
Operator == Decide \/ Abort

Next == Loop \/ Query \/ Operator \/ Wallclock \/ Cancel \/ Crash \/ Over

Spec == Init /\ [][Next]_vars

(* The runtime polls the loop, and commands and hooks come back (Command). *)
(* Neither a model nor an operator has to answer.                          *)
FairSpec == Spec /\ WF_vars(Loop)

----------------------------------------------------------------------------
(* Every variable has its shape.                                           *)
TypeOK ==
  /\ setup \in Setups
  /\ at \in Places
  /\ steps \in 0 .. StepLimit /\ cost \in Nat /\ parse_errors \in 0 .. Retries + 1
  /\ buffer \in Seq(Bash) /\ Len(buffer) <= Window
  /\ observed \in Seq(Bash)
  /\ rules \subseteq {Scope[c] : c \in Commands}
  /\ candidate \in 1 .. Models
  /\ command \in Commands \cup {Nothing}
  /\ cleared \in [{"policy", "hooks", "operator"} -> Commands \cup {Nothing}]
  /\ cancelled \in BOOLEAN
  /\ exit \in Exits
  /\ saved \in [steps : 0 .. StepLimit, cost : Nat]
  /\ crashes \in 0 .. MaxCrashes

(* Neither limit is overshot by more than one answer, not over kills and   *)
(* resumes either.  A run that has spent its money is not called a parse   *)
(* failure (the comment at src/agent/default.rs:1151), nor is one that has *)
(* reached its cost limit called out of budget.                            *)
BudgetHolds ==
  /\ \A limit \in {setup.cost_limit, setup.budget} \ {NoLimit} :
       /\ cost < limit + MaxCost \/ cost = 0
       /\ exit = "model_parse" => cost < limit
  /\ exit = "budget_exhausted" => ~Exceeds(cost, setup.cost_limit)

(* What is run was let through by the policy and by the hooks, and in      *)
(* interactive mode by the operator, in exactly the form that is run: an   *)
(* edit or a rule for a scope does not carry another command past a gate.  *)
RunsOnlyVetted ==
  at = "run" =>
    /\ command \in Commands \ Denied
    /\ cleared.policy = command /\ cleared.hooks = command
    /\ setup.interactive => cleared.operator = command \/ Scope[command] \in rules

(* The run is called stagnant exactly when, among the last Window bash     *)
(* commands run by this process, one has come Threshold times.             *)
Recent(i) == {k \in 1 .. i : k > i - Window}
StagnantAt(i) ==
  Cardinality({k \in Recent(i) : Canonical[observed[k]] = Canonical[observed[i]]}) >= Threshold
StagnationExact ==
  /\ exit = "agent_stagnation" => StagnantAt(Len(observed))
  /\ at \in {"top"} \cup Awaits => \A i \in DOMAIN observed : ~StagnantAt(i)

(* A cancellation ends the run, wherever it meets it, unless the operator  *)
(* is being asked or the process is killed.                                *)
CancelHeard == cancelled ~> ~cancelled \/ at \in {"ended", "confirm"}

=============================================================================
