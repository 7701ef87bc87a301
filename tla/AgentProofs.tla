------------------------------ MODULE AgentProofs ------------------------------
(***************************************************************************)
(* Proofs about module Agent, for every set of commands, policy, limit and *)
(* size of the chain and of the window: the limits hold over kills and     *)
(* resumes, only vetted commands run, and the stagnation detector finds    *)
(* exactly what it says it finds.                                          *)
(***************************************************************************)
EXTENDS Agent, FiniteSetTheorems, TLAPS

Bounded(spent) ==
  \A limit \in {setup.cost_limit, setup.budget} \ {NoLimit} : spent < limit + MaxCost \/ spent = 0

(* A step that has passed its head has a step left, and a model is asked   *)
(* only as long as there is money.                                         *)
Paid ==
  /\ at \in Awaits => steps < StepLimit
  /\ at \notin {"returned", "ended"} => exit = "none" /\ parse_errors <= Retries
  /\ at = "query" => MoneyExit(cost) = "none"
  /\ Bounded(cost) /\ Bounded(saved.cost)
  /\ exit = "model_parse" => MoneyExit(cost) = "none"
  /\ exit = "budget_exhausted" => ~Exceeds(cost, setup.cost_limit)

(* A command carries its clearances from gate to gate.                     *)
Vetted ==
  /\ at \in {"hooks", "confirm", "edited", "run"} =>
       command \in Commands \ Denied /\ cleared.policy = command
  /\ at \in {"confirm", "run"} => cleared.hooks = command
  /\ at \in {"confirm", "edited"} => setup.interactive
  /\ at = "edited" => cleared.operator = command
  /\ at = "run" /\ setup.interactive => cleared.operator = command \/ Scope[command] \in rules

IInv == TypeOK /\ Paid /\ Vetted

LEMMA SetupType ==
  ASSUME setup \in Setups
  PROVE  /\ setup.read_only \in BOOLEAN /\ setup.interactive \in BOOLEAN
         /\ setup.cost_limit \in Nat \cup {NoLimit} /\ setup.budget \in Nat \cup {NoLimit}
  BY LimitsAssumption DEF Setups

LEMMA MoneyType ==
  ASSUME NEW spent
  PROVE  /\ MoneyExit(spent) \in {"none", "cost_limit", "budget_exhausted"}
         /\ MoneyExit(spent) = "none" <=>
              ~Exceeds(spent, setup.cost_limit) /\ ~Exceeds(spent, setup.budget)
         /\ MoneyExit(spent) = "budget_exhausted" => ~Exceeds(spent, setup.cost_limit)
  BY DEF MoneyExit

LEMMA InitIInv == Init => IInv
<1> SUFFICES ASSUME Init PROVE IInv
  OBVIOUS
<1>1. TypeOK
  <2>1. buffer \in Seq(Bash) /\ Len(buffer) <= Window /\ observed \in Seq(Bash)
    BY StagnationAssumption DEF Init
  <2>2. saved \in [steps : 0 .. StepLimit, cost : Nat] /\ candidate \in 1 .. Models
    BY LimitsAssumption DEF Init
  <2>3. cleared \in [{"policy", "hooks", "operator"} -> Commands \cup {Nothing}]
    BY DEF Init, Uncleared
  <2>4. steps \in 0 .. StepLimit /\ parse_errors \in 0 .. Retries + 1 /\ crashes \in 0 .. MaxCrashes
    BY LimitsAssumption, BoundAssumption DEF Init
  <2> QED
    BY <2>1, <2>2, <2>3, <2>4 DEF Init, TypeOK, Places, Exits
<1>2. Paid
  BY LimitsAssumption DEF Init, Paid, Bounded, Awaits
<1>3. Vetted
  BY DEF Init, Vetted
<1> QED
  BY <1>1, <1>2, <1>3 DEF IInv

(* The local variables of a step are forgotten.                            *)
LEMMA ForgetType ==
  ASSUME Forget
  PROVE  /\ candidate' \in 1 .. Models /\ command' \in Commands \cup {Nothing}
         /\ cleared' \in [{"policy", "hooks", "operator"} -> Commands \cup {Nothing}]
  BY LimitsAssumption DEF Forget, Uncleared

(* The end of a run, for a reason that says nothing about money or that    *)
(* says the truth about it.                                                *)
LEMMA StepTerminate ==
  ASSUME IInv, NEW reason \in Exits, Terminate(reason),
         reason \notin {"model_parse", "agent_stagnation"},
         reason = "budget_exhausted" => ~Exceeds(cost, setup.cost_limit)
  PROVE  IInv'
<1> USE DEF IInv, Terminate, Return
<1>1. TypeOK'
  BY ForgetType DEF TypeOK, Places, sessionVars, countVars, memoryVars
<1>2. Paid'
  BY DEF Paid, Bounded, Awaits, Exceeds, sessionVars, countVars
<1>3. Vetted'
  BY DEF Vetted
<1> QED
  BY <1>1, <1>2, <1>3

LEMMA StepTop == ASSUME IInv, Top PROVE IInv'
<1>1. CASE Terminate("cancelled")
  BY <1>1, StepTerminate DEF Exits
<1>2. CASE LimitExit # "none" /\ Terminate(LimitExit)
  <2>1. /\ LimitExit \in {"step_limit", "cost_limit", "budget_exhausted"}
        /\ LimitExit = "budget_exhausted" => ~Exceeds(cost, setup.cost_limit)
    BY <1>2, MoneyType DEF LimitExit
  <2> QED
    BY <1>2, <2>1, StepTerminate DEF Exits
<1>3. CASE Terminate("history_compaction_failed")
  BY <1>3, StepTerminate DEF Exits
<1>4. CASE /\ LimitExit = "none" /\ at' = "query"
           /\ UNCHANGED <<sessionVars, countVars, memoryVars, stepVars, exit, saved>>
  <2>1. steps < StepLimit /\ MoneyExit(cost) = "none"
    BY <1>4, LimitsAssumption DEF LimitExit, IInv, TypeOK
  <2>2. TypeOK'
    BY <1>4 DEF IInv, TypeOK, Places, sessionVars, countVars, memoryVars, stepVars
  <2>3. Paid'
    BY <1>4, <2>1 DEF Top, IInv, Paid, Bounded, Awaits, MoneyExit, Exceeds, sessionVars, countVars
  <2>4. Vetted'
    BY <1>4 DEF Vetted
  <2> QED
    BY <2>2, <2>3, <2>4 DEF IInv
<1> QED
  BY <1>1, <1>2, <1>3, <1>4 DEF Top

----------------------------------------------------------------------------
(* The answer of a model.                                                  *)

LEMMA StepAsk == ASSUME IInv, NextCandidate \/ QueryFails \/ CancelQuery PROVE IInv'
<1>1. CASE NextCandidate
  <2>1. TypeOK'
    BY <1>1, LimitsAssumption DEF NextCandidate, IInv, TypeOK, sessionVars, countVars, memoryVars
  <2>2. Paid'
    BY <1>1 DEF NextCandidate, IInv, Paid, Bounded, Awaits, MoneyExit, Exceeds, sessionVars,
                countVars
  <2>3. Vetted'
    BY <1>1 DEF NextCandidate, Vetted
  <2> QED
    BY <2>1, <2>2, <2>3 DEF IInv
<1>2. CASE Terminate("model_api") \/ Terminate("malformed") \/ Terminate("cancelled")
  BY <1>2, StepTerminate DEF Exits
<1> QED
  BY <1>1, <1>2 DEF QueryFails, CancelQuery

(* Before an answer there was money, so after it there is at most one      *)
(* answer too little.                                                      *)
LEMMA PayBound ==
  ASSUME IInv, at = "query", NEW price \in 0 .. MaxCost
  PROVE  cost + price \in Nat /\ Bounded(cost + price)
<1>1. /\ cost \in Nat /\ setup.cost_limit \in Nat \cup {NoLimit}
      /\ setup.budget \in Nat \cup {NoLimit}
  BY SetupType DEF IInv, TypeOK
<1>2. ~Exceeds(cost, setup.cost_limit) /\ ~Exceeds(cost, setup.budget)
  BY MoneyType DEF IInv, Paid
<1>3. ASSUME NEW limit \in {setup.cost_limit, setup.budget} \ {NoLimit}
      PROVE  cost + price < limit + MaxCost
  BY <1>1, <1>2, <1>3, BoundAssumption DEF Exceeds
<1>4. cost + price \in Nat
  BY <1>1, BoundAssumption
<1> QED
  BY <1>3, <1>4 DEF Bounded

(* What every outcome of an answer is good for.                            *)
LEMMA AnswerKinds ==
  ASSUME IInv, Answer
  PROVE  /\ at = "query" /\ UNCHANGED <<sessionVars, memoryVars>>
         /\ cost' \in Nat /\ Bounded(cost') /\ Bounded(saved.cost)
         /\ \E price \in 0 .. MaxCost :
              AnswerCancelled(price) \/ Submit \/ Unactionable \/ (\E c \in Commands : Propose(c))
<1>1. PICK price \in 0 .. MaxCost :
        /\ Pay(price)
        /\ AnswerCancelled(price) \/ Submit \/ Unactionable \/ (\E c \in Commands : Propose(c))
  BY DEF Answer
<1>2. at = "query" /\ UNCHANGED <<sessionVars, memoryVars>>
  BY DEF Answer
<1>3. cost' = cost + price
  BY <1>1 DEF Pay
<1>4. cost' \in Nat /\ Bounded(cost')
  BY <1>2, <1>3, PayBound
<1>5. Bounded(saved.cost)
  BY DEF IInv, Paid
<1> QED
  BY <1>1, <1>2, <1>4, <1>5

LEMMA CheckpointType ==
  ASSUME IInv, Checkpoint, steps' \in 0 .. StepLimit, cost' \in Nat, UNCHANGED setup,
         Bounded(cost'), Bounded(saved.cost)
  PROVE  saved' \in [steps : 0 .. StepLimit, cost : Nat] /\ Bounded(saved'.cost)
<1>1. CASE saved' = [steps |-> steps', cost |-> cost']
  <2>1. saved'.cost = cost'
    BY <1>1
  <2> QED
    BY <1>1, <2>1
<1>2. CASE UNCHANGED saved
  <2>1. saved'.cost = saved.cost
    BY <1>2
  <2> QED
    BY <1>2, <2>1 DEF IInv, TypeOK
<1> QED
  BY <1>1, <1>2 DEF Checkpoint

LEMMA StepAnswer == ASSUME IInv, Answer PROVE IInv'
<1>0. /\ at = "query" /\ UNCHANGED <<sessionVars, memoryVars>>
      /\ cost' \in Nat /\ Bounded(cost') /\ Bounded(saved.cost)
  BY AnswerKinds
<1>1. /\ steps \in Nat /\ StepLimit \in Nat /\ steps < StepLimit /\ exit = "none"
      /\ parse_errors \in Nat /\ parse_errors <= Retries /\ Retries \in Nat
  <2>1. steps < StepLimit /\ exit = "none" /\ parse_errors <= Retries
    BY <1>0 DEF IInv, Paid, Awaits
  <2>2. StepLimit \in Nat /\ Retries \in Nat
    BY LimitsAssumption
  <2>3. steps \in Nat /\ parse_errors \in Nat
    BY <2>2 DEF IInv, TypeOK
  <2> QED
    BY <2>1, <2>2, <2>3
<1>b. UNCHANGED setup
  BY <1>0 DEF sessionVars
<1>2. CASE \/ AnswerCancelled(0) \/ Submit
  <2>1. /\ at' = "returned" /\ Forget /\ exit' \in {"cancelled", "submitted"}
        /\ UNCHANGED <<steps, parse_errors, saved>>
    BY <1>2 DEF AnswerCancelled, Submit, Return
  <2>2. TypeOK'
    BY <1>0, <2>1, ForgetType DEF IInv, TypeOK, Places, Exits, sessionVars, memoryVars
  <2>3. Paid'
    BY <1>0, <1>b, <2>1 DEF Paid, Bounded, Awaits
  <2>4. Vetted'
    BY <2>1 DEF Vetted
  <2> QED
    BY <2>2, <2>3, <2>4 DEF IInv
<1>3. CASE Unactionable
  <2>1. CASE OutOfRetries
    <3>1. /\ at' = "returned" /\ Forget /\ exit' = ParseExit(cost') /\ UNCHANGED <<steps, saved>>
          /\ parse_errors' = parse_errors + 1
      BY <1>3, <2>1 DEF Unactionable, Return
    <3>2. /\ exit' \in {"model_parse", "cost_limit", "budget_exhausted"}
          /\ exit' = "model_parse" => MoneyExit(cost') = "none"
          /\ exit' = "budget_exhausted" => ~Exceeds(cost', setup.cost_limit)
      BY <3>1, MoneyType DEF ParseExit
    <3>3. TypeOK'
      BY <1>0, <1>1, <3>1, <3>2, ForgetType
         DEF IInv, TypeOK, Places, Exits, sessionVars, memoryVars
    <3>4. Paid'
      BY <1>0, <1>b, <3>1, <3>2 DEF Paid, Bounded, Awaits, MoneyExit, Exceeds
    <3>5. Vetted'
      BY <3>1 DEF Vetted
    <3> QED
      BY <3>3, <3>4, <3>5 DEF IInv
  <2>2. CASE ~OutOfRetries
    <3>1. /\ at' = "top" /\ Forget /\ UNCHANGED exit /\ Checkpoint
          /\ parse_errors' = parse_errors + 1 /\ parse_errors' <= Retries
          /\ steps' = steps + 1 /\ steps' \in 0 .. StepLimit
      BY <1>1, <1>3, <2>2 DEF Unactionable, OutOfRetries, Continue
    <3>2. saved' \in [steps : 0 .. StepLimit, cost : Nat] /\ Bounded(saved'.cost)
      BY <1>0, <1>b, <3>1, CheckpointType
    <3>3. TypeOK'
      BY <1>0, <1>1, <3>1, <3>2, ForgetType
         DEF IInv, TypeOK, Places, Exits, sessionVars, memoryVars
    <3>4. Paid'
      BY <1>0, <1>1, <1>b, <3>1, <3>2 DEF Paid, Bounded, Awaits
    <3>5. Vetted'
      BY <3>1 DEF Vetted
    <3> QED
      BY <3>3, <3>4, <3>5 DEF IInv
  <2> QED
    BY <2>1, <2>2
<1>4. ASSUME NEW c \in Commands, Propose(c) PROVE IInv'
  <2>0. parse_errors' = 0 /\ UNCHANGED saved
    BY <1>4 DEF Propose
  <2>1. CASE Return("read_only_violation") /\ UNCHANGED steps
    <3>1. TypeOK'
      BY <1>0, <1>1, <2>0, <2>1, ForgetType
         DEF IInv, TypeOK, Return, Places, Exits, sessionVars, memoryVars
    <3>2. Paid'
      BY <1>0, <1>b, <2>0, <2>1 DEF Paid, Bounded, Return, Awaits
    <3>3. Vetted'
      BY <2>1 DEF Vetted, Return
    <3> QED
      BY <3>1, <3>2, <3>3 DEF IInv
  <2>2. CASE steps' = steps + 1 /\ Continue
    <3>1. TypeOK'
      BY <1>0, <1>1, <2>0, <2>2, ForgetType
         DEF IInv, TypeOK, Continue, Places, sessionVars, memoryVars
    <3>2. Paid'
      BY <1>0, <1>1, <1>b, <2>0, <2>2 DEF Paid, Bounded, Continue, Awaits
    <3>3. Vetted'
      BY <2>2 DEF Vetted, Continue
    <3> QED
      BY <3>1, <3>2, <3>3 DEF IInv
  <2>3. CASE /\ Allowed(c) /\ at' = "hooks" /\ candidate' = 1 /\ command' = c
             /\ cleared' = [Uncleared EXCEPT !.policy = c] /\ UNCHANGED <<steps, exit>>
    <3>1. /\ cleared' \in [{"policy", "hooks", "operator"} -> Commands \cup {Nothing}]
          /\ cleared'.policy = c
      BY <2>3 DEF Uncleared
    <3>2. TypeOK'
      BY <1>0, <1>1, <2>0, <2>3, <3>1, LimitsAssumption
         DEF IInv, TypeOK, Places, sessionVars, memoryVars
    <3>3. Paid'
      BY <1>0, <1>1, <1>b, <2>0, <2>3 DEF Paid, Bounded, Awaits
    <3>4. Vetted'
      BY <2>3, <3>1 DEF Vetted, Allowed
    <3> QED
      BY <3>2, <3>3, <3>4 DEF IInv
  <2> QED
    BY <1>4, <2>1, <2>2, <2>3 DEF Propose
<1>5. AnswerCancelled(0) \/ Submit \/ Unactionable \/ (\E c \in Commands : Propose(c))
  BY AnswerKinds DEF AnswerCancelled
<1> QED
  BY <1>2, <1>3, <1>4, <1>5

----------------------------------------------------------------------------
(* The gates.                                                              *)

LEMMA StepsLeft ==
  ASSUME IInv, at \in Awaits
  PROVE  steps + 1 \in 0 .. StepLimit /\ exit = "none" /\ parse_errors <= Retries
<1>1. StepLimit \in Nat
  BY LimitsAssumption
<1> QED
  BY <1>1 DEF IInv, TypeOK, Paid, Awaits

(* A step that comes to nothing but a turn: blocked, rejected, denied.     *)
LEMMA StepWithout ==
  ASSUME IInv, at \in {"hooks", "edited", "confirm"}, steps' = steps + 1, Continue,
         Checkpoint \/ UNCHANGED saved,
         UNCHANGED <<sessionVars, cost, parse_errors, memoryVars>>
  PROVE  IInv'
<1>0. steps' \in 0 .. StepLimit /\ exit = "none" /\ parse_errors <= Retries
  BY StepsLeft DEF Awaits
<1>1. cost' \in Nat /\ UNCHANGED setup /\ Bounded(cost') /\ Bounded(saved.cost) /\ cost' = cost
  BY DEF IInv, TypeOK, Paid, sessionVars
<1>2. saved' \in [steps : 0 .. StepLimit, cost : Nat] /\ Bounded(saved'.cost)
  <2>1. CASE Checkpoint
    BY <1>0, <1>1, <2>1, CheckpointType
  <2>2. CASE UNCHANGED saved
    BY <1>1, <2>2 DEF IInv, TypeOK
  <2> QED
    BY <2>1, <2>2
<1>3. TypeOK'
  BY <1>0, <1>1, <1>2, ForgetType DEF IInv, TypeOK, Continue, Places, sessionVars, memoryVars
<1>4. Paid'
  BY <1>0, <1>1, <1>2 DEF Paid, Bounded, Continue, Awaits, IInv
<1>5. Vetted'
  BY DEF Vetted, Continue
<1> QED
  BY <1>3, <1>4, <1>5 DEF IInv

LEMMA StepHooks == ASSUME IInv, Hooks PROVE IInv'
<1>1. CASE Terminate(IF cancelled THEN "cancelled" ELSE "env")
  BY <1>1, StepTerminate DEF Exits
<1>2. CASE steps' = steps + 1 /\ Checkpoint /\ Continue
             /\ UNCHANGED <<sessionVars, cost, parse_errors, memoryVars>>
  BY <1>2, StepWithout DEF Hooks
<1>3. CASE /\ cleared' = [cleared EXCEPT !.hooks = command] /\ at' = AfterHooks
           /\ UNCHANGED <<steps, candidate, command, saved, exit>>
           /\ UNCHANGED <<sessionVars, cost, parse_errors, memoryVars>>
  <2>1. at \in {"hooks", "edited"}
    BY DEF Hooks
  <2>2. /\ cleared' \in [{"policy", "hooks", "operator"} -> Commands \cup {Nothing}]
        /\ cleared'.hooks = command /\ cleared'.policy = cleared.policy
        /\ cleared'.operator = cleared.operator
    BY <1>3 DEF IInv, TypeOK
  <2>3. TypeOK'
    BY <1>3, <2>2 DEF IInv, TypeOK, AfterHooks, Places, sessionVars, memoryVars
  <2>4. Paid'
    BY <1>3, <2>1 DEF AfterHooks, IInv, Paid, Bounded, Awaits, MoneyExit, Exceeds, sessionVars
  <2>5. Vetted'
    BY <1>3, <2>1, <2>2, SetupType
       DEF AfterHooks, IInv, TypeOK, Vetted, sessionVars, memoryVars
  <2> QED
    BY <2>3, <2>4, <2>5 DEF IInv
<1> QED
  BY <1>1, <1>2, <1>3 DEF Hooks

(* The operator's approval, or the rule's.                                 *)
LEMMA StepGo ==
  ASSUME IInv, at = "confirm", NEW operator \in {command, Nothing}, Go(operator),
         rules' \in {rules, rules \cup {Scope[command]}},
         operator = command \/ Scope[command] \in rules',
         UNCHANGED <<sessionVars, cost, parse_errors, buffer, observed, saved>>
  PROVE  IInv'
<1>1. command \in Commands
  BY DEF IInv, Vetted
<1>2. /\ cleared' \in [{"policy", "hooks", "operator"} -> Commands \cup {Nothing}]
      /\ cleared'.hooks = cleared.hooks /\ cleared'.policy = cleared.policy
      /\ cleared'.operator = operator
  BY <1>1 DEF Go, IInv, TypeOK
<1>3. rules' \subseteq {Scope[c] : c \in Commands}
  BY <1>1 DEF IInv, TypeOK
<1>4. TypeOK'
  BY <1>2, <1>3 DEF Go, IInv, TypeOK, Places, sessionVars
<1>5. Paid'
  BY DEF Go, IInv, Paid, Bounded, Awaits, MoneyExit, Exceeds, sessionVars
<1>6. Vetted'
  BY <1>2 DEF Go, IInv, Vetted
<1> QED
  BY <1>4, <1>5, <1>6 DEF IInv

LEMMA StepEdit ==
  ASSUME IInv, at = "confirm", NEW c \in Commands, Edit(c),
         UNCHANGED <<sessionVars, cost, parse_errors, buffer, observed, saved>>
  PROVE  IInv'
<1>1. CASE EditAllowed(c)
  <2>1. /\ command' = c /\ at' = "edited" /\ UNCHANGED <<candidate, steps, exit, rules>>
        /\ cleared' = [Uncleared EXCEPT !.policy = c, !.operator = c] /\ c \notin Denied
    BY <1>1 DEF Edit, EditAllowed, Allowed
  <2>2. /\ cleared' \in [{"policy", "hooks", "operator"} -> Commands \cup {Nothing}]
        /\ cleared'.policy = c /\ cleared'.operator = c
    <3>1. cleared' = [policy |-> c, hooks |-> Nothing, operator |-> c]
      BY <2>1 DEF Uncleared
    <3> QED
      BY <3>1
  <2>3. TypeOK'
    BY <2>1, <2>2 DEF IInv, TypeOK, Places, sessionVars
  <2>4. Paid'
    BY <2>1 DEF IInv, Paid, Bounded, Awaits, MoneyExit, Exceeds, sessionVars
  <2>5. Vetted'
    BY <2>1, <2>2 DEF IInv, Vetted, sessionVars
  <2> QED
    BY <2>3, <2>4, <2>5 DEF IInv
<1>2. CASE ~EditAllowed(c)
  BY <1>2, StepWithout DEF Edit, memoryVars
<1> QED
  BY <1>1, <1>2

LEMMA StepDecide == ASSUME IInv, Decide PROVE IInv'
<1> USE DEF Decide
<1>1. CASE ByRule
  BY <1>1, StepGo DEF ByRule, Ruled
<1>2. CASE Approve
  BY <1>2, StepGo DEF Approve
<1>3. CASE AutoApprove
  BY <1>3, StepGo DEF AutoApprove
<1>4. CASE Reject
  BY <1>4, StepWithout DEF Reject, memoryVars
<1>5. ASSUME NEW c \in Commands, Edit(c) PROVE IInv'
  BY <1>5, StepEdit
<1> QED
  BY <1>1, <1>2, <1>3, <1>4, <1>5

----------------------------------------------------------------------------
(* The command and what follows it.                                        *)

LEMMA StepRun == ASSUME IInv, Run PROVE IInv'
<1>1. CASE Terminate(IF command \in Bash THEN "env" ELSE "internal")
  BY <1>1, StepTerminate DEF Exits
<1>2. CASE /\ at' = "post"
           /\ UNCHANGED <<sessionVars, countVars, memoryVars, stepVars, exit, saved>>
  <2>1. TypeOK'
    BY <1>2 DEF IInv, TypeOK, Places, sessionVars, countVars, memoryVars, stepVars
  <2>2. Paid'
    BY <1>2 DEF Run, IInv, Paid, Bounded, Awaits, MoneyExit, Exceeds, sessionVars, countVars
  <2>3. Vetted'
    BY <1>2 DEF Vetted
  <2> QED
    BY <2>1, <2>2, <2>3 DEF IInv
<1> QED
  BY <1>1, <1>2 DEF Run

LEMMA RememberedType ==
  ASSUME IInv, NEW c \in Bash
  PROVE  /\ Append(Remembered(buffer), c) \in Seq(Bash)
         /\ Len(Append(Remembered(buffer), c)) <= Window
<1>1. buffer \in Seq(Bash) /\ Len(buffer) \in Nat /\ Len(buffer) <= Window
  BY DEF IInv, TypeOK
<1>2. Window \in Nat /\ Window > 0
  BY StagnationAssumption
<1>3. Remembered(buffer) \in Seq(Bash) /\ Len(Remembered(buffer)) < Window
  <2>1. CASE Len(buffer) = Window
    <3>1. buffer # <<>>
      BY <1>1, <1>2, <2>1
    <3>2. Tail(buffer) \in Seq(Bash) /\ Len(Tail(buffer)) = Len(buffer) - 1
      BY <1>1, <3>1
    <3> QED
      BY <1>2, <2>1, <3>2 DEF Remembered
  <2>2. CASE Len(buffer) # Window
    BY <1>1, <1>2, <2>2 DEF Remembered
  <2> QED
    BY <2>1, <2>2
<1> QED
  BY <1>2, <1>3

LEMMA StepPost == ASSUME IInv, Post PROVE IInv'
<1>0. /\ at = "post" /\ steps' = steps + 1
      /\ UNCHANGED <<sessionVars, cost, parse_errors, rules>>
  BY DEF Post, Observe
<1>1. steps' \in 0 .. StepLimit /\ exit = "none" /\ parse_errors <= Retries
  BY <1>0, StepsLeft DEF Awaits
<1>2. cost' \in Nat /\ UNCHANGED setup /\ Bounded(cost') /\ Bounded(saved.cost)
  BY <1>0 DEF IInv, TypeOK, Paid, sessionVars
<1>3. /\ buffer' \in Seq(Bash) /\ Len(buffer') <= Window /\ observed' \in Seq(Bash)
  <2>1. buffer \in Seq(Bash) /\ Len(buffer) <= Window /\ observed \in Seq(Bash)
    BY DEF IInv, TypeOK
  <2>2. CASE UNCHANGED <<buffer, observed>>
    BY <2>1, <2>2
  <2>3. CASE /\ command \in Bash /\ buffer' = Append(Remembered(buffer), command)
             /\ observed' = Append(observed, command)
    BY <2>1, <2>3, RememberedType
  <2> QED
    BY <2>2, <2>3 DEF Post, Observe
<1>4. CASE /\ at' = "returned" /\ Forget /\ UNCHANGED saved
           /\ exit' \in {"cancelled", "agent_stagnation"}
  <2>1. TypeOK'
    BY <1>0, <1>1, <1>2, <1>3, <1>4, ForgetType DEF IInv, TypeOK, Places, Exits, sessionVars
  <2>2. Paid'
    BY <1>0, <1>1, <1>2, <1>4 DEF Paid, Bounded, Awaits
  <2>3. Vetted'
    BY <1>4 DEF Vetted
  <2> QED
    BY <2>1, <2>2, <2>3 DEF IInv
<1>5. CASE Checkpoint /\ Continue
  <2>0. saved' \in [steps : 0 .. StepLimit, cost : Nat] /\ Bounded(saved'.cost)
    BY <1>1, <1>2, <1>5, CheckpointType
  <2>1. TypeOK'
    BY <1>0, <1>1, <1>2, <1>3, <1>5, <2>0, ForgetType
       DEF IInv, TypeOK, Continue, Places, sessionVars
  <2>2. Paid'
    BY <1>0, <1>1, <1>2, <1>5, <2>0 DEF Paid, Bounded, Awaits, Continue
  <2>3. Vetted'
    BY <1>5 DEF Vetted, Continue
  <2> QED
    BY <2>1, <2>2, <2>3 DEF IInv
<1> QED
  BY <1>4, <1>5 DEF Post, Observe, Return

----------------------------------------------------------------------------
(* The end, the token and the kill.                                        *)

LEMMA StepFinish == ASSUME IInv, Finish PROVE IInv'
<1>1. TypeOK'
  BY DEF Finish, IInv, TypeOK, Places, Exits, sessionVars, countVars, memoryVars, stepVars
<1>2. Paid'
  BY DEF Finish, IInv, Paid, Bounded, Awaits, MoneyExit, Exceeds, sessionVars, countVars
<1>3. Vetted'
  BY DEF Finish, Vetted
<1> QED
  BY <1>1, <1>2, <1>3 DEF IInv

LEMMA StepCancel == ASSUME IInv, Cancel PROVE IInv'
<1>1. TypeOK'
  BY DEF Cancel, IInv, TypeOK, countVars, memoryVars, stepVars
<1>2. Paid'
  BY DEF Cancel, IInv, Paid, Bounded, MoneyExit, Exceeds, countVars
<1>3. Vetted'
  BY DEF Cancel, IInv, Vetted, memoryVars, stepVars
<1> QED
  BY <1>1, <1>2, <1>3 DEF IInv

LEMMA StepCrash == ASSUME IInv, Crash PROVE IInv'
<1>1. TypeOK'
  <2>1. <<>> \in Seq(Bash) /\ Len(<<>>) <= Window
    BY StagnationAssumption
  <2>2. parse_errors' \in 0 .. Retries + 1 /\ crashes' \in 0 .. MaxCrashes
    BY LimitsAssumption, BoundAssumption DEF Crash, IInv, TypeOK
  <2> QED
    BY <2>1, <2>2, ForgetType DEF Crash, IInv, TypeOK, Places, Exits
<1>2. Paid'
  BY LimitsAssumption DEF Crash, IInv, Paid, Bounded, Awaits
<1>3. Vetted'
  BY DEF Crash, Vetted
<1> QED
  BY <1>1, <1>2, <1>3 DEF IInv

LEMMA StepIInv == IInv /\ [Next]_vars => IInv'
<1> SUFFICES ASSUME IInv, [Next]_vars PROVE IInv'
  OBVIOUS
<1>1. CASE UNCHANGED vars
  <2>1. TypeOK'
    BY <1>1 DEF IInv, TypeOK, vars, sessionVars, countVars, memoryVars, stepVars
  <2>2. Paid'
    BY <1>1 DEF IInv, Paid, Bounded, MoneyExit, Exceeds, vars, sessionVars, countVars
  <2>3. Vetted'
    BY <1>1 DEF IInv, Vetted, vars, sessionVars, memoryVars, stepVars
  <2> QED
    BY <2>1, <2>2, <2>3 DEF IInv
<1>2. CASE Terminate("wallclock_timeout") \/ Terminate("cancelled")
  BY <1>2, StepTerminate DEF Exits
<1> QED
  BY <1>1, <1>2, StepTop, StepAsk, StepAnswer, StepHooks, StepDecide, StepRun, StepPost,
     StepFinish, StepCancel, StepCrash
     DEF Next, Loop, Query, Operator, Wallclock, Abort, Over

LEMMA Invariant == Spec => []IInv
  BY InitIInv, StepIInv, PTL DEF Spec

----------------------------------------------------------------------------
(* Every variable has its shape; no run takes more than step_limit steps,  *)
(* over kills and resumes either (DefaultAgent::step).                     *)
THEOREM TypeCorrect == Spec => []TypeOK
  BY Invariant, PTL DEF IInv

(* No limit is overshot by more than one answer, and what a run that is    *)
(* out of money is called (the head of step, the comment at                *)
(* src/agent/default.rs:1151).                                             *)
THEOREM BudgetIsHeld == Spec => []BudgetHolds
<1>1. IInv => BudgetHolds
  <2> SUFFICES ASSUME IInv PROVE BudgetHolds
    OBVIOUS
  <2>1. cost \in Nat /\ setup.cost_limit \in Nat \cup {NoLimit} /\ setup.budget \in Nat \cup {NoLimit}
    BY SetupType DEF IInv, TypeOK
  <2>2. exit = "model_parse" =>
          ~Exceeds(cost, setup.cost_limit) /\ ~Exceeds(cost, setup.budget)
    BY MoneyType DEF IInv, Paid
  <2>3. ASSUME NEW limit \in {setup.cost_limit, setup.budget} \ {NoLimit}
        PROVE  /\ cost < limit + MaxCost \/ cost = 0
               /\ exit = "model_parse" => cost < limit
    BY <2>1, <2>2 DEF IInv, Paid, Bounded, Exceeds
  <2> QED
    BY <2>3 DEF BudgetHolds, IInv, Paid
<1> QED
  BY <1>1, Invariant, PTL

(* What is run was let through by every gate in the form that is run,      *)
(* whatever the policy, the hooks and the operator do.                     *)
THEOREM OnlyVettedRun == Spec => []RunsOnlyVetted
<1>1. IInv => RunsOnlyVetted
  BY DEF IInv, Vetted, RunsOnlyVetted
<1> QED
  BY <1>1, Invariant, PTL

----------------------------------------------------------------------------
(* The stagnation detector.  Its buffer is the end of what has been        *)
(* observed, and counting in it is counting there.                         *)

Kept(n) == IF n <= Window THEN n ELSE Window
Tails(buf, obs) ==
  /\ Len(buf) = Kept(Len(obs))
  /\ \A k \in 1 .. Len(buf) : buf[k] = obs[Len(obs) - Len(buf) + k]

LEMMA TailsAppend ==
  ASSUME NEW buf \in Seq(Bash), NEW obs \in Seq(Bash), NEW c \in Bash, Tails(buf, obs)
  PROVE  Tails(Append(Remembered(buf), c), Append(obs, c))
<1> DEFINE new == Append(obs, c)
           rem == Remembered(buf)
<1>1. Window \in Nat /\ Window > 0 /\ Len(obs) \in Nat /\ Len(buf) \in Nat /\ Len(buf) = Kept(Len(obs))
  BY StagnationAssumption DEF Tails
<1>2. new \in Seq(Bash) /\ Len(new) = Len(obs) + 1 /\ new[Len(new)] = c
        /\ \A k \in 1 .. Len(obs) : new[k] = obs[k]
  OBVIOUS
<1>3. CASE Len(buf) = Window
  <2>1. buf # <<>>
    BY <1>1, <1>3
  <2>2. /\ rem \in Seq(Bash) /\ Len(rem) = Len(buf) - 1
        /\ \A k \in 1 .. Len(rem) : rem[k] = buf[k + 1]
    BY <1>3, <2>1 DEF Remembered
  <2>3. Len(obs) >= Window
    BY <1>1, <1>3 DEF Kept
  <2> HIDE DEF rem, new
  <2>4. Len(Append(rem, c)) = Window /\ Kept(Len(new)) = Window
    BY <1>1, <1>2, <1>3, <2>2, <2>3 DEF Kept
  <2>5. ASSUME NEW k \in 1 .. Window
        PROVE  Append(rem, c)[k] = new[Len(new) - Window + k]
    <3>1. CASE k = Window
      <4>1. k = Len(rem) + 1 /\ Append(rem, c)[k] = c
        BY <1>1, <1>3, <2>2, <3>1
      <4>2. Len(new) - Window + k = Len(new)
        BY <1>1, <1>2, <3>1
      <4> QED
        BY <1>2, <4>1, <4>2
    <3>2. CASE k < Window
      <4>1. k \in 1 .. Len(rem) /\ k + 1 \in 1 .. Len(buf) /\ Append(rem, c)[k] = buf[k + 1]
        BY <1>1, <1>3, <2>2, <3>2
      <4>2. buf[k + 1] = obs[Len(obs) - Window + (k + 1)]
        BY <1>3, <4>1 DEF Tails
      <4> DEFINE j == Len(obs) - Window + (k + 1)
      <4>3. k \in Int /\ k >= 1 /\ k + 1 <= Window
        BY <1>1, <3>2
      <4>4. j \in 1 .. Len(obs)
        BY <1>1, <2>3, <4>3
      <4>5. Len(new) - Window + k = j
        BY <1>1, <1>2, <4>3
      <4>6. buf[k + 1] = obs[j]
        BY <4>2
      <4> HIDE DEF j
      <4>7. new[j] = obs[j]
        BY <1>2, <4>4
      <4>8. new[Len(new) - Window + k] = new[j]
        BY <4>5, Zenon
      <4>9. Append(rem, c)[k] = buf[k + 1]
        BY <4>1
      <4> QED
        BY <4>6, <4>7, <4>8, <4>9, Zenon
    <3>3. k = Window \/ k < Window
      BY <1>1
    <3> QED
      BY <3>1, <3>2, <3>3, Zenon
  <2> QED
    BY <2>4, <2>5 DEF Tails, rem, new
<1>4. CASE Len(buf) # Window
  <2>1. rem = buf /\ Len(buf) = Len(obs) /\ Len(obs) < Window
    BY <1>1, <1>4 DEF Remembered, Kept
  <2>2. \A k \in 1 .. Len(buf) : buf[k] = obs[k]
    <3>1. ASSUME NEW k \in 1 .. Len(buf) PROVE buf[k] = obs[k]
      <4>1. buf[k] = obs[Len(obs) - Len(buf) + k]
        BY DEF Tails
      <4> QED
        BY <1>1, <2>1, <4>1
    <3> QED
      BY <3>1
  <2> HIDE DEF rem, new
  <2>3. Len(Append(rem, c)) = Len(new) /\ Kept(Len(new)) = Len(new)
    BY <1>1, <1>2, <2>1 DEF Kept
  <2>4. ASSUME NEW k \in 1 .. Len(new) PROVE Append(rem, c)[k] = new[k]
    BY <1>1, <1>2, <2>1, <2>2
  <2>5. ASSUME NEW k \in 1 .. Len(new) PROVE Len(new) - Len(new) + k = k
    BY <1>1, <1>2
  <2> QED
    BY <2>3, <2>4, <2>5 DEF Tails, rem, new
<1> QED
  BY <1>3, <1>4

LEMMA CountInTail ==
  ASSUME NEW buf \in Seq(Bash), NEW obs \in Seq(Bash), Tails(buf, obs), obs # <<>>
  PROVE  Repeats(obs[Len(obs)], buf) =
           Cardinality({k \in Recent(Len(obs)) : Canonical[obs[k]] = Canonical[obs[Len(obs)]]})
<1> DEFINE n == Len(obs)
           m == Len(buf)
           A == {i \in DOMAIN buf : Canonical[buf[i]] = Canonical[obs[n]]}
           B == {k \in Recent(n) : Canonical[obs[k]] = Canonical[obs[n]]}
           f == [i \in A |-> n - m + i]
<1>1. n \in Nat /\ m \in Nat /\ Window \in Nat /\ m = Kept(n) /\ DOMAIN buf = 1 .. m
  BY StagnationAssumption DEF Tails
<1>2. \A i \in 1 .. m : buf[i] = obs[n - m + i]
  BY DEF Tails
<1> HIDE DEF n, m
<1>3. \A i \in 1 .. m : n - m + i \in Recent(n)
  BY <1>1 DEF Recent, Kept
<1>4. \A k \in Recent(n) : k - (n - m) \in 1 .. m /\ n - m + (k - (n - m)) = k /\ k \in Nat
  BY <1>1 DEF Recent, Kept
<1>5. f \in [A -> B]
  <2>1. ASSUME NEW i \in A PROVE n - m + i \in B
    <3>1. i \in 1 .. m /\ Canonical[buf[i]] = Canonical[obs[n]]
      BY <1>1
    <3> QED
      BY <1>2, <1>3, <3>1
  <2> QED
    BY <2>1
<1>6. IsInjective(f)
  <2>1. ASSUME NEW a \in A, NEW b \in A, n - m + a = n - m + b PROVE a = b
    BY <1>1, <2>1
  <2> QED
    BY <2>1 DEF IsInjective
<1>7. ASSUME NEW k \in B PROVE \E i \in A : f[i] = k
  <2>1. k - (n - m) \in A
    <3>1. k \in Recent(n) /\ Canonical[obs[k]] = Canonical[obs[n]]
      OBVIOUS
    <3>2. k - (n - m) \in 1 .. m /\ buf[k - (n - m)] = obs[k]
      BY <1>2, <1>4, <3>1
    <3> QED
      BY <1>1, <3>1, <3>2
  <2> QED
    BY <1>4, <2>1
<1>8. f \in Bijection(A, B)
  BY <1>5, <1>6, <1>7 DEF Bijection, Injection, Surjection
<1>9. IsFiniteSet(A)
  <2>1. IsFiniteSet(1 .. m)
    BY <1>1, FS_Interval
  <2>2. A \in SUBSET (1 .. m)
    BY <1>1
  <2> HIDE DEF A
  <2> QED
    BY <2>1, <2>2, FS_Subset
<1>10. Cardinality(B) = Cardinality(A)
  BY <1>8, <1>9, FS_Bijection DEF ExistsBijection
<1> QED
  BY <1>10 DEF Repeats, n, m

Running == {"top"} \cup Awaits
Detected ==
  /\ Tails(buffer, observed)
  /\ at \in Running => \A i \in DOMAIN observed : ~StagnantAt(i)
  /\ exit = "agent_stagnation" => StagnantAt(Len(observed))

(* No other step than the one behind a command touches the detector.       *)
Aside ==
  /\ UNCHANGED <<buffer, observed>>
  /\ exit' = "agent_stagnation" => exit = "agent_stagnation"
  /\ at' \in Running => at \in Running

LEMMA AsideSteps == ASSUME IInv, [Next]_vars PROVE Post \/ Crash \/ Aside
<1> USE DEF Running, Awaits, memoryVars
<1>1. ASSUME NEW reason, Terminate(reason), reason # "agent_stagnation" PROVE Aside
  BY <1>1 DEF Terminate, Return, Aside
<1>2. CASE Top
  <2>1. CASE \E r \in {"cancelled", "history_compaction_failed"} : Terminate(r)
    BY <1>1, <2>1
  <2>2. CASE LimitExit # "none" /\ Terminate(LimitExit)
    BY <1>1, <2>2, MoneyType DEF LimitExit
  <2>3. CASE at' = "query" /\ UNCHANGED <<memoryVars, exit>>
    BY <1>2, <2>3 DEF Aside, Top
  <2> QED
    BY <1>2, <2>1, <2>2, <2>3 DEF Top
<1>3. CASE Query
  <2>1. CASE QueryFails
    BY <1>1, <2>1 DEF QueryFails
  <2>2. CASE NextCandidate
    BY <2>2 DEF NextCandidate, Aside
  <2>3. CASE Answer
    <3>1. at = "query" /\ UNCHANGED memoryVars
      BY <2>3 DEF Answer
    <3>2. exit' # "agent_stagnation" \/ UNCHANGED exit
      <4>1. ParseExit(cost') # "agent_stagnation"
        BY MoneyType DEF ParseExit
      <4> QED
        BY <2>3, <4>1 DEF Answer, AnswerCancelled, Submit, Unactionable, Propose, Return, Continue
    <3> QED
      BY <3>1, <3>2 DEF Aside
  <2> QED
    BY <1>3, <2>1, <2>2, <2>3 DEF Query
<1>4. CASE Hooks
  <2>1. CASE Terminate(IF cancelled THEN "cancelled" ELSE "env")
    BY <1>1, <2>1
  <2>2. CASE UNCHANGED <<memoryVars, exit>>
    BY <1>4, <2>2 DEF Hooks, Aside
  <2> QED
    BY <1>4, <2>1, <2>2 DEF Hooks, Continue
<1>5. CASE Decide
  <2>1. at = "confirm" /\ UNCHANGED <<buffer, observed>>
    BY <1>5 DEF Decide
  <2>2. UNCHANGED exit
    BY <1>5 DEF Decide, ByRule, Approve, AutoApprove, Reject, Edit, Go, Continue
  <2> QED
    BY <2>1, <2>2 DEF Aside
<1>6. CASE Run
  <2>1. CASE Terminate(IF command \in Bash THEN "env" ELSE "internal")
    BY <1>1, <2>1
  <2> QED
    BY <1>6, <2>1 DEF Run, Aside
<1>7. CASE CancelQuery \/ Abort \/ Wallclock
  BY <1>1, <1>7 DEF CancelQuery, Abort, Wallclock
<1>8. CASE Finish \/ Cancel \/ UNCHANGED vars
  BY <1>8 DEF Finish, Cancel, vars, Aside
<1> QED
  BY <1>2, <1>3, <1>4, <1>5, <1>6, <1>7, <1>8 DEF Next, Loop, Operator, Over

LEMMA DetectedPost == ASSUME IInv, Detected, Post PROVE Detected'
<1>0. buffer \in Seq(Bash) /\ observed \in Seq(Bash) /\ exit = "none" /\ at = "post"
        /\ \A i \in DOMAIN observed : ~StagnantAt(i)
  BY DEF IInv, TypeOK, Paid, Detected, Running, Awaits, Post
<1>1. CASE UNCHANGED <<buffer, observed>> /\ exit' # "agent_stagnation"
  BY <1>0, <1>1 DEF Detected, Tails, StagnantAt, Recent
<1>2. CASE /\ command \in Bash
           /\ buffer' = Append(Remembered(buffer), command)
           /\ observed' = Append(observed, command)
           /\ IF Tripped THEN Return("agent_stagnation") ELSE Continue
  <2>1. Tails(buffer', observed') /\ buffer' \in Seq(Bash) /\ observed' \in Seq(Bash)
    BY <1>0, <1>2, TailsAppend, RememberedType DEF Detected
  <2>2. /\ observed' # <<>> /\ Len(observed') = Len(observed) + 1 /\ Len(observed) \in Nat
        /\ observed'[Len(observed')] = command
        /\ \A k \in 1 .. Len(observed) : observed'[k] = observed[k]
        /\ DOMAIN observed' = 1 .. Len(observed') /\ DOMAIN observed = 1 .. Len(observed)
    BY <1>0, <1>2
  <2>3. Tripped <=> StagnantAt(Len(observed))'
    <3>1. Repeats(observed'[Len(observed')], buffer')
            = Cardinality({k \in Recent(Len(observed')) :
                             Canonical[observed'[k]] = Canonical[observed'[Len(observed')]]})
      BY <2>1, <2>2, CountInTail
    <3>2. Recent(Len(observed))' = Recent(Len(observed'))
      BY DEF Recent
    <3> QED
      BY <1>2, <2>2, <3>1, <3>2 DEF Tripped, StagnantAt
  <2>4. ASSUME NEW i \in 1 .. Len(observed) PROVE StagnantAt(i)' <=> StagnantAt(i)
    <3>1. \A k \in Recent(i) : observed'[k] = observed[k]
      BY <2>2 DEF Recent
    <3>2. observed'[i] = observed[i]
      BY <2>2
    <3>3. {k \in Recent(i) : Canonical[observed'[k]] = Canonical[observed'[i]]}
            = {k \in Recent(i) : Canonical[observed[k]] = Canonical[observed[i]]}
      BY <3>1, <3>2
    <3> QED
      BY <3>3 DEF StagnantAt, Recent
  <2>5. CASE Tripped
    BY <1>2, <2>1, <2>3, <2>5 DEF Detected, Return, Running, Awaits
  <2>6. CASE ~Tripped
    <3>1. \A i \in 1 .. Len(observed') : i \in 1 .. Len(observed) \/ i = Len(observed')
      BY <2>2
    <3>2. ASSUME NEW i \in DOMAIN observed' PROVE ~(StagnantAt(i)')
      BY <1>0, <2>2, <2>3, <2>4, <2>6, <3>1
    <3>3. exit' = "none"
      BY <1>0, <1>2, <2>6 DEF Continue
    <3> QED
      BY <2>1, <3>2, <3>3 DEF Detected
  <2> QED
    BY <2>5, <2>6
<1> QED
  BY <1>0, <1>1, <1>2 DEF Post, Observe, Return, Continue, Tripped

LEMMA DetectedStep == IInv /\ Detected /\ [Next]_vars => Detected'
<1> SUFFICES ASSUME IInv, Detected, [Next]_vars PROVE Detected'
  OBVIOUS
<1>1. CASE Aside
  BY <1>1 DEF Aside, Detected, Tails, StagnantAt, Recent
<1>2. CASE Crash
  <2>1. buffer' = <<>> /\ observed' = <<>> /\ exit' = "none"
    BY <1>2 DEF Crash
  <2>2. Tails(<<>>, <<>>)
    BY StagnationAssumption DEF Tails, Kept
  <2> QED
    BY <2>1, <2>2 DEF Detected
<1> QED
  BY <1>1, <1>2, AsideSteps, DetectedPost

(* The run is called stagnant exactly when one of the last Window commands *)
(* has come Threshold times (StagnationDetector::observe,                  *)
(* src/stagnation.rs), for every window and threshold.                     *)
THEOREM StagnationIsExact == Spec => []StagnationExact
<1>1. Init => Detected
  <2>1. Tails(<<>>, <<>>)
    BY StagnationAssumption DEF Tails, Kept
  <2> QED
    BY <2>1 DEF Init, Detected
<1>2. Detected => StagnationExact
  BY DEF Detected, StagnationExact, Running
<1> QED
  BY <1>1, <1>2, DetectedStep, Invariant, PTL DEF Spec
=============================================================================
