---------------------------- MODULE RunOneProofs ----------------------------
(***************************************************************************)
(* Proofs about module RunOne, for every retry policy, every step limit    *)
(* and any number of sweeps, failed writes and refused turns.  Staged says *)
(* where the worker may stand with what it has in hand; Sound, what a      *)
(* trajectory on disk and the one in memory may claim; Funded, that the    *)
(* starts, interruptions and failures pay for all turns, those of the      *)
(* checkpoint on disk included; Charged, that nothing is charged twice;    *)
(* Exact, that in an undisturbed slot everything is charged.               *)
(***************************************************************************)
EXTENDS RunOne, TLAPS

Underway == {"agent", "turned"}
Capturing == {"capture", "validate"}
Keeping == {"saving", "writing"}
Ready == {"top", "gate", "setup"}

(* The checkpoint the attempt will continue.                               *)
Continuing == at \in Ready /\ resume_from # NoInfo /\ (at = "top" => attempts = 0)

Staged ==
  /\ at \notin Keeping \cup {"done"} => row = NoRow
  /\ at = "down" => attempts = 0 /\ total_cost = 0 /\ executed = 0
  /\ at # "down" => sweeps > 0
  /\ at \notin {"down", "top", "done"} => attempts > 0
  /\ at \in {"top", "backoff"} => attempts <= MaxRetries
  /\ at = "writing" => traj.state = "torn" /\ fresh
  /\ at \in {"gate", "setup"} => ~fresh
  /\ Continuing => total_cost = 0
  /\ sweeps = 0 => traj.state = "none" /\ spent = 0

(* A checkpoint claims nothing, and neither does an agent underway.        *)
Modest ==
  /\ (traj.state = "ok" /\ traj.info.partial) =>
       traj.info.exit \in {"none", "cancelled"} /\ traj.info.outcome \in {"none", "error"}
  /\ resume_from.exit \in {"none", "cancelled"} /\ resume_from.outcome \in {"none", "error"}
  /\ at \in Underway =>
       /\ ~agent.partial
       /\ agent.exit \in {"none", "cancelled"} /\ agent.outcome \in {"none", "error"}

(* What is about to be saved: a submission has its patch, and a worker that*)
(* leaves cancelled saves a cancelled trajectory.                          *)
Claims == /\ agent.outcome = "submitted" /\ agent.exit = "submitted"
          /\ agent.cat = NoCat /\ ~agent.partial
HasPatch == patch.present /\ patch.gen = agent.gen
Saying ==
  /\ at \in Capturing => Claims
  /\ at = "validate" => HasPatch
  /\ (at \in Keeping /\ agent.outcome = "submitted") => Claims /\ HasPatch /\ patch.good
  /\ (at \in Keeping /\ row = NoRow) => ~agent.partial
  /\ (at \in Keeping /\ row # NoRow) =>
       /\ row.exit = "cancelled" /\ row.outcome = "error"
       /\ agent.exit = "cancelled" /\ agent.outcome = "error"

(* What is saved.  A submission on disk is at rest: its attempt reports it,*)
(* and the next scan archives it.                                          *)
Genuine ==
  (traj.state = "ok" /\ traj.info.outcome = "submitted") =>
    /\ ~traj.info.partial /\ traj.info.exit = "submitted" /\ traj.info.cat = NoCat
    /\ patch.present /\ patch.good /\ patch.gen = traj.info.gen
    /\ at \in {"down", "report", "done"}
    /\ at = "report" => fresh

(* What is reported.                                                       *)
Honest ==
  at = "done" =>
    /\ row # NoRow
    /\ row.outcome = "submitted" => Submitted
    /\ (row.exit = "cancelled" /\ failures = 0) =>
         traj.state = "ok" /\ traj.info.exit = "cancelled"

Sound == Modest /\ Saying /\ Genuine /\ Honest

IInv == TypeOK /\ Staged /\ Sound

----------------------------------------------------------------------------
(* What the records of the model are.                                      *)

LEMMA Records ==
  /\ \A g \in Nat : NewInfo(g) \in Info
  /\ NoInfo \in Info /\ NoRow \in Row
  /\ "error" \in Exits /\ "limit" \in Exits /\ "submitted" \in Exits /\ "cancelled" \in Exits
  BY CatsAssumption DEF NewInfo, NoInfo, NoRow, Info, Row, Exits

LEMMA Finals ==
  ASSUME NEW i \in Info
  PROVE  /\ FinalCancelled(i) \in Info
         /\ FinalCancelled(i).exit = "cancelled" /\ FinalCancelled(i).outcome = "error"
         /\ FinalCancelled(i).cost = i.cost /\ FinalCancelled(i).gen = i.gen
         /\ FinalCancelled(i).partial = i.partial
  BY DEF FinalCancelled, Info, Exits

LEMMA Errors ==
  ASSUME agent \in Info, NEW exit \in Exits, NEW cat \in Cats \cup {NoCat}
  PROVE  /\ FinalError(exit, cat) \in Info
         /\ FinalError(exit, cat).exit = exit /\ FinalError(exit, cat).outcome = "error"
         /\ FinalError(exit, cat).cost = agent.cost /\ FinalError(exit, cat).gen = agent.gen
         /\ FinalError(exit, cat).partial = agent.partial
  BY DEF FinalError, Info, Exits

(* The agent of a new attempt has the cost of the checkpoint, if any.      *)
LEMMA Beginning ==
  ASSUME TypeOK, last_gen' = last_gen + 1
  PROVE  /\ Continued \in Info
         /\ ~Continued.partial
         /\ Continued.exit = resume_from.exit /\ Continued.outcome = resume_from.outcome
         /\ Continued.cost = resume_from.cost
<1>1. resume_from \in Info /\ last_gen' \in Nat
  BY DEF TypeOK, TypeWorker, TypeHistory
<1>2. CASE resume_from = NoInfo
  BY <1>1, <1>2 DEF Continued, NewInfo, NoInfo, Info, Exits
<1>3. CASE resume_from # NoInfo
  BY <1>1, <1>3 DEF Continued, Info, Exits
<1> QED
  BY <1>2, <1>3

(* The ways the agent loop ends: with a submission to capture, or with     *)
(* something to save.                                                      *)
End == Submit \/ Limit \/ AgentCancelled \/ \E cat \in Cats : Fail(cat) \/ Stop(cat)

LEMMA Ending ==
  ASSUME TypeOK, Modest, End
  PROVE  /\ at \in Underway
         /\ UNCHANGED <<cancelled, loopVars, fresh, row, diskVars, failures, histVars>>
         /\ agent' \in Info /\ run_err' \in Cats \cup {NoCat}
         /\ agent'.cost = agent.cost /\ agent'.partial = agent.partial
         /\ \/ /\ at' = "capture"
               /\ agent'.exit = "submitted" /\ agent'.outcome = "submitted" /\ agent'.cat = NoCat
            \/ at' = "saving" /\ agent'.outcome # "submitted"
<1>0. agent \in Info
  BY DEF TypeOK, TypeRun
<1>u. at \in Underway /\ agent.exit \in {"none", "cancelled"} /\ agent.outcome \in {"none", "error"}
  BY DEF End, Submit, Limit, AgentCancelled, Fail, Stop, Modest, Underway
<1>1. ASSUME NEW info \in Info, NEW err \in Cats \cup {NoCat}, Ended(info, err),
             info.cost = agent.cost, info.partial = agent.partial,
             \/ info.exit = "submitted" /\ info.outcome = "submitted" /\ info.cat = NoCat
             \/ info.exit # "submitted" /\ (~cancelled => info.outcome # "submitted")
      PROVE  /\ UNCHANGED <<cancelled, loopVars, fresh, row, diskVars, failures, histVars>>
             /\ agent' \in Info /\ run_err' \in Cats \cup {NoCat}
             /\ agent'.cost = agent.cost /\ agent'.partial = agent.partial
             /\ \/ /\ at' = "capture"
                   /\ agent'.exit = "submitted" /\ agent'.outcome = "submitted"
                   /\ agent'.cat = NoCat
                \/ at' = "saving" /\ agent'.outcome # "submitted"
  <2>1. CASE cancelled
    <3>1. agent' = FinalCancelled(agent) /\ run_err' = NoCat /\ at' = "saving"
      BY <1>1, <2>1 DEF Ended
    <3> QED
      BY <1>0, <1>1, <3>1, Finals DEF Ended
  <2>2. CASE ~cancelled
    BY <1>1, <2>2 DEF Ended
  <2> QED
    BY <2>1, <2>2
<1>2. CASE Submit
  <2> DEFINE info == [agent EXCEPT !.exit = "submitted", !.outcome = "submitted", !.cat = NoCat]
  <2>1. /\ info \in Info /\ info.cost = agent.cost /\ info.partial = agent.partial
        /\ info.exit = "submitted" /\ info.outcome = "submitted" /\ info.cat = NoCat
    BY <1>0 DEF Info, Exits
  <2>2. at \in Underway /\ Ended(info, NoCat)
    BY <1>2 DEF Submit, Underway
  <2> HIDE DEF info
  <2> QED
    BY <1>1, <2>1, <2>2
<1>3. CASE Limit
  <2> DEFINE info == [agent EXCEPT !.exit = "limit", !.outcome = "limit", !.cat = StepLimitCat]
  <2>1. /\ info \in Info /\ info.cost = agent.cost /\ info.partial = agent.partial
        /\ info.exit = "limit" /\ info.outcome = "limit"
    BY <1>0, CatsAssumption DEF Info, Exits
  <2>2. at \in Underway /\ Ended(info, NoCat)
    BY <1>3 DEF Limit, Underway
  <2> HIDE DEF info
  <2> QED
    BY <1>1, <2>1, <2>2
<1>4. CASE AgentCancelled
  <2>1. at \in Underway /\ Ended(agent, NoCat)
    BY <1>4 DEF AgentCancelled, Underway
  <2>2. agent.exit # "submitted" /\ (~cancelled => agent.outcome # "submitted")
    BY <1>u
  <2> QED
    BY <1>0, <1>1, <2>1, <2>2
<1>5. ASSUME NEW exit \in Exits \ {"submitted"}, NEW cat \in Cats, NEW err \in Cats,
             at \in Underway, Ended(FinalError(exit, cat), err)
      PROVE  /\ at \in Underway
             /\ UNCHANGED <<cancelled, loopVars, fresh, row, diskVars, failures, histVars>>
             /\ agent' \in Info /\ run_err' \in Cats \cup {NoCat}
             /\ agent'.cost = agent.cost /\ agent'.partial = agent.partial
             /\ at' = "saving" /\ agent'.outcome # "submitted"
  <2>1. /\ FinalError(exit, cat) \in Info
        /\ FinalError(exit, cat).exit # "submitted" /\ FinalError(exit, cat).outcome = "error"
        /\ FinalError(exit, cat).cost = agent.cost /\ FinalError(exit, cat).partial = agent.partial
    BY <1>0, Errors
  <2>2. CASE cancelled
    <3>1. agent' = FinalCancelled(agent) /\ run_err' = NoCat /\ at' = "saving"
      BY <1>5, <2>2 DEF Ended
    <3> QED
      BY <1>0, <1>5, <3>1, Finals DEF Ended
  <2>3. CASE ~cancelled
    BY <1>5, <2>1, <2>3 DEF Ended
  <2> QED
    BY <2>2, <2>3
<1>6. ASSUME NEW cat \in Cats, Fail(cat) \/ Stop(cat)
      PROVE  \E exit \in Exits \ {"submitted"}, c, err \in Cats :
               at \in Underway /\ Ended(FinalError(exit, c), err)
  <2>1. CASE Fail(cat)
    <3> DEFINE exit == IF agent.exit = "none" THEN "error" ELSE agent.exit
               c == IF agent.cat = NoCat THEN cat ELSE agent.cat
    <3>1. exit \in Exits \ {"submitted"} /\ c \in Cats
      BY <1>0, <1>u DEF Info, Exits
    <3> QED
      BY <2>1, <3>1 DEF Fail, Underway
  <2>2. CASE Stop(cat)
    BY <2>2 DEF Stop, Underway, Exits
  <2> QED
    BY <1>6, <2>1, <2>2
<1> QED
  BY <1>2, <1>3, <1>4, <1>5, <1>6 DEF End

(* What a worker that is cancelled outside a run leaves behind.            *)
LEMMA Goodbye ==
  ASSUME TypeOK, NEW current \in Row, current.cost \in Nat, LeaveCancelled(current)
  PROVE  /\ agent' \in Info /\ row' \in Row /\ at' = "saving"
         /\ agent'.exit = "cancelled" /\ agent'.outcome = "error"
         /\ row'.exit = "cancelled" /\ row'.outcome = "error" /\ row' # NoRow
         /\ row'.cost = current.cost /\ row'.attempts = attempts
         /\ \/ /\ traj.state = "ok"
               /\ agent'.cost = traj.info.cost /\ agent'.partial = traj.info.partial
            \/ agent'.cost = 0 /\ ~agent'.partial
<1> DEFINE i == IF traj.state = "ok" THEN traj.info ELSE NoInfo
<1>1. i \in Info /\ (traj.state = "ok" => i = traj.info) /\ (traj.state # "ok" => i = NoInfo)
  BY Records DEF TypeOK, TypeDisk
<1>2. agent' = [i EXCEPT !.exit = "cancelled", !.outcome = "error", !.cat = NoCat]
  BY DEF LeaveCancelled
<1>3. NoInfo.cost = 0 /\ ~NoInfo.partial
  BY DEF NoInfo, NewInfo
<1> HIDE DEF i
<1>4. /\ agent' \in Info /\ agent'.exit = "cancelled" /\ agent'.outcome = "error"
      /\ agent'.cost = i.cost /\ agent'.partial = i.partial
  BY <1>1, <1>2 DEF Info, Exits
<1>5. attempts \in Nat /\ retry_reasons \in Seq(Cats)
  BY CatsAssumption, PolicyAssumption DEF TypeOK, TypeWorker
<1>6. /\ row' \in Row /\ row'.exit = "cancelled" /\ row'.outcome = "error"
      /\ row'.cost = current.cost /\ row'.attempts = attempts
  BY <1>5 DEF LeaveCancelled, Row, Exits
<1>7. row' # NoRow
  BY <1>6 DEF NoRow
<1> QED
  BY <1>1, <1>3, <1>4, <1>6, <1>7 DEF LeaveCancelled

(* What is reported is a row.                                              *)
LEMMA Reporting ==
  ASSUME TypeOK
  PROVE  /\ ReportedCost \in Nat /\ Current \in Row
         /\ ReportedOutcome \in Exits \ {"cancelled"} /\ ReportedExit \in Exits
         /\ ReportedCat \in Cats \cup {NoCat}
<1>1. traj.info \in Info /\ total_cost \in Nat /\ attempts \in Nat /\ retry_reasons \in Seq(Cats)
  BY CatsAssumption, PolicyAssumption DEF TypeOK, TypeWorker, TypeDisk
<1>2. traj.info.cost \in Nat /\ traj.info.exit \in Exits /\ traj.info.outcome \in Exits \ {"cancelled"}
  BY <1>1 DEF Info
<1>3. ReportedCost \in Nat
  BY <1>1, <1>2 DEF ReportedCost
<1>4. ReportedOutcome \in Exits \ {"cancelled"} /\ ReportedExit \in Exits
  BY <1>2 DEF ReportedOutcome, ReportedExit, Exits
<1>5. ReportedCat \in Cats \cup {NoCat}
  BY <1>1, CatsAssumption DEF ReportedCat, TypeOK, TypeRun, Info
<1> QED
  BY <1>1, <1>3, <1>4, <1>5 DEF Current, Row

----------------------------------------------------------------------------
(* Types                                                                   *)

LEMMA TypeInit == Init => IInv
<1> SUFFICES ASSUME Init PROVE IInv
  OBVIOUS
<1>1. 0 \in 0 .. MaxRetries + 1 /\ 0 \in 0 .. MaxSweeps /\ 0 \in 0 .. MaxFailures
      /\ 0 \in 0 .. MaxRefusals
  BY PolicyAssumption, BoundAssumption
<1>2. TypeWorker
  <2>1. retry_reasons \in Seq(RetryOn)
    BY DEF Init
  <2> QED
    BY <1>1, <2>1, Records DEF Init, TypeWorker, Places
<1>5. TypeRun
  BY Records DEF Init, TypeRun
<1>3. TypeDisk /\ TypeHistory
  BY <1>1, Records DEF Init, TypeDisk, TypeHistory, File
<1>4. Staged
  BY DEF Init, Staged, Continuing, Ready, Keeping, File
<1>6. Sound
  BY DEF Init, Sound, Modest, Saying, Genuine, Honest, Underway, Capturing, Keeping, NoInfo, NewInfo,
         File
<1> QED
  BY <1>2, <1>3, <1>4, <1>5, <1>6 DEF IInv, TypeOK

LEMMA StagedStep ==
  ASSUME IInv, [Next]_vars
  PROVE  Staged'
<1> USE DEF Ready, Keeping
<1>0. /\ TypeOK /\ Modest /\ Staged /\ attempts \in Nat /\ sweeps \in Nat /\ MaxRetries \in Nat
      /\ total_cost \in Nat /\ failures \in Nat
  BY PolicyAssumption, BoundAssumption DEF IInv, TypeOK, TypeWorker, TypeHistory, Sound
<1>1. CASE Scan
  BY <1>0, <1>1, PolicyAssumption DEF Scan, Staged, Continuing, diskVars, Archived, Resumable
<1>2. CASE Exit
  BY <1>0, <1>2 DEF Exit, Staged, Continuing, diskVars
<1>3. CASE Cancel \/ Granted \/ UNCHANGED vars \/ Over
  BY <1>0, <1>3 DEF Cancel, Granted, Over, vars, Staged, Continuing, diskVars, loopVars, histVars
<1>4. CASE Top
  BY <1>0, <1>4 DEF Top, Staged, Continuing, diskVars, loopVars, histVars
<1>5. CASE GateCancelled \/ BackoffCancelled
  <2>1. at' = "saving" /\ UNCHANGED <<loopVars, diskVars, histVars>> /\ at \in {"gate", "backoff"}
    BY <1>5 DEF GateCancelled, BackoffCancelled, LeaveCancelled
  <2> QED
    BY <1>0, <2>1 DEF Staged, Continuing, diskVars, loopVars, histVars
<1>6. CASE Setup
  BY <1>0, <1>6 DEF Setup, Staged, Continuing, diskVars, loopVars, histVars
<1>7. CASE Turn \/ Checkpoint \/ Refuse
  BY <1>0, <1>7 DEF Turn, Checkpoint, Refuse, Staged, Continuing, diskVars, loopVars, histVars
<1>8. CASE End
  <2>1. /\ at' \in {"capture", "saving"} /\ at \in Underway
        /\ UNCHANGED <<loopVars, row, diskVars, histVars>>
    BY <1>0, <1>8, Ending
  <2> QED
    BY <1>0, <2>1 DEF Staged, Continuing, Underway, diskVars, loopVars, histVars
<1>9. CASE CaptureCancelled \/ CaptureFails \/ CaptureLeak \/ Capture \/ PatchWriteFails \/ Validate
  <2>1. /\ at' \in {"saving", "validate", "report"} /\ at \in Capturing
        /\ UNCHANGED <<loopVars, row, traj, histVars>>
    BY <1>9 DEF CaptureCancelled, CaptureFails, CaptureLeak, Capture, CapturePatch,
                PatchWriteFails, Validate, Capturing, diskVars
  <2> QED
    BY <1>0, <2>1 DEF Staged, Continuing, Capturing, loopVars, histVars
<1>10. CASE Truncate
  BY <1>0, <1>10 DEF Truncate, Staged, Continuing, File, loopVars, histVars
<1>11. CASE Written \/ SaveFails
  <2>1. /\ at' = (IF row = NoRow THEN "report" ELSE "done") /\ at \in Keeping
        /\ UNCHANGED <<loopVars, row, histVars>>
    BY <1>11 DEF Written, SaveFails, AfterSave
  <2> QED
    BY <1>0, <2>1 DEF Staged, Continuing, loopVars, histVars
<1>12. CASE Report
  BY <1>0, <1>12 DEF Report, ShouldRetry, Staged, Continuing, diskVars, histVars
<1>13. CASE Backoff
  BY <1>0, <1>13 DEF Backoff, Staged, Continuing, diskVars, loopVars, histVars
<1> QED
  BY <1>1, <1>2, <1>3, <1>4, <1>5, <1>6, <1>7, <1>8, <1>9, <1>10, <1>11, <1>12, <1>13
     DEF Next, Work, End

LEMMA TypeStep ==
  ASSUME IInv, [Next]_vars
  PROVE  TypeOK'
<1>0. /\ TypeOK /\ Modest /\ TypeWorker /\ TypeRun /\ TypeDisk /\ TypeHistory /\ Staged
      /\ attempts \in Nat /\ sweeps \in Nat /\ total_cost \in Nat /\ failures \in Nat /\ refused \in Nat
      /\ agent \in Info /\ traj.info \in Info /\ resume_from \in Info /\ retry_reasons \in Seq(RetryOn)
      /\ MaxRetries \in Nat /\ MaxSweeps \in Nat /\ MaxFailures \in Nat /\ MaxRefusals \in Nat
  BY PolicyAssumption, BoundAssumption
     DEF IInv, TypeOK, TypeWorker, TypeRun, TypeDisk, TypeHistory, Sound
<1>h. failures < MaxFailures => failures + 1 \in 0 .. MaxFailures
  BY <1>0
<1>1. CASE Scan
  <2>1. SkipRow \in Row
    BY <1>0, Records DEF SkipRow, Row, Info, Exits
  <2>2. sweeps' \in 0 .. MaxSweeps /\ at' \in Places /\ row' \in Row /\ resume_from' \in Info
    BY <1>0, <1>1, <2>1, Records DEF Scan, Places, TypeRun
  <2> QED
    BY <1>0, <1>1, <2>2 DEF Scan, TypeOK, TypeWorker, TypeRun, TypeDisk, TypeHistory, diskVars
<1>2. CASE Exit
  <2>1. retry_reasons' \in Seq(RetryOn) /\ attempts' \in 0 .. MaxRetries + 1
    BY <1>0, <1>2 DEF Exit
  <2>2. TypeWorker' /\ TypeRun'
    BY <1>2, <2>1, Records DEF Exit, TypeWorker, TypeRun, Places
  <2>3. TypeDisk' /\ TypeHistory'
    BY <1>0, <1>2 DEF Exit, TypeDisk, TypeHistory, diskVars
  <2> QED
    BY <2>2, <2>3 DEF TypeOK
<1>3. CASE Cancel \/ Granted \/ UNCHANGED vars \/ Over \/ Backoff
  BY <1>0, <1>3 DEF Cancel, Granted, Over, Backoff, vars, diskVars, loopVars, histVars,
     TypeOK, TypeWorker, TypeRun, TypeDisk, TypeHistory, Places
<1>4. CASE Top
  <2>1. attempts' \in 0 .. MaxRetries + 1 /\ resume_from' \in Info /\ at' \in Places
    BY <1>0, <1>4, Records DEF Top, Staged, Places
  <2> QED
    BY <1>0, <1>4, <2>1 DEF Top, diskVars, histVars, TypeOK, TypeWorker, TypeRun, TypeDisk, TypeHistory
<1>5. CASE GateCancelled \/ BackoffCancelled
  <2>1. agent' \in Info /\ row' \in Row /\ at' = "saving"
    <3>1. NoRow \in Row /\ NoRow.cost \in Nat
      BY Records DEF NoRow
    <3>2. [NoRow EXCEPT !.cost = total_cost] \in Row /\ [NoRow EXCEPT !.cost = total_cost].cost \in Nat
      BY <1>0, Records DEF NoRow, Row
    <3> QED
      BY <1>0, <1>5, <3>1, <3>2, Goodbye DEF GateCancelled, BackoffCancelled
  <2> QED
    BY <1>0, <1>5, <2>1 DEF GateCancelled, BackoffCancelled, diskVars, loopVars, histVars,
       TypeOK, TypeWorker, TypeRun, TypeDisk, TypeHistory, Places
<1>6. CASE Setup
  <2>1. agent' \in Info /\ last_gen' \in Nat
    <3>1. \/ last_gen' = last_gen + 1 /\ agent' = Continued
          \/ UNCHANGED <<agent, last_gen>>
      BY <1>6 DEF Setup
    <3> QED
      BY <1>0, <3>1, Beginning DEF TypeHistory
  <2>2. run_err' \in Cats \cup {NoCat} /\ starts' \in Nat /\ executed' \in Nat /\ at' \in Places
    BY <1>0, <1>6, CatsAssumption DEF Setup, TypeRun, TypeHistory, Places
  <2> QED
    BY <1>0, <1>6, <2>1, <2>2 DEF Setup, diskVars, loopVars,
       TypeOK, TypeWorker, TypeRun, TypeDisk, TypeHistory
<1>7. CASE Turn
  <2>1. agent' \in Info /\ spent' \in Nat
    <3>1. agent' = [agent EXCEPT !.cost = agent.cost + 1] /\ spent' = spent + 1
      BY <1>7 DEF Turn
    <3>2. agent.cost + 1 \in Nat
      BY <1>0 DEF Info
    <3>3. [agent EXCEPT !.cost = agent.cost + 1] \in Info
      BY <1>0, <3>2 DEF Info
    <3> QED
      BY <1>0, <3>1, <3>3 DEF TypeHistory
  <2> QED
    BY <1>0, <1>7, <2>1 DEF Turn, diskVars, loopVars,
       TypeOK, TypeWorker, TypeRun, TypeDisk, TypeHistory, Places
<1>8. CASE Checkpoint
  <2>1. traj' \in [state : {"none", "torn", "ok"}, info : Info] /\ fresh' \in BOOLEAN
        /\ failures' \in 0 .. MaxFailures
    <3> DEFINE i == [agent EXCEPT !.partial = TRUE]
    <3>1. i \in Info
      BY <1>0 DEF Info
    <3>2. File("ok", i) \in [state : {"none", "torn", "ok"}, info : Info]
      BY <3>1 DEF File
    <3>3. traj' = File("ok", i) \/ traj' = traj
      BY <1>8 DEF Checkpoint
    <3> HIDE DEF i
    <3>4. fresh' \in BOOLEAN /\ failures' \in 0 .. MaxFailures
      BY <1>0, <1>h, <1>8 DEF Checkpoint, TypeHistory, TypeRun
    <3> QED
      BY <1>0, <3>2, <3>3, <3>4 DEF TypeDisk
  <2> QED
    BY <1>0, <1>8, <2>1 DEF Checkpoint, loopVars, histVars,
       TypeOK, TypeWorker, TypeRun, TypeDisk, TypeHistory, Places
<1>9. CASE Refuse
  <2>1. refused' \in 0 .. MaxRefusals
    BY <1>0, <1>9 DEF Refuse
  <2> QED
    BY <1>0, <1>9, <2>1 DEF Refuse, diskVars, loopVars,
       TypeOK, TypeWorker, TypeRun, TypeDisk, TypeHistory, Places
<1>10. CASE End
  <2>1. /\ at' \in {"capture", "saving"} /\ agent' \in Info /\ run_err' \in Cats \cup {NoCat}
        /\ UNCHANGED <<cancelled, loopVars, fresh, row, diskVars, failures, histVars>>
    BY <1>0, <1>10, Ending
  <2> QED
    BY <1>0, <2>1 DEF diskVars, loopVars, histVars,
       TypeOK, TypeWorker, TypeRun, TypeDisk, TypeHistory, Places
<1>11. CASE CaptureCancelled \/ CaptureFails \/ CaptureLeak \/ Capture \/ PatchWriteFails \/ Validate
  <2>1. agent' \in Info
    <3>1. \/ agent' = agent \/ agent' = FinalCancelled(agent)
          \/ agent' = FinalError("error", EnvSetup) \/ agent' = FinalError("error", BadPatch)
      BY <1>11
         DEF CaptureCancelled, CaptureFails, CaptureLeak, Capture, PatchWriteFails, Validate,
             Validated
    <3>2. EnvSetup \in Cats /\ BadPatch \in Cats
      BY CatsAssumption
    <3>3. FinalError("error", EnvSetup) \in Info /\ FinalError("error", BadPatch) \in Info
      BY <1>0, <3>2, Errors, Records
    <3> QED
      BY <1>0, <3>1, <3>3, Finals
  <2>2. patch' \in [present : BOOLEAN, good : BOOLEAN, gen : Nat]
    <3>1. patch' = patch \/ \E good \in BOOLEAN : WritePatch(good)
      BY <1>11
         DEF CaptureCancelled, CaptureFails, CaptureLeak, Capture, PatchWriteFails, Validate,
             CapturePatch, diskVars
    <3>2. agent.gen \in Nat
      BY <1>0 DEF Info
    <3>3. ASSUME NEW good \in BOOLEAN, WritePatch(good)
          PROVE  patch' \in [present : BOOLEAN, good : BOOLEAN, gen : Nat]
      BY <3>2, <3>3 DEF WritePatch
    <3>4. patch \in [present : BOOLEAN, good : BOOLEAN, gen : Nat]
      BY <1>0 DEF TypeDisk
    <3> QED
      BY <3>1, <3>3, <3>4
  <2>3. failures' \in 0 .. MaxFailures /\ run_err' \in Cats \cup {NoCat} /\ at' \in Places
    BY <1>0, <1>h, <1>11, CatsAssumption
       DEF CaptureCancelled, CaptureFails, CaptureLeak, Capture, PatchWriteFails, Validate,
           CapturePatch, TypeHistory, TypeRun, Places
  <2>4. UNCHANGED <<cancelled, loopVars, fresh, row, traj, histVars>>
    BY <1>11 DEF CaptureCancelled, CaptureFails, CaptureLeak, Capture, PatchWriteFails, Validate,
           diskVars
  <2> QED
    BY <1>0, <2>1, <2>2, <2>3, <2>4 DEF loopVars, histVars,
       TypeOK, TypeWorker, TypeRun, TypeDisk, TypeHistory
<1>12. CASE Truncate \/ Written \/ SaveFails
  <2>1. traj' \in [state : {"none", "torn", "ok"}, info : Info]
    BY <1>0, <1>12, Records DEF Truncate, Written, SaveFails, File, TypeDisk, diskVars
  <2>2. failures' \in 0 .. MaxFailures /\ run_err' \in Cats \cup {NoCat} /\ at' \in Places
        /\ fresh' \in BOOLEAN
    BY <1>0, <1>h, <1>12, CatsAssumption
       DEF Truncate, Written, SaveFails, AfterSave, TypeHistory, TypeRun, Places
  <2>3. UNCHANGED <<cancelled, loopVars, agent, row, patch, histVars>>
    BY <1>12 DEF Truncate, Written, SaveFails, diskVars
  <2> QED
    BY <1>0, <2>1, <2>2, <2>3 DEF loopVars, histVars,
       TypeOK, TypeWorker, TypeRun, TypeDisk, TypeHistory
<1>13. CASE Report
  <2>1. /\ total_cost' \in Nat /\ row' \in Row /\ at' \in Places
        /\ retry_reasons' \in Seq(RetryOn)
    BY <1>0, <1>13, Reporting DEF Report, ShouldRetry, TypeRun, Places
  <2> QED
    BY <1>0, <1>13, <2>1 DEF Report, diskVars, histVars,
       TypeOK, TypeWorker, TypeRun, TypeDisk, TypeHistory
<1> QED
  BY <1>1, <1>2, <1>3, <1>4, <1>5, <1>6, <1>7, <1>8, <1>9, <1>10, <1>11, <1>12, <1>13
     DEF Next, Work, End

----------------------------------------------------------------------------
(* What is claimed                                                         *)

(* A report claims a submission, or a cancellation, only where the         *)
(* trajectory of this attempt does; a submission is never tried again.     *)
LEMMA Reported ==
  ASSUME TypeOK
  PROVE  /\ Current.outcome = ReportedOutcome /\ Current.exit = ReportedExit
         /\ Current # NoRow
         /\ ReportedOutcome = "submitted" => Seen /\ traj.info.outcome = "submitted"
         /\ ReportedExit = "cancelled" => Seen /\ traj.info.exit = "cancelled"
         /\ Seen /\ traj.info.outcome = "submitted" => ReportedCat = NoCat /\ ~ShouldRetry
<1>1. Current.outcome = ReportedOutcome /\ Current.exit = ReportedExit
  BY DEF Current
<1>2. ReportedOutcome = "submitted" => Seen /\ traj.info.outcome = "submitted"
  BY DEF ReportedOutcome
<1>3. ReportedOutcome # "cancelled" /\ ReportedOutcome # "none"
  BY DEF ReportedOutcome, TypeOK, TypeDisk, Info
<1>4. ReportedExit = "cancelled" => Seen /\ traj.info.exit = "cancelled"
  BY <1>3 DEF ReportedExit
<1>5. ReportedExit # "none"
  BY <1>3 DEF ReportedExit
<1>6. Current # NoRow
  BY <1>1, <1>5 DEF NoRow
<1>7. Seen /\ traj.info.outcome = "submitted" => ReportedCat = NoCat /\ ~ShouldRetry
  BY CatsAssumption DEF ReportedCat, ReportedOutcome, ShouldRetry
<1> QED
  BY <1>1, <1>2, <1>4, <1>6, <1>7

LEMMA Types ==
  ASSUME IInv
  PROVE  /\ TypeOK /\ Staged /\ Modest /\ Saying /\ Genuine /\ Honest
         /\ agent \in Info /\ traj.info \in Info /\ resume_from \in Info /\ row \in Row
         /\ failures \in Nat /\ attempts \in Nat
  BY PolicyAssumption, BoundAssumption
     DEF IInv, Sound, TypeOK, TypeWorker, TypeRun, TypeDisk, TypeHistory

LEMMA ModestStep ==
  ASSUME IInv, [Next]_vars
  PROVE  Modest'
<1> USE DEF Underway
<1>0. TypeOK /\ Staged /\ Modest /\ Saying /\ agent \in Info /\ traj.info \in Info
  BY Types
<1>1. CASE Scan
  <2>1. resume_from'.exit \in {"none", "cancelled"} /\ resume_from'.outcome \in {"none", "error"}
    BY <1>0, <1>1 DEF Scan, Modest, Resumable, NoInfo, NewInfo
  <2> QED
    BY <1>0, <1>1, <2>1 DEF Scan, Modest, diskVars
<1>2. CASE Exit \/ Top
  <2>1. resume_from'.exit \in {"none", "cancelled"} /\ resume_from'.outcome \in {"none", "error"}
    BY <1>0, <1>2 DEF Exit, Top, Modest, NoInfo, NewInfo
  <2>2. traj' = traj /\ at' \notin Underway
    BY <1>2 DEF Exit, Top, diskVars
  <2> QED
    BY <1>0, <2>1, <2>2 DEF Modest
<1>3. ASSUME UNCHANGED <<traj, resume_from>>, at' \notin Underway
      PROVE  Modest'
  BY <1>0, <1>3 DEF Modest
<1>4. ASSUME UNCHANGED <<at, traj, resume_from, agent>> PROVE Modest'
  BY <1>0, <1>4 DEF Modest
<1>5. CASE Cancel \/ UNCHANGED vars \/ Over
  BY <1>4, <1>5 DEF Cancel, Over, vars, diskVars, loopVars
<1>6. CASE Granted \/ GateCancelled \/ BackoffCancelled \/ Report \/ Backoff
  BY <1>3, <1>6 DEF Granted, GateCancelled, BackoffCancelled, LeaveCancelled, Report, Backoff,
                    diskVars, loopVars
<1>7. CASE Setup
  <2>1. UNCHANGED <<traj, resume_from>>
    BY <1>7 DEF Setup, diskVars, loopVars
  <2>2. CASE at' \in Underway
    <3>1. last_gen' = last_gen + 1 /\ agent' = Continued
      BY <1>7, <2>2 DEF Setup
    <3>2. /\ ~agent'.partial
          /\ agent'.exit = resume_from.exit /\ agent'.outcome = resume_from.outcome
      BY <1>0, <3>1, Beginning
    <3> QED
      BY <1>0, <2>1, <3>2 DEF Modest
  <2> QED
    BY <1>3, <2>1, <2>2
<1>8. CASE Turn
  <2>1. /\ agent'.exit = agent.exit /\ agent'.outcome = agent.outcome
        /\ agent'.partial = agent.partial /\ at \in Underway
        /\ UNCHANGED <<traj, resume_from>>
    BY <1>0, <1>8 DEF Turn, Info, diskVars, loopVars
  <2> QED
    BY <1>0, <2>1 DEF Modest
<1>9. CASE Checkpoint
  <2>1. /\ at \in Underway /\ UNCHANGED <<agent, resume_from>>
        /\ traj' = traj \/ traj' = File("ok", [agent EXCEPT !.partial = TRUE])
    BY <1>9 DEF Checkpoint, loopVars
  <2>2. /\ File("ok", [agent EXCEPT !.partial = TRUE]).info.exit = agent.exit
        /\ File("ok", [agent EXCEPT !.partial = TRUE]).info.outcome = agent.outcome
    BY <1>0 DEF File, Info
  <2> QED
    BY <1>0, <2>1, <2>2 DEF Modest
<1>10. CASE Refuse
  BY <1>0, <1>10 DEF Refuse, Modest, diskVars, loopVars
<1>11. CASE End
  BY <1>0, <1>3, <1>11, Ending DEF diskVars, loopVars
<1>12. CASE CaptureCancelled \/ CaptureFails \/ CaptureLeak \/ Capture \/ PatchWriteFails \/ Validate
  BY <1>3, <1>12 DEF CaptureCancelled, CaptureFails, CaptureLeak, Capture, CapturePatch,
                     PatchWriteFails, Validate, diskVars, loopVars
<1>13. CASE Truncate
  BY <1>0, <1>13 DEF Truncate, File, Modest, loopVars
<1>14. CASE Written
  <2>1. /\ at \in Keeping /\ at' \notin Underway /\ resume_from' = resume_from
        /\ traj'.info = agent
    BY <1>14 DEF Written, AfterSave, File, Keeping, loopVars
  <2>2. agent.partial => agent.exit = "cancelled" /\ agent.outcome = "error"
    BY <1>0, <2>1 DEF Saying
  <2> QED
    BY <1>0, <2>1, <2>2 DEF Modest
<1>15. CASE SaveFails
  BY <1>3, <1>15 DEF SaveFails, AfterSave, diskVars, loopVars
<1> QED
  BY <1>1, <1>2, <1>5, <1>6, <1>7, <1>8, <1>9, <1>10, <1>11, <1>12, <1>13, <1>14, <1>15
     DEF Next, Work, End

LEMMA SayingStep ==
  ASSUME IInv, [Next]_vars
  PROVE  Saying'
<1> USE DEF Capturing, Keeping
<1>0. TypeOK /\ Staged /\ Modest /\ Saying /\ agent \in Info
  BY Types
<1>1. ASSUME at' \notin Capturing \cup Keeping PROVE Saying'
  BY <1>1 DEF Saying
<1>2. ASSUME UNCHANGED <<at, agent, patch, row>> PROVE Saying'
  BY <1>0, <1>2 DEF Saying, Claims, HasPatch
<1>3. CASE Scan \/ Exit \/ Top \/ Granted \/ Setup \/ Turn \/ Checkpoint \/ Refuse \/ Report \/ Backoff
  BY <1>1, <1>3 DEF Scan, Exit, Top, Granted, Setup, Turn, Checkpoint, Refuse, Report, Backoff
<1>4. CASE Cancel \/ UNCHANGED vars \/ Over
  BY <1>2, <1>4 DEF Cancel, Over, vars, diskVars
<1>5. CASE GateCancelled \/ BackoffCancelled
  <2>1. NoRow \in Row /\ NoRow.cost \in Nat /\ total_cost \in Nat
    BY <1>0, Records DEF NoRow, TypeOK, TypeWorker
  <2>2. [NoRow EXCEPT !.cost = total_cost] \in Row /\ [NoRow EXCEPT !.cost = total_cost].cost \in Nat
    BY <2>1 DEF NoRow, Row
  <2>3. /\ at' = "saving" /\ agent'.exit = "cancelled" /\ agent'.outcome = "error"
        /\ row'.exit = "cancelled" /\ row'.outcome = "error" /\ row' # NoRow
    BY <1>0, <1>5, <2>1, <2>2, Goodbye DEF GateCancelled, BackoffCancelled
  <2> QED
    BY <2>3 DEF Saying
<1>6. CASE End
  <2>1. /\ at \in Underway /\ row' = row
        /\ agent'.partial = agent.partial
        /\ \/ /\ at' = "capture"
              /\ agent'.exit = "submitted" /\ agent'.outcome = "submitted" /\ agent'.cat = NoCat
           \/ at' = "saving" /\ agent'.outcome # "submitted"
    BY <1>0, <1>6, Ending
  <2>2. row = NoRow /\ ~agent.partial
    BY <1>0, <2>1 DEF Staged, Modest, Underway
  <2> QED
    BY <2>1, <2>2 DEF Saying, Claims
<1>7. CASE CaptureCancelled \/ CaptureFails \/ CaptureLeak
  <2>1. at \in Capturing /\ at' = "saving" /\ row' = row
    BY <1>7 DEF CaptureCancelled, CaptureFails, CaptureLeak
  <2>2. row = NoRow /\ ~agent.partial
    BY <1>0, <2>1 DEF Staged, Saying, Claims
  <2>3. \/ agent' = FinalCancelled(agent) \/ agent' = FinalError("error", EnvSetup)
        \/ agent' = FinalError("error", BadPatch)
    BY <1>7 DEF CaptureCancelled, CaptureFails, CaptureLeak
  <2>4. EnvSetup \in Cats \cup {NoCat} /\ BadPatch \in Cats \cup {NoCat} /\ "error" \in Exits
    BY CatsAssumption, Records
  <2>5. agent'.outcome = "error" /\ agent'.partial = agent.partial
    <3>1. /\ FinalError("error", EnvSetup).outcome = "error"
          /\ FinalError("error", EnvSetup).partial = agent.partial
      BY <1>0, <2>4, Errors
    <3>2. /\ FinalError("error", BadPatch).outcome = "error"
          /\ FinalError("error", BadPatch).partial = agent.partial
      BY <1>0, <2>4, Errors
    <3> QED
      BY <1>0, <2>3, <3>1, <3>2, Finals
  <2> QED
    BY <2>1, <2>2, <2>5 DEF Saying
<1>8. CASE Capture
  BY <1>0, <1>8 DEF Capture, CapturePatch, WritePatch, Saying, Claims, HasPatch
<1>9. CASE PatchWriteFails
  BY <1>1, <1>9 DEF PatchWriteFails
<1>10. CASE Validate
  <2>1. at = "validate" /\ at' = "saving" /\ UNCHANGED <<row, patch>> /\ agent' = Validated
    BY <1>10 DEF Validate, diskVars
  <2>2. Claims /\ HasPatch /\ row = NoRow
    BY <1>0, <2>1 DEF Saying, Staged
  <2>3. CASE patch.good
    BY <2>1, <2>2, <2>3 DEF Saying, Validated, Claims, HasPatch
  <2>4. CASE ~patch.good
    <3>1. agent' = FinalError("error", BadPatch)
      BY <2>1, <2>4 DEF Validated
    <3>2. BadPatch \in Cats \cup {NoCat} /\ "error" \in Exits
      BY CatsAssumption, Records
    <3>3. agent'.outcome = "error" /\ agent'.partial = agent.partial
      BY <1>0, <3>1, <3>2, Errors
    <3> QED
      BY <2>1, <2>2, <3>3 DEF Saying, Claims
  <2> QED
    BY <2>3, <2>4
<1>11. CASE Truncate
  BY <1>0, <1>11 DEF Truncate, Saying, Claims, HasPatch
<1>12. CASE Written \/ SaveFails
  BY <1>1, <1>12 DEF Written, SaveFails, AfterSave
<1> QED
  BY <1>3, <1>4, <1>5, <1>6, <1>7, <1>8, <1>9, <1>10, <1>11, <1>12 DEF Next, Work, End

LEMMA GenuineStep ==
  ASSUME IInv, [Next]_vars
  PROVE  Genuine'
<1>0. TypeOK /\ Staged /\ Modest /\ Saying /\ Genuine /\ agent \in Info
  BY Types
<1>1. ASSUME traj' = traj, at \notin {"down", "report", "done"} PROVE Genuine'
  BY <1>0, <1>1 DEF Genuine
<1>2. ASSUME UNCHANGED <<at, traj, patch, fresh>> PROVE Genuine'
  BY <1>0, <1>2 DEF Genuine
<1>3. CASE Scan
  <2>1. (traj.state = "ok" /\ traj.info.outcome = "submitted") => Archived
    BY <1>0, CatsAssumption DEF Genuine, Archived, Resumable, Cancelled, Retryable, Submitted
  <2> QED
    BY <1>0, <1>3, <2>1 DEF Scan, Genuine, diskVars
<1>4. CASE Exit
  BY <1>0, <1>4 DEF Exit, Genuine, diskVars
<1>5. CASE Cancel \/ UNCHANGED vars \/ Over
  BY <1>2, <1>5 DEF Cancel, Over, vars, diskVars
<1>6. CASE Top \/ Granted \/ GateCancelled \/ BackoffCancelled \/ Backoff \/ Setup \/ Turn \/ Refuse
  BY <1>1, <1>6 DEF Top, Granted, GateCancelled, BackoffCancelled, Backoff, Setup, Turn, Refuse, diskVars
<1>7. CASE Checkpoint
  <2>1. at \in Underway /\ (traj' = traj \/ traj' = File("ok", [agent EXCEPT !.partial = TRUE]))
    BY <1>7 DEF Checkpoint, Underway
  <2>2. File("ok", [agent EXCEPT !.partial = TRUE]).info.outcome = agent.outcome
    BY <1>0 DEF File, Info
  <2>3. agent.outcome # "submitted"
    BY <1>0, <2>1 DEF Modest
  <2> QED
    BY <1>1, <2>1, <2>2, <2>3 DEF Genuine, Underway
<1>8. CASE End
  <2>1. at \in Underway /\ traj' = traj
    BY <1>0, <1>8, Ending DEF diskVars
  <2> QED
    BY <1>1, <2>1 DEF Underway
<1>9. CASE CaptureCancelled \/ CaptureFails \/ CaptureLeak \/ Capture \/ PatchWriteFails \/ Validate
  BY <1>1, <1>9 DEF CaptureCancelled, CaptureFails, CaptureLeak, Capture, PatchWriteFails, Validate,
                    diskVars
<1>10. CASE Truncate
  BY <1>10 DEF Truncate, File, Genuine
<1>11. CASE Written
  <2>1. /\ at = "writing" /\ traj'.info = agent /\ UNCHANGED <<patch, fresh>>
        /\ at' = IF row = NoRow THEN "report" ELSE "done"
    BY <1>11 DEF Written, AfterSave, File
  <2>2. fresh
    BY <1>0, <2>1 DEF Staged
  <2>3. agent.outcome = "submitted" => Claims /\ HasPatch /\ patch.good
    BY <1>0, <2>1 DEF Saying, Keeping
  <2> QED
    BY <2>1, <2>2, <2>3 DEF Genuine, Claims, HasPatch
<1>12. CASE SaveFails
  BY <1>1, <1>12 DEF SaveFails, diskVars
<1>13. CASE Report
  <2>1. at = "report" /\ UNCHANGED <<traj, patch, fresh>> /\ (~ShouldRetry => at' = "done")
    BY <1>13 DEF Report, diskVars
  <2> QED
    BY <1>0, <2>1, Reported DEF Genuine, Seen
<1> QED
  BY <1>3, <1>4, <1>5, <1>6, <1>7, <1>8, <1>9, <1>10, <1>11, <1>12, <1>13 DEF Next, Work, End

LEMMA HonestStep ==
  ASSUME IInv, [Next]_vars
  PROVE  Honest'
<1>0. /\ TypeOK /\ Staged /\ Modest /\ Saying /\ Genuine /\ Honest
      /\ agent \in Info /\ traj.info \in Info /\ failures \in Nat
  BY Types
<1>1. ASSUME at' # "done" PROVE Honest'
  BY <1>1 DEF Honest
<1>2. CASE Scan
  <2>1. /\ SkipRow.exit = "skipped_resume" /\ SkipRow.outcome = traj.info.outcome /\ SkipRow # NoRow
    BY DEF SkipRow, NoRow
  <2> QED
    BY <1>0, <1>1, <1>2, <2>1 DEF Scan, Honest, Archived, Resumable, Submitted, diskVars
<1>3. CASE UNCHANGED vars \/ Over
  BY <1>0, <1>3 DEF Over, vars, diskVars, Honest, Submitted
<1>4. CASE Exit \/ Cancel \/ Top \/ Granted \/ Setup \/ Turn \/ Checkpoint \/ Refuse \/ Backoff
  BY <1>1, <1>4 DEF Exit, Cancel, Top, Granted, Setup, Turn, Checkpoint, Refuse, Backoff
<1>5. CASE GateCancelled \/ BackoffCancelled
  BY <1>1, <1>5 DEF GateCancelled, BackoffCancelled, LeaveCancelled
<1>6. CASE End
  BY <1>0, <1>1, <1>6, Ending
<1>7. CASE CaptureCancelled \/ CaptureFails \/ CaptureLeak \/ Capture \/ PatchWriteFails \/ Validate
           \/ Truncate
  BY <1>1, <1>7 DEF CaptureCancelled, CaptureFails, CaptureLeak, Capture, CapturePatch,
                    PatchWriteFails, Validate, Truncate
<1>8. CASE Written
  <2>1. /\ at \in Keeping /\ traj' = File("ok", agent) /\ row' = row
        /\ at' = IF row = NoRow THEN "report" ELSE "done"
    BY <1>8 DEF Written, AfterSave, Keeping
  <2> QED
    BY <1>0, <1>1, <2>1 DEF Honest, Saying, File
<1>9. CASE SaveFails
  <2>1. /\ at \in Keeping /\ failures' = failures + 1 /\ row' = row
        /\ at' = IF row = NoRow THEN "report" ELSE "done"
    BY <1>9 DEF SaveFails, AfterSave, Keeping
  <2> QED
    BY <1>0, <1>1, <2>1 DEF Honest, Saying
<1>10. CASE Report
  <2>1. traj' = traj /\ (at' = "done" => row' = Current)
    BY <1>10 DEF Report, diskVars
  <2>2. Seen /\ traj.info.outcome = "submitted" => Submitted
    BY <1>0 DEF Seen, Genuine, Submitted
  <2> QED
    BY <1>0, <1>1, <2>1, <2>2, Reported DEF Honest, Submitted, Seen
<1> QED
  BY <1>2, <1>3, <1>4, <1>5, <1>6, <1>7, <1>8, <1>9, <1>10 DEF Next, Work, End

----------------------------------------------------------------------------
(* What is paid                                                            *)

(* The turns the starts pay for, and the ones that interruptions, failed   *)
(* writes and refusals excuse.                                             *)
Paid == StepLimit * starts + (sweeps - 1) + failures + refused

(* Where no turn is missing in the checkpoint that has not been excused.   *)
Excused == {"agent", "report", "backoff"} \cup Ready

Funded ==
  /\ agent.cost <= StepLimit /\ resume_from.cost <= StepLimit /\ traj.info.cost <= StepLimit
  /\ sweeps > 0 => spent <= Paid
  /\ at \in Underway => spent + StepLimit <= Paid + agent.cost
  /\ (at \in Keeping /\ agent.partial) => spent + StepLimit <= Paid + agent.cost
  /\ Continuing => spent + StepLimit <= Paid + resume_from.cost
  /\ Resumable => spent + StepLimit <= Paid + traj.info.cost + (IF at \in Excused THEN 0 ELSE 1)

LEMMA OneMore ==
  ASSUME NEW a \in Nat, NEW b \in Nat
  PROVE  a * b \in Nat /\ a * (b + 1) = a * b + a
  OBVIOUS

LEMMA Total ==
  ASSUME NEW p \in Nat, NEW s \in Nat, NEW f \in Nat, NEW r \in Nat
  PROVE  p + (s - 1) + f + r \in Int /\ (s > 0 => p + (s - 1) + f + r >= 0)
  OBVIOUS

LEMMA PaidFact ==
  ASSUME TypeOK, TypeOK'
  PROVE  /\ Paid \in Int /\ Paid' \in Int /\ (sweeps > 0 => Paid >= 0) /\ (sweeps' > 0 => Paid' >= 0)
         /\ starts' = starts =>
              Paid' = Paid + (sweeps' - sweeps) + (failures' - failures) + (refused' - refused)
         /\ starts' = starts + 1 /\ UNCHANGED <<sweeps, failures, refused>> => Paid' = Paid + StepLimit
<1>0. /\ starts \in Nat /\ sweeps \in Nat /\ failures \in Nat /\ refused \in Nat /\ StepLimit \in Nat
      /\ starts' \in Nat /\ sweeps' \in Nat /\ failures' \in Nat /\ refused' \in Nat
  BY PolicyAssumption, BoundAssumption DEF TypeOK, TypeHistory
<1> DEFINE p == StepLimit * starts
           q == StepLimit * starts'
<1>1. p \in Nat /\ q \in Nat /\ (starts' = starts => q = p) /\ (starts' = starts + 1 => q = p + StepLimit)
  <2>1. p \in Nat /\ q \in Nat
    BY <1>0, OneMore
  <2>2. starts' = starts + 1 => q = p + StepLimit
    BY <1>0, OneMore
  <2> QED
    BY <2>1, <2>2
<1>2. Paid = p + (sweeps - 1) + failures + refused /\ Paid' = q + (sweeps' - 1) + failures' + refused'
  BY DEF Paid
<1> HIDE DEF p, q
<1>3. Paid \in Int /\ (sweeps > 0 => Paid >= 0)
  BY <1>0, <1>1, <1>2, Total
<1>6. Paid' \in Int /\ (sweeps' > 0 => Paid' >= 0)
  BY <1>0, <1>1, <1>2, Total
<1>4. ASSUME starts' = starts
      PROVE  Paid' = Paid + (sweeps' - sweeps) + (failures' - failures) + (refused' - refused)
  BY <1>0, <1>1, <1>2, <1>4
<1>5. ASSUME starts' = starts + 1, sweeps' = sweeps, failures' = failures, refused' = refused
      PROVE  Paid' = Paid + StepLimit
  BY <1>0, <1>1, <1>2, <1>5
<1> QED
  BY <1>3, <1>4, <1>5, <1>6

LEMMA FundedStep ==
  ASSUME IInv, TypeOK', Funded, [Next]_vars
  PROVE  Funded'
<1> USE DEF Underway, Keeping, Ready, Excused
<1>0. /\ TypeOK /\ Staged /\ Modest /\ Saying
      /\ agent \in Info /\ traj.info \in Info /\ resume_from \in Info
  BY Types
<1>n. /\ spent \in Nat /\ sweeps \in Nat /\ failures \in Nat /\ refused \in Nat /\ StepLimit \in Nat
      /\ agent.cost \in Nat /\ traj.info.cost \in Nat /\ resume_from.cost \in Nat
      /\ NoInfo.cost = 0 /\ ~NoInfo.partial /\ attempts \in Nat
  <2>1. /\ spent \in Nat /\ sweeps \in Nat /\ failures \in Nat /\ refused \in Nat
        /\ StepLimit \in Nat /\ attempts \in Nat
    BY <1>0, PolicyAssumption, BoundAssumption DEF TypeOK, TypeHistory, TypeWorker
  <2>2. agent.cost \in Nat /\ traj.info.cost \in Nat /\ resume_from.cost \in Nat
    BY <1>0 DEF Info
  <2>3. NoInfo.cost = 0 /\ ~NoInfo.partial
    BY DEF NoInfo, NewInfo
  <2> QED
    BY <2>1, <2>2, <2>3
<1>p. /\ Paid \in Int /\ Paid' \in Int /\ (sweeps > 0 => Paid >= 0) /\ (sweeps' > 0 => Paid' >= 0)
      /\ starts' = starts =>
           Paid' = Paid + (sweeps' - sweeps) + (failures' - failures) + (refused' - refused)
      /\ starts' = starts + 1 /\ UNCHANGED <<sweeps, failures, refused>> => Paid' = Paid + StepLimit
  BY <1>0, PaidFact
<1>1. CASE Scan
  <2>1. /\ sweeps' = sweeps + 1 /\ Paid' = Paid + 1 /\ at = "down"
        /\ UNCHANGED <<traj, agent, spent>>
    BY <1>n, <1>p, <1>1 DEF Scan, diskVars
  <2>2. /\ at' \in {"done", "top"}
        /\ at' = "done" => resume_from' = resume_from
        /\ at' = "top" => resume_from' = NoInfo \/ (Resumable /\ resume_from' = traj.info)
    BY <1>1 DEF Scan
  <2>3. spent <= Paid'
    BY <1>0, <1>n, <1>p, <2>1 DEF Funded, Staged
  <2> QED
    BY <1>n, <1>p, <2>1, <2>2, <2>3 DEF Funded, Continuing, Resumable
<1>2. CASE Exit
  <2>1. /\ at' = "down" /\ Paid' = Paid /\ agent' = NoInfo /\ resume_from' = NoInfo
        /\ UNCHANGED <<traj, spent, sweeps>>
    BY <1>n, <1>p, <1>2 DEF Exit, diskVars
  <2> QED
    BY <1>n, <1>p, <2>1 DEF Funded, Continuing, Resumable
<1>3. ASSUME UNCHANGED <<traj, spent, sweeps, starts, refused>>,
             failures' \in {failures, failures + 1},
             resume_from' \in {resume_from, NoInfo}, Continuing' => Continuing /\ resume_from' = resume_from,
             agent'.cost = agent.cost, at' \in Underway => at \in Underway,
             at' \in Keeping /\ agent'.partial => at \in Keeping /\ agent.partial,
             at' \in Excused => at \in Excused \/ failures' = failures + 1 \/ ~Resumable
      PROVE  Funded'
  <2>1. Paid' = Paid + (failures' - failures) /\ failures' - failures \in {0, 1}
    BY <1>n, <1>p, <1>3
  <2>2. agent'.cost <= StepLimit /\ resume_from'.cost <= StepLimit /\ traj'.info.cost <= StepLimit
    BY <1>n, <1>3 DEF Funded
  <2>6. ASSUME sweeps' > 0 PROVE spent' <= Paid'
    <3>1. sweeps > 0 /\ spent' = spent
      BY <1>3, <2>6
    <3>2. spent <= Paid
      BY <3>1 DEF Funded
    <3> QED
      BY <1>n, <1>p, <2>1, <3>1, <3>2
  <2>3. /\ at' \in Underway => spent' + StepLimit <= Paid' + agent'.cost
        /\ (at' \in Keeping /\ agent'.partial) => spent' + StepLimit <= Paid' + agent'.cost
    BY <1>n, <1>p, <1>3, <2>1 DEF Funded
  <2>4. Continuing' => spent' + StepLimit <= Paid' + resume_from'.cost
    BY <1>n, <1>p, <1>3, <2>1 DEF Funded
  <2>5. Resumable' =>
          spent' + StepLimit <= Paid' + traj'.info.cost + (IF at' \in Excused THEN 0 ELSE 1)
    BY <1>n, <1>p, <1>3, <2>1 DEF Funded, Resumable
  <2> QED
    BY <2>2, <2>3, <2>4, <2>5, <2>6 DEF Funded
<1>4. CASE Cancel \/ UNCHANGED vars \/ Over
  <2>1. UNCHANGED <<at, agent, traj, spent, sweeps, starts, refused, failures, resume_from, attempts>>
    BY <1>4 DEF Cancel, Over, vars, diskVars, loopVars, histVars
  <2> QED
    BY <1>3, <2>1 DEF Continuing
<1>5. CASE Granted \/ Top \/ Report \/ Backoff
  <2>1. /\ UNCHANGED <<agent, traj, spent, sweeps, starts, refused, failures>>
        /\ at \in Excused /\ at' \notin Underway /\ at' \notin Keeping
    BY <1>5 DEF Granted, Top, Report, Backoff, diskVars, loopVars, histVars
  <2>2. resume_from' \in {resume_from, NoInfo} /\ (Continuing' => Continuing /\ resume_from' = resume_from)
    BY <1>0, <1>n, <1>5 DEF Granted, Top, Report, Backoff, Continuing, Staged, loopVars
  <2> QED
    BY <1>3, <2>1, <2>2
<1>6. CASE GateCancelled \/ BackoffCancelled
  <2>1. NoRow \in Row /\ NoRow.cost \in Nat /\ total_cost \in Nat
    BY <1>0, Records DEF NoRow, TypeOK, TypeWorker
  <2>2. [NoRow EXCEPT !.cost = total_cost] \in Row /\ [NoRow EXCEPT !.cost = total_cost].cost \in Nat
    BY <2>1 DEF NoRow, Row
  <2>3. /\ at' = "saving"
        /\ \/ /\ traj.state = "ok"
              /\ agent'.cost = traj.info.cost /\ agent'.partial = traj.info.partial
           \/ agent'.cost = 0 /\ ~agent'.partial
    BY <1>0, <1>6, <2>1, <2>2, Goodbye DEF GateCancelled, BackoffCancelled
  <2>4. /\ at \in Excused /\ UNCHANGED <<traj, resume_from, spent, sweeps, starts, failures, refused>>
    BY <1>6 DEF GateCancelled, BackoffCancelled, diskVars, loopVars, histVars
  <2>5. Paid' = Paid
    BY <1>n, <1>p, <2>4
  <2> QED
    BY <1>n, <1>p, <2>3, <2>4, <2>5 DEF Funded, Resumable, Continuing
<1>7. CASE Setup
  <2>1. /\ at = "setup" /\ UNCHANGED <<traj, resume_from, spent, sweeps, failures, refused>>
        /\ starts' = IF resume_from = NoInfo THEN starts + 1 ELSE starts
        /\ \/ at' = "agent" /\ last_gen' = last_gen + 1 /\ agent' = Continued
           \/ at' = "report" /\ agent' = agent
    BY <1>7 DEF Setup, diskVars, loopVars
  <2>2. Paid' = IF resume_from = NoInfo THEN Paid + StepLimit ELSE Paid
    BY <1>n, <1>p, <2>1
  <2>3. at' = "agent" => agent'.cost = resume_from.cost
    BY <1>0, <2>1, Beginning
  <2>4. sweeps > 0
    BY <1>0, <2>1 DEF Staged
  <2> QED
    BY <1>n, <1>p, <2>1, <2>2, <2>3, <2>4 DEF Funded, Resumable, Continuing
<1>8. CASE Turn
  <2>1. /\ at = "agent" /\ at' = "turned" /\ agent'.cost = agent.cost + 1 /\ spent' = spent + 1
        /\ UNCHANGED <<traj, resume_from, sweeps, starts, failures, refused>> /\ agent.cost < StepLimit
    BY <1>0, <1>8 DEF Turn, Info, diskVars, loopVars
  <2>2. Paid' = Paid
    BY <1>n, <1>p, <2>1
  <2> QED
    BY <1>n, <1>p, <2>1, <2>2 DEF Funded, Resumable, Continuing
<1>9. CASE Checkpoint
  <2> DEFINE i == [agent EXCEPT !.partial = TRUE]
  <2>1. i.cost = agent.cost /\ File("ok", i).info = i
    BY <1>0 DEF Info, File
  <2>2. /\ at = "turned" /\ at' = "agent"
        /\ UNCHANGED <<agent, resume_from, spent, sweeps, starts, refused>>
        /\ \/ traj' = File("ok", i) /\ failures' = failures
           \/ traj' = traj /\ failures' = failures + 1
    BY <1>9 DEF Checkpoint, loopVars, histVars
  <2> HIDE DEF i
  <2>3. Paid' = Paid + (failures' - failures)
    BY <1>n, <1>p, <2>2
  <2> QED
    BY <1>n, <1>p, <2>1, <2>2, <2>3 DEF Funded, Resumable, Continuing
<1>10. CASE Refuse
  <2>1. /\ at = "turned" /\ at' = "agent" /\ refused' = refused + 1
        /\ UNCHANGED <<agent, traj, resume_from, spent, sweeps, starts, failures>>
    BY <1>10 DEF Refuse, diskVars, loopVars
  <2>2. Paid' = Paid + 1
    BY <1>n, <1>p, <2>1
  <2> QED
    BY <1>n, <1>p, <2>1, <2>2 DEF Funded, Resumable, Continuing
<1>11. CASE End
  <2>1. /\ at \in Underway /\ at' \in {"capture", "saving"}
        /\ agent'.cost = agent.cost /\ agent'.partial = agent.partial
        /\ UNCHANGED <<traj, resume_from, spent, sweeps, starts, failures, refused>>
    BY <1>0, <1>11, Ending DEF diskVars, loopVars, histVars
  <2>2. ~agent.partial
    BY <1>0, <2>1 DEF Modest
  <2> QED
    BY <1>3, <2>1, <2>2 DEF Continuing
<1>12. CASE CaptureCancelled \/ CaptureFails \/ CaptureLeak \/ Capture \/ PatchWriteFails \/ Validate
  <2>1. /\ at \in Capturing /\ at' \in {"saving", "validate", "report"}
        /\ UNCHANGED <<traj, resume_from, spent, sweeps, starts, refused>>
        /\ failures' = failures \/ failures' = failures + 1
        /\ at' = "report" => failures' = failures + 1
    BY <1>12 DEF CaptureCancelled, CaptureFails, CaptureLeak, Capture, CapturePatch, PatchWriteFails,
                 Validate, diskVars, loopVars, histVars, Capturing
  <2>2. \/ agent' = agent \/ agent' = FinalCancelled(agent)
        \/ agent' = FinalError("error", EnvSetup) \/ agent' = FinalError("error", BadPatch)
    BY <1>12 DEF CaptureCancelled, CaptureFails, CaptureLeak, Capture, PatchWriteFails, Validate,
                 Validated
  <2>3. EnvSetup \in Cats \cup {NoCat} /\ BadPatch \in Cats \cup {NoCat} /\ "error" \in Exits
    BY CatsAssumption, Records
  <2>4. /\ FinalError("error", EnvSetup).cost = agent.cost
        /\ FinalError("error", EnvSetup).partial = agent.partial
    BY <1>0, <2>3, Errors
  <2>5. /\ FinalError("error", BadPatch).cost = agent.cost
        /\ FinalError("error", BadPatch).partial = agent.partial
    BY <1>0, <2>3, Errors
  <2>6. agent'.cost = agent.cost /\ agent'.partial = agent.partial /\ ~agent.partial
    BY <1>0, <2>1, <2>2, <2>4, <2>5, Finals DEF Saying, Claims
  <2> QED
    BY <1>3, <2>1, <2>6 DEF Continuing
<1>13. CASE Truncate
  <2>1. /\ at = "saving" /\ at' = "writing" /\ traj' = File("torn", NoInfo)
        /\ UNCHANGED <<agent, resume_from, spent, sweeps, starts, failures, refused>>
    BY <1>13 DEF Truncate, loopVars, histVars
  <2>2. Paid' = Paid /\ traj'.state # "ok" /\ traj'.info.cost = 0
    BY <1>n, <1>p, <2>1 DEF File
  <2> QED
    BY <1>n, <1>p, <2>1, <2>2 DEF Funded, Resumable, Continuing
<1>14. CASE Written
  <2>1. /\ at = "writing" /\ at' \in {"report", "done"} /\ traj' = File("ok", agent)
        /\ UNCHANGED <<agent, resume_from, spent, sweeps, starts, failures, refused>>
    BY <1>14 DEF Written, AfterSave, loopVars, histVars
  <2>2. Paid' = Paid /\ traj'.info = agent
    BY <1>n, <1>p, <2>1 DEF File
  <2> QED
    BY <1>n, <1>p, <2>1, <2>2 DEF Funded, Resumable, Continuing
<1>15. CASE SaveFails
  <2>1. /\ at \in Keeping /\ at' \in {"report", "done"} /\ failures' = failures + 1
        /\ UNCHANGED <<agent, traj, resume_from, spent, sweeps, starts, refused>>
    BY <1>15 DEF SaveFails, AfterSave, diskVars, loopVars, histVars
  <2> QED
    BY <1>3, <2>1 DEF Continuing
<1> QED
  BY <1>1, <1>2, <1>4, <1>5, <1>6, <1>7, <1>8, <1>9, <1>10, <1>11, <1>12, <1>13, <1>14, <1>15
     DEF Next, Work, End

----------------------------------------------------------------------------
(* What is charged                                                         *)

(* The attempt has an agent whose turns are not in total_cost yet.         *)
Ongoing == at \in Underway \cup Capturing \/ (at \in Keeping /\ row = NoRow)

Charged ==
  /\ total_cost <= spent /\ agent.cost <= spent /\ resume_from.cost <= spent
  /\ traj.info.cost <= spent
  /\ Ongoing => total_cost + agent.cost <= spent
  /\ (Ongoing \/ at = "report") /\ Seen => total_cost + traj.info.cost <= spent
  /\ row # NoRow => row.exit = "skipped_resume" \/ row.cost <= spent

LEMMA Numbers ==
  ASSUME IInv
  PROVE  /\ TypeOK /\ Staged /\ Modest /\ Saying
         /\ agent \in Info /\ traj.info \in Info /\ resume_from \in Info /\ row \in Row
         /\ spent \in Nat /\ total_cost \in Nat /\ attempts \in Nat /\ executed \in Nat
         /\ sweeps \in Nat /\ failures \in Nat
         /\ agent.cost \in Nat /\ traj.info.cost \in Nat /\ resume_from.cost \in Nat /\ row.cost \in Nat
         /\ NoInfo.cost = 0 /\ NoRow.cost = 0
<1>1. /\ TypeOK /\ Staged /\ Modest /\ Saying
      /\ agent \in Info /\ traj.info \in Info /\ resume_from \in Info /\ row \in Row
  BY Types
<1>2. /\ spent \in Nat /\ total_cost \in Nat /\ attempts \in Nat /\ executed \in Nat
      /\ sweeps \in Nat /\ failures \in Nat
  BY <1>1, PolicyAssumption, BoundAssumption DEF TypeOK, TypeWorker, TypeHistory
<1>3. agent.cost \in Nat /\ traj.info.cost \in Nat /\ resume_from.cost \in Nat /\ row.cost \in Nat
  BY <1>1 DEF Info, Row
<1>4. NoInfo.cost = 0 /\ NoRow.cost = 0
  BY DEF NoInfo, NewInfo, NoRow
<1> QED
  BY <1>1, <1>2, <1>3, <1>4

(* What capture and validation leave of the agent.                         *)
LEMMA CaptureAgent ==
  ASSUME IInv,
         CaptureCancelled \/ CaptureFails \/ CaptureLeak \/ Capture \/ PatchWriteFails \/ Validate
  PROVE  /\ at \in Capturing /\ at' \in {"saving", "validate", "report"}
         /\ agent'.cost = agent.cost /\ row = NoRow
         /\ UNCHANGED <<cancelled, loopVars, fresh, row, traj, histVars>>
         /\ failures' = failures \/ failures' = failures + 1
         /\ at' = "report" => failures' = failures + 1
<1>0. agent \in Info /\ Staged
  BY Types
<1>1. /\ at \in Capturing /\ at' \in {"saving", "validate", "report"}
      /\ UNCHANGED <<cancelled, loopVars, fresh, row, traj, histVars>>
      /\ failures' = failures \/ failures' = failures + 1
      /\ at' = "report" => failures' = failures + 1
  BY DEF CaptureCancelled, CaptureFails, CaptureLeak, Capture, CapturePatch, PatchWriteFails,
         Validate, diskVars, Capturing
<1>2. \/ agent' = agent \/ agent' = FinalCancelled(agent)
      \/ agent' = FinalError("error", EnvSetup) \/ agent' = FinalError("error", BadPatch)
  BY DEF CaptureCancelled, CaptureFails, CaptureLeak, Capture, PatchWriteFails, Validate, Validated
<1>3. EnvSetup \in Cats \cup {NoCat} /\ BadPatch \in Cats \cup {NoCat} /\ "error" \in Exits
  BY CatsAssumption, Records
<1>4. FinalError("error", EnvSetup).cost = agent.cost
  BY <1>0, <1>3, Errors
<1>5. FinalError("error", BadPatch).cost = agent.cost
  BY <1>0, <1>3, Errors
<1>6. row = NoRow
  BY <1>0, <1>1 DEF Staged, Capturing, Keeping
<1> QED
  BY <1>0, <1>1, <1>2, <1>4, <1>5, <1>6, Finals

(* The row of a worker that leaves from the gate or from a backoff.        *)
LEMMA LeavingRow ==
  ASSUME IInv, GateCancelled \/ BackoffCancelled
  PROVE  /\ at' = "saving" /\ row' # NoRow /\ row'.exit = "cancelled" /\ row'.attempts = attempts
         /\ at = "gate" \/ (at = "backoff" /\ row'.cost = total_cost)
         /\ row'.cost = 0 \/ row'.cost = total_cost
         /\ agent'.cost = traj.info.cost \/ agent'.cost = 0
         /\ UNCHANGED <<cancelled, loopVars, fresh, diskVars, failures, histVars>>
<1>1. TypeOK /\ total_cost \in Nat /\ NoRow.cost = 0
  BY Numbers
<1>2. NoRow \in Row
  BY Records
<1>3. [NoRow EXCEPT !.cost = total_cost] \in Row /\ [NoRow EXCEPT !.cost = total_cost].cost = total_cost
  BY <1>1, <1>2 DEF Row
<1>4. CASE GateCancelled
  <2>1. LeaveCancelled(NoRow) /\ at = "gate"
    BY <1>4 DEF GateCancelled
  <2> QED
    BY <1>1, <1>2, <1>4, <2>1, Goodbye DEF GateCancelled
<1>5. CASE BackoffCancelled
  <2>1. LeaveCancelled([NoRow EXCEPT !.cost = total_cost]) /\ at = "backoff"
    BY <1>5 DEF BackoffCancelled
  <2> QED
    BY <1>1, <1>3, <1>5, <2>1, Goodbye DEF BackoffCancelled
<1> QED
  BY <1>4, <1>5

LEMMA ChargedStep ==
  ASSUME IInv, Charged, [Next]_vars
  PROVE  Charged'
<1> USE DEF Underway, Capturing, Keeping, Ready
<1>0. /\ TypeOK /\ Staged /\ Modest /\ Saying
      /\ agent \in Info /\ traj.info \in Info /\ resume_from \in Info /\ row \in Row
      /\ spent \in Nat /\ total_cost \in Nat
      /\ agent.cost \in Nat /\ traj.info.cost \in Nat /\ resume_from.cost \in Nat /\ row.cost \in Nat
      /\ NoInfo.cost = 0 /\ NoRow.cost = 0
  BY Numbers
<1>1. CASE Scan
  <2>1. /\ at' \in {"done", "top"} /\ UNCHANGED <<total_cost, agent, traj, spent>>
        /\ resume_from' \in {resume_from, NoInfo, traj.info}
        /\ row' = row \/ row' = SkipRow
    BY <1>1 DEF Scan, diskVars
  <2>2. SkipRow.exit = "skipped_resume"
    BY DEF SkipRow, NoRow
  <2> QED
    BY <1>0, <2>1, <2>2 DEF Charged, Ongoing
<1>2. CASE Exit
  <2>1. /\ at' = "down" /\ total_cost' = 0 /\ agent' = NoInfo /\ resume_from' = NoInfo /\ row' = NoRow
        /\ UNCHANGED <<traj, spent>>
    BY <1>2 DEF Exit, diskVars
  <2> QED
    BY <1>0, <2>1 DEF Charged, Ongoing
<1>3. ASSUME UNCHANGED <<traj, spent, row, total_cost>>, resume_from' \in {resume_from, NoInfo},
             agent'.cost = agent.cost,
             Ongoing' => Ongoing, at' = "report" => Ongoing, fresh' => fresh
      PROVE  Charged'
  <2>1. total_cost' <= spent' /\ agent'.cost <= spent' /\ resume_from'.cost <= spent'
        /\ traj'.info.cost <= spent'
    BY <1>0, <1>3 DEF Charged
  <2>2. Ongoing' => total_cost' + agent'.cost <= spent'
    BY <1>0, <1>3 DEF Charged
  <2>3. Seen' => Seen
    BY <1>3 DEF Seen
  <2>4. (Ongoing' \/ at' = "report") /\ Seen' => total_cost' + traj'.info.cost <= spent'
    BY <1>0, <1>3, <2>3 DEF Charged
  <2>5. row' # NoRow => row'.exit = "skipped_resume" \/ row'.cost <= spent'
    BY <1>3 DEF Charged
  <2> QED
    BY <2>1, <2>2, <2>4, <2>5 DEF Charged
<1>4. CASE Cancel \/ UNCHANGED vars \/ Over
  <2>1. UNCHANGED <<at, agent, traj, spent, row, total_cost, resume_from, fresh>>
    BY <1>4 DEF Cancel, Over, vars, diskVars, loopVars, histVars
  <2> QED
    BY <1>0, <2>1 DEF Charged, Ongoing, Seen
<1>5. CASE Granted \/ Top \/ Backoff \/ Refuse
  <2>1. /\ UNCHANGED <<agent, traj, spent, row, total_cost>> /\ (fresh' => fresh)
        /\ resume_from' \in {resume_from, NoInfo} /\ at' # "report" /\ (Ongoing' => Ongoing)
    BY <1>5 DEF Granted, Top, Backoff, Refuse, diskVars, loopVars, histVars, Ongoing
  <2> QED
    BY <1>3, <2>1
<1>6. CASE GateCancelled \/ BackoffCancelled
  <2>1. /\ at' = "saving" /\ row' # NoRow
        /\ row'.cost = 0 \/ row'.cost = total_cost
        /\ agent'.cost = traj.info.cost \/ agent'.cost = 0
        /\ UNCHANGED <<total_cost, resume_from, traj, spent>>
    BY <1>6, LeavingRow DEF loopVars, diskVars, histVars
  <2> QED
    BY <1>0, <2>1 DEF Charged, Ongoing
<1>7. CASE Setup
  <2>1. /\ at = "setup" /\ UNCHANGED <<traj, resume_from, spent, total_cost, fresh, row>>
        /\ \/ at' = "agent" /\ last_gen' = last_gen + 1 /\ agent' = Continued
           \/ at' = "report" /\ agent' = agent
    BY <1>7 DEF Setup, diskVars, loopVars
  <2>2. at' = "agent" => agent'.cost = resume_from.cost
    BY <1>0, <2>1, Beginning
  <2>3. ~fresh /\ (resume_from # NoInfo => total_cost = 0)
    BY <1>0, <2>1 DEF Staged, Continuing
  <2> QED
    BY <1>0, <2>1, <2>2, <2>3 DEF Charged, Ongoing, Seen
<1>8. CASE Turn
  <2>1. /\ at = "agent" /\ at' = "turned" /\ agent'.cost = agent.cost + 1 /\ spent' = spent + 1
        /\ UNCHANGED <<traj, resume_from, total_cost, fresh, row>>
    BY <1>0, <1>8 DEF Turn, Info, diskVars, loopVars
  <2> QED
    BY <1>0, <2>1 DEF Charged, Ongoing, Seen
<1>9. CASE Checkpoint
  <2> DEFINE i == [agent EXCEPT !.partial = TRUE]
  <2>1. i.cost = agent.cost /\ File("ok", i).info = i
    BY <1>0 DEF Info, File
  <2>2. /\ at = "turned" /\ at' = "agent" /\ UNCHANGED <<agent, resume_from, spent, total_cost, row>>
        /\ \/ traj' = File("ok", i)
           \/ UNCHANGED <<traj, fresh>>
    BY <1>9 DEF Checkpoint, loopVars, histVars
  <2> HIDE DEF i
  <2> QED
    BY <1>0, <2>1, <2>2 DEF Charged, Ongoing, Seen
<1>10. CASE End
  <2>1. /\ at \in Underway /\ at' \in {"capture", "saving"} /\ agent'.cost = agent.cost
        /\ UNCHANGED <<traj, resume_from, spent, total_cost, fresh, row>>
    BY <1>0, <1>10, Ending DEF diskVars, loopVars, histVars
  <2> QED
    BY <1>3, <2>1 DEF Ongoing
<1>11. CASE CaptureCancelled \/ CaptureFails \/ CaptureLeak \/ Capture \/ PatchWriteFails \/ Validate
  <2>1. /\ at \in Capturing /\ agent'.cost = agent.cost
        /\ UNCHANGED <<traj, resume_from, spent, total_cost, fresh, row>>
    BY <1>11, CaptureAgent DEF loopVars, histVars
  <2> QED
    BY <1>3, <2>1 DEF Ongoing
<1>12. CASE Truncate
  <2>1. /\ at = "saving" /\ at' = "writing" /\ traj' = File("torn", NoInfo)
        /\ UNCHANGED <<agent, resume_from, spent, total_cost, row>>
    BY <1>12 DEF Truncate, loopVars, histVars
  <2>2. traj'.state # "ok" /\ traj'.info.cost = 0
    BY <1>0, <2>1 DEF File
  <2> QED
    BY <1>0, <2>1, <2>2 DEF Charged, Ongoing, Seen
<1>13. CASE Written
  <2>1. /\ at = "writing" /\ traj' = File("ok", agent)
        /\ at' = IF row = NoRow THEN "report" ELSE "done"
        /\ UNCHANGED <<agent, resume_from, spent, total_cost, row>>
    BY <1>13 DEF Written, AfterSave, loopVars, histVars
  <2>2. traj'.info = agent
    BY <2>1 DEF File
  <2> QED
    BY <1>0, <2>1, <2>2 DEF Charged, Ongoing
<1>14. CASE SaveFails
  <2>1. /\ at \in Keeping /\ at' = IF row = NoRow THEN "report" ELSE "done"
        /\ UNCHANGED <<agent, traj, resume_from, spent, total_cost, fresh, row>>
    BY <1>14 DEF SaveFails, AfterSave, diskVars, loopVars, histVars
  <2> QED
    BY <1>3, <2>1 DEF Ongoing
<1>15. CASE Report
  <2>1. /\ at = "report" /\ at' \in {"backoff", "done"} /\ total_cost' = ReportedCost
        /\ row' = row \/ row' = Current
        /\ UNCHANGED <<agent, traj, resume_from, spent>>
    BY <1>15 DEF Report, diskVars, histVars
  <2>2. ReportedCost <= spent /\ ReportedCost \in Nat /\ Current.cost = ReportedCost
    BY <1>0, <2>1 DEF Charged, ReportedCost, Current
  <2> QED
    BY <1>0, <2>1, <2>2 DEF Charged, Ongoing
<1> QED
  BY <1>1, <1>2, <1>4, <1>5, <1>6, <1>7, <1>8, <1>9, <1>10, <1>11, <1>12, <1>13, <1>14, <1>15
     DEF Next, Work, End

----------------------------------------------------------------------------
(* In an undisturbed slot everything is charged                            *)
Undisturbed == at # "down" /\ sweeps = 1 /\ failures = 0

Exact ==
  /\ at \in {"gate", "setup"} => executed = attempts - 1
  /\ (Ongoing \/ at \in {"top", "report", "backoff"}) => executed = attempts
  /\ (at \in Keeping /\ row # NoRow) => row.attempts = attempts
  /\ Undisturbed =>
       /\ resume_from = NoInfo
       /\ at \in Ready \cup {"backoff"} => spent = total_cost
       /\ Ongoing => spent = total_cost + agent.cost
       /\ at = "report" => spent = ReportedCost
       /\ row # NoRow => /\ row.exit # "skipped_resume"
                         /\ executed = row.attempts => row.cost = spent

LEMMA ExactStep ==
  ASSUME IInv, Exact, [Next]_vars
  PROVE  Exact'
<1> USE DEF Underway, Capturing, Keeping, Ready
<1>0. /\ TypeOK /\ Staged /\ Modest /\ Saying
      /\ agent \in Info /\ traj.info \in Info /\ resume_from \in Info /\ row \in Row
      /\ spent \in Nat /\ total_cost \in Nat /\ attempts \in Nat /\ executed \in Nat
      /\ sweeps \in Nat /\ failures \in Nat
      /\ agent.cost \in Nat /\ traj.info.cost \in Nat /\ resume_from.cost \in Nat /\ row.cost \in Nat
      /\ NoInfo.cost = 0 /\ NoRow.cost = 0
  BY Numbers
<1>1. CASE Scan
  <2>1. /\ at = "down" /\ at' \in {"done", "top"} /\ sweeps' = sweeps + 1
        /\ UNCHANGED <<total_cost, agent, traj, spent, attempts, executed, failures>>
        /\ sweeps = 0 => at' = "top" /\ row' = row /\ resume_from' = NoInfo
    BY <1>0, <1>1 DEF Scan, diskVars, Archived, Resumable, Staged
  <2>2. sweeps' = 1 => sweeps = 0
    BY <1>0, <2>1
  <2>3. attempts = 0 /\ executed = 0 /\ total_cost = 0 /\ (sweeps = 0 => spent = 0) /\ row = NoRow
    BY <1>0, <2>1 DEF Staged
  <2> QED
    BY <1>0, <2>1, <2>2, <2>3 DEF Exact, Ongoing, Undisturbed
<1>2. CASE Exit
  <2>1. at' = "down"
    BY <1>2 DEF Exit
  <2> QED
    BY <2>1 DEF Exact, Ongoing, Undisturbed
<1>3. ASSUME Ongoing, Ongoing' \/ (failures' = failures + 1 /\ at' = "report"),
             UNCHANGED <<sweeps, resume_from, total_cost, row, attempts, executed>>,
             failures' \in {failures, failures + 1},
             failures' = failures => spent' + agent.cost = spent + agent'.cost,
             spent' \in Nat, agent'.cost \in Nat
      PROVE  Exact'
  <2>1. row = NoRow
    BY <1>0, <1>3 DEF Ongoing, Staged
  <2>2. at' \notin Ready \cup {"backoff"} /\ at # "down"
    BY <1>3 DEF Ongoing
  <2>3. executed' = attempts'
    BY <1>3 DEF Exact
  <2>4. Undisturbed' => Undisturbed /\ failures' = failures /\ at' # "report"
    BY <1>0, <1>3, <2>2 DEF Undisturbed, Ongoing
  <2>5. Undisturbed' => resume_from' = NoInfo /\ (Ongoing' => spent' = total_cost' + agent'.cost)
    BY <1>0, <1>3, <2>4 DEF Exact
  <2> QED
    BY <1>3, <2>1, <2>2, <2>3, <2>4, <2>5 DEF Exact
<1>4. CASE Cancel \/ UNCHANGED vars \/ Over
  <2>1. UNCHANGED <<at, agent, traj, spent, row, total_cost, resume_from, fresh, attempts, executed,
                    sweeps, failures>>
    BY <1>4 DEF Cancel, Over, vars, diskVars, loopVars, histVars
  <2> QED
    BY <1>0, <2>1 DEF Exact, Undisturbed, Ongoing, Seen, ReportedCost
<1>5. CASE Granted
  <2>1. /\ at = "gate" /\ at' = "setup"
        /\ UNCHANGED <<spent, row, total_cost, resume_from, attempts, executed, sweeps, failures>>
    BY <1>5 DEF Granted, diskVars, loopVars, histVars
  <2> QED
    BY <1>0, <2>1 DEF Exact, Undisturbed, Ongoing
<1>6. CASE Top
  <2>1. /\ at = "top" /\ at' \in {"gate", "setup"} /\ attempts' = attempts + 1
        /\ resume_from' \in {resume_from, NoInfo}
        /\ UNCHANGED <<spent, row, total_cost, executed, sweeps, failures>>
    BY <1>6 DEF Top, diskVars, histVars
  <2> QED
    BY <1>0, <2>1 DEF Exact, Undisturbed, Ongoing
<1>7. CASE Backoff
  <2>1. /\ at = "backoff" /\ at' = "top"
        /\ UNCHANGED <<spent, row, total_cost, resume_from, attempts, executed, sweeps, failures>>
    BY <1>7 DEF Backoff, diskVars, loopVars, histVars
  <2> QED
    BY <1>0, <2>1 DEF Exact, Undisturbed, Ongoing
<1>8. CASE GateCancelled \/ BackoffCancelled
  <2>1. /\ at' = "saving" /\ row' # NoRow /\ row'.exit = "cancelled" /\ row'.attempts = attempts
        /\ at = "gate" \/ (at = "backoff" /\ row'.cost = total_cost)
        /\ UNCHANGED <<total_cost, resume_from, spent, attempts, executed, sweeps, failures>>
    BY <1>8, LeavingRow DEF loopVars, diskVars, histVars
  <2> QED
    BY <1>0, <2>1 DEF Exact, Undisturbed, Ongoing
<1>9. CASE Setup
  <2>1. /\ at = "setup" /\ executed' = executed + 1
        /\ UNCHANGED <<traj, resume_from, spent, total_cost, fresh, row, attempts, sweeps, failures>>
        /\ \/ at' = "agent" /\ last_gen' = last_gen + 1 /\ agent' = Continued
           \/ at' = "report" /\ agent' = agent
    BY <1>9 DEF Setup, diskVars, loopVars
  <2>2. at' = "agent" => agent'.cost = resume_from.cost
    BY <1>0, <2>1, Beginning
  <2>3. ~fresh /\ row = NoRow
    BY <1>0, <2>1 DEF Staged
  <2> QED
    BY <1>0, <2>1, <2>2, <2>3 DEF Exact, Undisturbed, Ongoing, ReportedCost, Seen
<1>10. CASE Turn \/ Checkpoint \/ Refuse
  <2>1. /\ at \in Underway /\ at' \in Underway
        /\ UNCHANGED <<sweeps, resume_from, total_cost, row, attempts, executed>>
        /\ failures' \in {failures, failures + 1}
        /\ \/ spent' = spent + 1 /\ agent' = [agent EXCEPT !.cost = agent.cost + 1]
           \/ UNCHANGED <<spent, agent>>
    BY <1>10 DEF Turn, Checkpoint, Refuse, diskVars, loopVars, histVars
  <2>2. [agent EXCEPT !.cost = agent.cost + 1].cost = agent.cost + 1
    BY <1>0 DEF Info
  <2>3. spent' \in Nat /\ agent'.cost \in Nat /\ spent' + agent.cost = spent + agent'.cost
    <3>1. CASE spent' = spent + 1 /\ agent' = [agent EXCEPT !.cost = agent.cost + 1]
      <4>1. agent'.cost = agent.cost + 1
        BY <2>2, <3>1
      <4> QED
        BY <1>0, <3>1, <4>1
    <3>2. CASE UNCHANGED <<spent, agent>>
      BY <1>0, <3>2
    <3> QED
      BY <2>1, <3>1, <3>2
  <2> QED
    BY <1>3, <2>1, <2>3 DEF Ongoing
<1>11. CASE End
  <2>1. /\ at \in Underway /\ at' \in {"capture", "saving"} /\ agent'.cost = agent.cost
        /\ UNCHANGED <<sweeps, resume_from, total_cost, row, attempts, executed, spent, failures>>
    BY <1>0, <1>11, Ending DEF diskVars, loopVars, histVars
  <2>2. row = NoRow
    BY <1>0, <2>1 DEF Staged
  <2> QED
    BY <1>0, <1>3, <2>1, <2>2 DEF Ongoing
<1>12. CASE CaptureCancelled \/ CaptureFails \/ CaptureLeak \/ Capture \/ PatchWriteFails \/ Validate
  <2>1. /\ at \in Capturing /\ at' \in {"saving", "validate", "report"}
        /\ agent'.cost = agent.cost /\ row = NoRow
        /\ UNCHANGED <<sweeps, resume_from, total_cost, row, attempts, executed, spent>>
        /\ failures' = failures \/ failures' = failures + 1
        /\ at' = "report" => failures' = failures + 1
    BY <1>12, CaptureAgent DEF loopVars, histVars
  <2> QED
    BY <1>0, <1>3, <2>1 DEF Ongoing
<1>13. CASE Truncate
  <2>1. /\ at = "saving" /\ at' = "writing"
        /\ UNCHANGED <<agent, spent, row, total_cost, resume_from, attempts, executed, sweeps, failures>>
    BY <1>13 DEF Truncate, loopVars, histVars
  <2> QED
    BY <1>0, <2>1 DEF Exact, Undisturbed, Ongoing
<1>14. CASE Written
  <2>1. /\ at = "writing" /\ traj' = File("ok", agent)
        /\ at' = IF row = NoRow THEN "report" ELSE "done"
        /\ UNCHANGED <<agent, spent, row, total_cost, resume_from, attempts, executed, sweeps, failures,
                       fresh>>
    BY <1>14 DEF Written, AfterSave, loopVars, histVars
  <2>2. fresh
    BY <1>0, <2>1 DEF Staged
  <2>3. ReportedCost' = total_cost + agent.cost
    BY <2>1, <2>2 DEF ReportedCost, Seen, File
  <2> QED
    BY <1>0, <2>1, <2>3 DEF Exact, Undisturbed, Ongoing
<1>15. CASE SaveFails
  <2>1. /\ at \in Keeping /\ at' = IF row = NoRow THEN "report" ELSE "done"
        /\ failures' = failures + 1
        /\ UNCHANGED <<row, attempts, executed>>
    BY <1>15 DEF SaveFails, AfterSave, diskVars, loopVars, histVars
  <2>2. ~Undisturbed'
    BY <1>0, <2>1 DEF Undisturbed
  <2> QED
    BY <1>0, <2>1, <2>2 DEF Exact, Ongoing
<1>16. CASE Report
  <2>1. /\ at = "report" /\ total_cost' = ReportedCost
        /\ \/ at' = "backoff" /\ row' = row
           \/ at' = "done" /\ row' = Current
        /\ UNCHANGED <<spent, resume_from, attempts, executed, sweeps, failures>>
    BY <1>16 DEF Report, diskVars, histVars
  <2>2. Current.cost = ReportedCost /\ Current.attempts = attempts /\ Current.exit # "skipped_resume"
    <3>1. ReportedExit \in Exits
      BY <1>0, Reporting
    <3> QED
      BY <3>1 DEF Current, Exits
  <2>3. row = NoRow
    BY <1>0, <2>1 DEF Staged
  <2> QED
    BY <1>0, <2>1, <2>2, <2>3 DEF Exact, Undisturbed, Ongoing
<1> QED
  BY <1>1, <1>2, <1>4, <1>5, <1>6, <1>7, <1>8, <1>9, <1>10, <1>11, <1>12, <1>13, <1>14, <1>15, <1>16
     DEF Next, Work, End

----------------------------------------------------------------------------
(* The theorems                                                            *)

LEMMA Invariance ==
  /\ Init => IInv
  /\ IInv /\ [Next]_vars => IInv'
<1>1. ASSUME IInv, [Next]_vars PROVE IInv'
  BY <1>1, TypeStep, StagedStep, ModestStep, SayingStep, GenuineStep, HonestStep DEF IInv, Sound
<1> QED
  BY <1>1, TypeInit

(* Every reachable state of a run slot is well typed.                      *)
THEOREM TypeCorrect == Spec => []TypeOK
<1>1. IInv => TypeOK
  BY DEF IInv
<1> QED
  BY <1>1, Invariance, PTL DEF Spec

(* A row that claims a submission stands on a final trajectory and on the  *)
(* validated patch of the same attempt, whatever was killed, cancelled or  *)
(* failed (mini::run's tail, run_one, the resume scan).                    *)
THEOREM SubmissionIsReal == Spec => []SubmittedIsReal
<1>1. IInv => SubmittedIsReal
  BY DEF IInv, Sound, Honest, Genuine, Submitted, SubmittedIsReal
<1> QED
  BY <1>1, Invariance, PTL DEF Spec

(* No turn is paid for a slot whose submission is on disk: neither a retry *)
(* nor a later sweep begins it again (run_one, the resume scan).           *)
THEOREM SubmittedIsPaidOnce == Spec => PaidOnce
<1>1. IInv /\ [Next]_vars => [spent' > spent => ~Submitted]_vars
  <2> SUFFICES ASSUME IInv, [Next]_vars, spent' > spent PROVE ~Submitted
    OBVIOUS
  <2>1. spent \in Nat /\ Genuine /\ TypeOK /\ Modest
    BY Types DEF TypeOK, TypeHistory
  <2>2. Turn
    <3>1. ~(spent' = spent)
      BY <2>1
    <3>2. End => spent' = spent
      BY <2>1, Ending DEF histVars
    <3> QED
      BY <3>1, <3>2 DEF Next, Work, End, Scan, Exit, Cancel, Granted, Over, Top, GateCancelled, Setup,
         Checkpoint, Refuse, CaptureCancelled, CaptureFails, CaptureLeak, Capture, PatchWriteFails,
         Validate, Truncate, Written, SaveFails, Report, Backoff, BackoffCancelled, histVars, vars
  <2> QED
    BY <2>1, <2>2 DEF Turn, Genuine, Submitted
<1> QED
  BY <1>1, Invariance, PTL DEF Spec, PaidOnce

(* What a cancellation left is picked up by the next --resume, wherever it *)
(* met the run, unless a write failed.                                     *)
THEOREM CancelledIsPickedUp == Spec => []CancelledIsRerun
<1>1. IInv => CancelledIsRerun
  BY DEF IInv, Sound, Honest, Resumable, Cancelled, CancelledIsRerun
<1> QED
  BY <1>1, Invariance, PTL DEF Spec

(* The step limit holds over all sweeps that continue one start, but for   *)
(* one turn per interruption, failed write and refused turn.               *)
THEOREM InterruptionsAreCheap == Spec => []LittlePaidTwice
<1>1. Init => Funded
  BY PolicyAssumption DEF Init, Funded, Continuing, Resumable, NoInfo, NewInfo, Underway, Keeping, Ready, File
<1>2. IInv /\ IInv' /\ Funded /\ [Next]_vars => Funded'
  BY FundedStep DEF IInv
<1>3. Funded => LittlePaidTwice
  BY DEF Funded, LittlePaidTwice, Paid
<1> QED
  BY <1>1, <1>2, <1>3, Invariance, PTL DEF Spec

(* No row charges more than was paid, and an undisturbed slot is charged   *)
(* all of it (run_one's total_cost).                                       *)
THEOREM CostIsAccounted == Spec => []CostAccounted
<1>1. Init => Charged /\ Exact
  BY DEF Init, Charged, Exact, Ongoing, Undisturbed, Seen, NoInfo, NewInfo, File,
         Underway, Capturing, Keeping, Ready
<1>2. IInv /\ Charged /\ Exact /\ [Next]_vars => Charged' /\ Exact'
  BY ChargedStep, ExactStep
<1>3. IInv /\ Charged /\ Exact => CostAccounted
  BY DEF IInv, Sound, Honest, Charged, Exact, Undisturbed, CostAccounted
<1> QED
  BY <1>1, <1>2, <1>3, Invariance, PTL DEF Spec
=============================================================================
