----------------------------- MODULE CommandProofs -----------------------------
(***************************************************************************)
(* Proofs about module Command, for every capacity of the pipe and every   *)
(* amount of output: the output of a command is complete, nothing is left  *)
(* behind, and enough time is never reported as too little.                *)
(***************************************************************************)
EXTENDS Command, TLAPS

LEMMA ProgramType ==
  ASSUME program \in Programs
  PROVE  /\ program.kind \in Kinds /\ program.chunks \in Nat
         /\ program.hangs \in BOOLEAN /\ program.reads \in BOOLEAN
         /\ program.patient \in BOOLEAN /\ program.slow \in BOOLEAN
  BY CapacityAssumption DEF Programs

(* Which processes a program has, and which of them are ever signalled.    *)
Kinded ==
  /\ program.kind = "docker" => others \subseteq {"inside"}
  /\ program.kind # "docker" => "inside" \notin others
  /\ doomed \subseteq ProcessGroup
  /\ armed => program.kind = "local"
  /\ cancelled => program.kind # "evaluate"
  /\ at = "remove" => program.kind = "docker"
  /\ at \in {"term", "kill", "group"} => program.kind = "local"

(* Before anything goes wrong nobody is signalled, and the child leaves    *)
(* when it has written everything.                                         *)
Calm == at \in {"wait", "stdin", "join"}
Peaceful ==
  /\ Calm => doomed = {} /\ result = "none" /\ (child # "running" => unwritten = 0)
  /\ at \in {"stdin", "join"} => child = "reaped" /\ ~armed
  /\ at = "wait" /\ program.kind = "local" => armed

(* On a machine that keeps up, what is waited for is on its way.           *)
Hunted ==
  ~program.slow =>
    /\ at \in {"reap", "drop"} /\ child = "running" => "child" \in doomed
    /\ at \in {"reap", "group", "drop"} /\ program.kind = "local" /\ "grouped" \in others =>
         "grouped" \in doomed
    /\ at \in {"term", "kill", "reap", "group"} /\ program.kind = "local" => armed
    /\ at \in {"group", "drain"} => child = "reaped"
    /\ at = "drain" => ~armed /\ (program.kind = "local" => "grouped" \notin others)
    /\ at = "drop" => result = "dropped" /\ program.kind = "local"
    /\ at \in {"reap", "drain", "done"} /\ program.kind = "docker" /\ result = "cancelled" =>
         others = {}

Finished ==
  /\ result = "exited" => at = "done" /\ buffer = program.chunks
  /\ ~program.slow /\ Killed /\ program.kind # "evaluate" => child # "running" /\ pipe = 0
  /\ ~program.slow /\ at = "done" /\ program.kind = "local"
       /\ result \in {"timed_out", "cancelled", "dropped"} => Alive \subseteq {"escaped"}

InTime ==
  program.patient /\ ~program.hangs /\ (program.kind = "evaluate" => program.chunks <= Capacity)
    => result # "timed_out"

IInv == TypeOK /\ Kinded /\ Peaceful /\ Hunted /\ Finished /\ InTime

LEMMA InitIInv == Init => IInv
<1> SUFFICES ASSUME Init PROVE IInv
  OBVIOUS
<1>p. /\ program.kind \in Kinds /\ program.chunks \in Nat
      /\ program.slow \in BOOLEAN
  BY ProgramType DEF Init
<1>1. TypeOK
  <2>1. others \subseteq {"grouped", "escaped", "inside"}
    BY DEF Init, Companions
  <2>2. pipe \in 0 .. Capacity /\ unwritten \in Nat /\ buffer \in Nat
          /\ unwritten + pipe + buffer = program.chunks
    BY <1>p, CapacityAssumption DEF Init
  <2> QED
    BY <2>1, <2>2 DEF Init, TypeOK, Places, Results
<1>2. Kinded
  BY <1>p DEF Init, Kinded, Companions, Kinds
<1>3. Peaceful /\ InTime
  BY <1>p DEF Init, Peaceful, Calm, InTime
<1>4. Hunted
  BY DEF Init, Hunted
<1>5. Finished
  BY DEF Init, Finished, Killed
<1> QED
  BY <1>1, <1>2, <1>3, <1>4, <1>5 DEF IInv

----------------------------------------------------------------------------
(* The command's own steps.                                                *)

LEMMA StepWrite == ASSUME IInv, Write PROVE IInv'
<1> USE DEF IInv, Write, CanWrite
<1>p. program \in Programs /\ program.chunks \in Nat
  BY ProgramType DEF TypeOK
<1>1. TypeOK'
  BY <1>p, CapacityAssumption DEF TypeOK, Alive, procVars
<1>2. Kinded' /\ Peaceful' /\ InTime'
  BY DEF Kinded, Peaceful, Calm, InTime, procVars
<1>3. Hunted'
  BY DEF Hunted, Alive, procVars
<1>4. Finished'
  BY <1>p DEF Finished, Killed, Alive, procVars
<1> QED
  BY <1>1, <1>2, <1>3, <1>4

LEMMA StepExits == ASSUME IInv, ChildExits PROVE IInv'
<1> USE DEF IInv, ChildExits, CanExit
<1>1. TypeOK'
  BY DEF TypeOK, Alive, pipeVars, Kinded, ProcessGroup
<1>2. Kinded' /\ Peaceful' /\ InTime'
  BY DEF Kinded, Peaceful, Calm, InTime, pipeVars
<1>3. Hunted'
  BY DEF Hunted, TypeOK, Alive, pipeVars
<1>4. Finished'
  BY DEF Finished, Killed, Alive, pipeVars
<1> QED
  BY <1>1, <1>2, <1>3, <1>4

LEMMA StepDie == ASSUME IInv, NEW p \in doomed, Die(p) PROVE IInv'
<1> USE DEF IInv, Die
<1>1. TypeOK'
  BY DEF TypeOK, Alive, pipeVars, Kinded, ProcessGroup
<1>2. Kinded' /\ Peaceful' /\ InTime'
  BY DEF Kinded, Peaceful, Calm, InTime, pipeVars
<1>3. Hunted'
  BY DEF Hunted, TypeOK, Alive, pipeVars
<1>4. Finished'
  BY DEF Finished, Killed, Alive, pipeVars
<1> QED
  BY <1>1, <1>2, <1>3, <1>4

LEMMA StepOther == ASSUME IInv, NEW p \in others, OtherEnds(p) PROVE IInv'
<1> USE DEF IInv, OtherEnds
<1>1. TypeOK'
  BY DEF TypeOK, Alive, pipeVars, Kinded, ProcessGroup
<1>2. Kinded' /\ Peaceful' /\ InTime'
  BY DEF Kinded, Peaceful, Calm, InTime, pipeVars
<1>3. Hunted'
  BY DEF Hunted, TypeOK, Alive, pipeVars
<1>4. Finished'
  BY DEF Finished, Killed, Alive, pipeVars
<1> QED
  BY <1>1, <1>2, <1>3, <1>4

LEMMA StepTasks == ASSUME IInv, Tasks PROVE IInv'
<1> USE DEF IInv, Tasks, ReadPipe, CanRead, Feed, CanFeed
<1>p. program \in Programs /\ program.chunks \in Nat
  BY ProgramType DEF TypeOK
<1>1. TypeOK'
  <2>1. CASE ReadPipe
    <3>1. /\ pipe \in 0 .. Capacity /\ pipe > 0 /\ pipe' = pipe - 1
          /\ buffer \in Nat /\ buffer' = buffer + 1 /\ unwritten \in Nat
          /\ unwritten + pipe + buffer = program.chunks
      BY <2>1 DEF TypeOK
    <3>2. /\ pipe' \in 0 .. Capacity /\ buffer' \in Nat
          /\ unwritten + pipe' + buffer' = program.chunks
      BY <1>p, <3>1, CapacityAssumption
    <3>3. UNCHANGED <<program, at, child, others, doomed, unwritten, feeding, cancelled, armed, result>>
      BY <2>1 DEF procVars
    <3> QED
      BY <3>2, <3>3 DEF TypeOK, Alive
  <2>2. CASE Feed
    BY <2>2 DEF TypeOK, Alive, procVars
  <2> QED
    BY <2>1, <2>2
<1>2. Kinded' /\ Peaceful' /\ InTime'
  BY DEF Kinded, Peaceful, Calm, InTime, procVars
<1>3. Hunted'
  BY DEF Hunted, Alive, procVars
<1>4. Finished'
  BY <1>p DEF Finished, Killed, Alive, TypeOK, procVars
<1> QED
  BY <1>1, <1>2, <1>3, <1>4

----------------------------------------------------------------------------
(* The caller's steps.                                                     *)

(* A signal reaches only the living, and spares the inside of a container. *)
LEMMA SignalType ==
  ASSUME IInv, NEW ps \in SUBSET ProcessGroup, Signal(ps)
  PROVE  /\ doomed \subseteq doomed' /\ ps \cap Alive \subseteq doomed'
         /\ doomed' \subseteq Alive /\ doomed' \subseteq ProcessGroup
  BY DEF IInv, TypeOK, Kinded, Signal

(* A command that moves is not stuck: with enough time it is not stopped.  *)
LEMMA NotStuck ==
  ASSUME IInv, at = "wait", Stuck, ~program.hangs,
         program.kind = "evaluate" => program.chunks <= Capacity
  PROVE  FALSE
<1>p. program \in Programs /\ program.chunks \in Nat /\ program.kind \in Kinds
  BY ProgramType DEF IInv, TypeOK
<1>1. /\ pipe \in Nat /\ unwritten \in Nat /\ buffer \in Nat /\ Capacity \in Nat /\ Capacity > 0
      /\ unwritten + pipe + buffer = program.chunks
  BY CapacityAssumption DEF IInv, TypeOK
<1>2. child = "running" /\ ~CanWrite /\ ~CanRead /\ ~CanExit /\ ~CanFeed
  BY DEF Stuck
<1>3. unwritten = 0
  <2>1. CASE program.kind = "evaluate"
    <3>1. unwritten > 0 => pipe < Capacity
      BY <1>1, <2>1
    <3> QED
      BY <1>1, <1>2, <3>1 DEF CanWrite
  <2>2. CASE program.kind # "evaluate"
    <3>1. pipe = 0
      BY <1>1, <1>2, <2>2 DEF CanRead, Collecting
    <3> QED
      BY <1>1, <1>2, <3>1 DEF CanWrite
  <2> QED
    BY <2>1, <2>2
<1>4. program.reads /\ feeding
  BY <1>2, <1>3 DEF CanExit
<1> QED
  BY <1>2, <1>4 DEF CanFeed

LEMMA StepExited == ASSUME IInv, Exited PROVE IInv'
<1> USE DEF IInv, Exited
<1>1. TypeOK'
  BY DEF TypeOK, Alive, pipeVars, Places
<1>2. Kinded' /\ Peaceful' /\ InTime'
  BY DEF Kinded, Peaceful, Calm, InTime, pipeVars
<1>3. Hunted' /\ Finished'
  BY DEF Hunted, Finished, Killed, Peaceful, Calm, pipeVars
<1> QED
  BY <1>1, <1>2, <1>3

LEMMA StepTimedOut == ASSUME IInv, TimedOut PROVE IInv'
<1> USE DEF IInv, TimedOut
<1>1. TypeOK' /\ doomed' \subseteq ProcessGroup
        /\ (program.kind # "local" /\ child = "running" => "child" \in doomed')
  BY DEF TypeOK, Alive, Signal, pipeVars, Places, Results, Kinded, ProcessGroup
<1>2. Kinded' /\ Peaceful'
  BY <1>1 DEF Kinded, Peaceful, Calm, pipeVars
<1>3. Hunted' /\ Finished'
  BY <1>1 DEF Hunted, Finished, Killed, Peaceful, Calm, pipeVars
<1>4. InTime'
  BY NotStuck DEF InTime, pipeVars
<1> QED
  BY <1>1, <1>2, <1>3, <1>4

LEMMA StepCancel == ASSUME IInv, Cancel PROVE IInv'
<1> USE DEF IInv, Cancel
<1>1. TypeOK' /\ Kinded' /\ Peaceful' /\ InTime'
  BY DEF TypeOK, Alive, Kinded, Peaceful, Calm, InTime, procVars, pipeVars
<1>2. Hunted' /\ Finished'
  BY DEF Hunted, Finished, Killed, Alive, procVars, pipeVars
<1> QED
  BY <1>1, <1>2

LEMMA StepCancelled == ASSUME IInv, Cancelled PROVE IInv'
<1> USE DEF IInv, Cancelled
<1>1. program.kind # "evaluate" => program.kind \in {"local", "docker"}
  BY ProgramType DEF TypeOK, Kinds
<1>2. TypeOK' /\ InTime'
  BY DEF TypeOK, Alive, InTime, procVars, pipeVars, Places, Results
<1>3. Kinded' /\ Peaceful'
  BY <1>1 DEF Kinded, Peaceful, Calm, procVars, pipeVars
<1>4. Hunted' /\ Finished'
  BY DEF Hunted, Finished, Killed, Peaceful, Calm, procVars, pipeVars
<1> QED
  BY <1>2, <1>3, <1>4

LEMMA StepTerm == ASSUME IInv, Term PROVE IInv'
<1> USE DEF IInv, Term
<1>1. doomed \subseteq doomed' /\ doomed' \subseteq Alive /\ doomed' \subseteq ProcessGroup
  BY SignalType DEF TypeOK, Kinded
<1>2. TypeOK'
  BY <1>1 DEF TypeOK, Alive, pipeVars, Places
<1>3. Kinded' /\ Peaceful' /\ InTime'
  BY <1>1 DEF Kinded, Peaceful, Calm, InTime, pipeVars
<1>4. Hunted' /\ Finished'
  BY DEF Hunted, Finished, Killed, pipeVars
<1> QED
  BY <1>2, <1>3, <1>4

LEMMA StepKill == ASSUME IInv, Kill \/ KillTooSlow PROVE IInv'
<1> USE DEF IInv
<1>1. \/ Signal(ProcessGroup)
      \/ program.slow /\ Signal({"child"})
  BY DEF Kill, KillTooSlow, Victims
<1>2. at \in {"term", "kill"} /\ at' = "reap"
        /\ UNCHANGED <<program, child, others, pipeVars, cancelled, armed, result>>
  BY DEF Kill, KillTooSlow
<1>3. /\ doomed \subseteq doomed' /\ doomed' \subseteq Alive /\ doomed' \subseteq ProcessGroup
      /\ ~program.slow => ProcessGroup \cap Alive \subseteq doomed'
  BY <1>1, SignalType DEF ProcessGroup
<1>4. TypeOK'
  BY <1>2, <1>3 DEF TypeOK, Alive, pipeVars, Places
<1>5. Kinded' /\ Peaceful' /\ InTime'
  BY <1>2, <1>3 DEF Kinded, Peaceful, Calm, InTime, pipeVars
<1>6. Hunted'
  BY <1>2, <1>3 DEF Hunted, Kinded, Alive, ProcessGroup, pipeVars
<1>7. Finished'
  BY <1>2 DEF Finished, Killed, pipeVars
<1> QED
  BY <1>4, <1>5, <1>6, <1>7

LEMMA StepReap == ASSUME IInv, Reap PROVE IInv'
<1> USE DEF IInv, Reap, AfterReap
<1>k. program.kind \in {"local", "docker", "evaluate"}
  BY ProgramType DEF TypeOK, Kinds
<1>1. TypeOK'
  BY <1>k DEF TypeOK, Alive, pipeVars, Places
<1>2. Kinded' /\ Peaceful' /\ InTime'
  BY <1>k DEF Kinded, Peaceful, Calm, InTime, pipeVars
<1>3. Hunted'
  BY <1>k DEF Hunted, Kinded, pipeVars
<1>4. Finished'
  BY <1>k DEF Finished, Killed, Alive, pipeVars
<1> QED
  BY <1>1, <1>2, <1>3, <1>4

LEMMA StepReapTooSlow == ASSUME IInv, ReapTooSlow PROVE IInv'
<1> USE DEF IInv, ReapTooSlow
<1>s. program.slow
  BY DEF Outwaited, Hunted
<1>1. TypeOK'
  BY DEF TypeOK, Alive, procVars, pipeVars, Places
<1>2. Kinded' /\ Peaceful' /\ InTime'
  BY DEF Kinded, Peaceful, Calm, InTime, procVars, pipeVars
<1>3. Hunted' /\ Finished'
  BY <1>s DEF Hunted, Finished, procVars, pipeVars
<1> QED
  BY <1>1, <1>2, <1>3

LEMMA StepGroupGone == ASSUME IInv, GroupGone PROVE IInv'
<1> USE DEF IInv, GroupGone
<1>1. TypeOK'
  BY DEF TypeOK, Alive, procVars, pipeVars, Places
<1>2. Kinded' /\ Peaceful' /\ InTime'
  BY DEF Kinded, Peaceful, Calm, InTime, procVars, pipeVars
<1>3. Hunted'
  BY DEF Hunted, Outwaited, Kinded, procVars, pipeVars
<1>4. Finished'
  BY DEF Finished, Killed, procVars, pipeVars
<1> QED
  BY <1>1, <1>2, <1>3, <1>4

LEMMA StepRemoved == ASSUME IInv, Removed PROVE IInv'
<1> USE DEF IInv, Removed
<1>0. at = "remove" /\ at' = "reap" /\ others' = {} /\ program.kind = "docker"
        /\ UNCHANGED <<program, child, pipeVars, cancelled, armed, result>>
  BY DEF Kinded
<1>1. /\ doomed' \subseteq Alive /\ doomed' \subseteq ProcessGroup
      /\ child = "running" => "child" \in doomed'
  BY SignalType DEF ProcessGroup, Alive
<1>2. doomed' \subseteq Alive'
  BY <1>0, <1>1 DEF Alive, Kinded, ProcessGroup
<1>3. TypeOK'
  BY <1>0, <1>2 DEF TypeOK, pipeVars, Places
<1>4. Kinded' /\ Peaceful' /\ InTime'
  BY <1>0, <1>1 DEF Kinded, Peaceful, Calm, InTime, pipeVars
<1>5. Hunted'
  BY <1>0, <1>1 DEF Hunted
<1>6. Finished'
  BY <1>0 DEF Finished, Killed, pipeVars
<1> QED
  BY <1>3, <1>4, <1>5, <1>6

LEMMA StepRemoveFails == ASSUME IInv, RemoveFails PROVE IInv'
<1> USE DEF IInv, RemoveFails
<1>1. doomed' \subseteq Alive /\ doomed' \subseteq ProcessGroup
  BY SignalType DEF ProcessGroup
<1>2. TypeOK'
  BY <1>1 DEF TypeOK, Alive, pipeVars, Places
<1>3. Kinded' /\ Peaceful' /\ InTime'
  BY <1>1 DEF Kinded, Peaceful, Calm, InTime, pipeVars
<1>4. Hunted' /\ Finished'
  BY DEF Hunted, Finished, pipeVars
<1> QED
  BY <1>2, <1>3, <1>4

LEMMA StepDrain == ASSUME IInv, Drain PROVE IInv'
<1> USE DEF IInv, Drain
<1>0. /\ at = "drain" /\ at' \in {"drop", "done"} /\ (at' = "drop" <=> armed) /\ feeding' = FALSE
      /\ UNCHANGED <<program, child, others, unwritten, pipe, buffer, cancelled, armed, result>>
  BY DEF TypeOK
<1>1. doomed' \subseteq Alive /\ doomed' \subseteq ProcessGroup
  BY SignalType DEF TypeOK, Kinded
<1>2. TypeOK'
  BY <1>0, <1>1 DEF TypeOK, Alive, Places
<1>3. Kinded' /\ Peaceful' /\ InTime'
  BY <1>0, <1>1 DEF Kinded, Peaceful, Calm, InTime
<1>4. Hunted'
  BY <1>0 DEF Hunted
<1>5. Finished'
  <2>1. ~program.slow => child = "reaped" /\ pipe = 0
    BY <1>0 DEF Hunted, EndOfFile, DrainElapsed
  <2>2. ~program.slow /\ program.kind = "local" => Alive \subseteq {"escaped"}
    BY <1>0, <2>1 DEF Hunted, Alive, TypeOK, Kinded
  <2> QED
    BY <1>0, <2>1, <2>2 DEF Finished, Killed, Alive
<1> QED
  BY <1>2, <1>3, <1>4, <1>5

LEMMA StepJoinStdin == ASSUME IInv, JoinStdin PROVE IInv'
<1> USE DEF IInv, JoinStdin
<1>1. TypeOK'
  BY DEF TypeOK, Alive, procVars, pipeVars, Places
<1>2. Kinded' /\ Peaceful' /\ InTime'
  BY DEF Kinded, Peaceful, Calm, InTime, procVars, pipeVars
<1>3. Hunted' /\ Finished'
  BY DEF Hunted, Finished, Killed, procVars, pipeVars
<1> QED
  BY <1>1, <1>2, <1>3

LEMMA StepJoinReader == ASSUME IInv, JoinReader PROVE IInv'
<1> USE DEF IInv, JoinReader, JoinReady, EndOfFile
<1>0. buffer = program.chunks
  BY DEF TypeOK, Peaceful, Calm
<1>1. TypeOK'
  BY DEF TypeOK, Alive, procVars, pipeVars, Places, Results
<1>2. Kinded' /\ Peaceful' /\ InTime'
  BY DEF Kinded, Peaceful, Calm, InTime, procVars, pipeVars
<1>3. Hunted' /\ Finished'
  BY <1>0 DEF Hunted, Finished, Killed, procVars, pipeVars
<1> QED
  BY <1>1, <1>2, <1>3

LEMMA StepDropped == ASSUME IInv, Dropped PROVE IInv'
<1> USE DEF IInv, Dropped
<1>0. /\ at \notin {"drop", "done"} /\ result' \in {"abandoned", "dropped"}
      /\ (at \in {"stdin", "join"} <=> result' = "abandoned")
      /\ at' \in {"drop", "done"} /\ (at' = "drop" <=> armed)
      /\ UNCHANGED <<program, child, others, pipeVars, cancelled, armed>>
  BY DEF TypeOK
<1>1. /\ doomed' \subseteq Alive /\ doomed' \subseteq ProcessGroup
      /\ armed => ProcessGroup \cap Alive \subseteq doomed'
  BY SignalType DEF DropSignals, ProcessGroup
<1>2. TypeOK'
  BY <1>0, <1>1 DEF TypeOK, Alive, pipeVars, Places, Results
<1>3. Kinded' /\ Peaceful' /\ InTime'
  BY <1>0, <1>1 DEF Kinded, Peaceful, Calm, InTime, pipeVars
<1>4. Hunted'
  <2>1. ~program.slow /\ at' = "drop" => result' = "dropped" /\ program.kind = "local"
    BY <1>0 DEF Kinded, Hunted, Peaceful
  <2>2. armed => /\ child = "running" => "child" \in doomed'
                 /\ "grouped" \in others => "grouped" \in doomed'
    BY <1>1 DEF ProcessGroup, Alive
  <2> QED
    BY <1>0, <2>1, <2>2 DEF Hunted
<1>5. Finished'
  <2>1. ~program.slow /\ at' = "done" /\ program.kind = "local" /\ result' = "dropped"
           => at = "drain"
    BY <1>0 DEF Hunted, Peaceful, TypeOK, Places, Kinded
  <2>2. ~program.slow /\ at = "drain" /\ program.kind = "local" => Alive \subseteq {"escaped"}
    BY DEF Hunted, Alive, TypeOK, Kinded
  <2> QED
    BY <1>0, <2>1, <2>2 DEF Finished, Killed, Alive
<1> QED
  BY <1>2, <1>3, <1>4, <1>5

LEMMA StepGuard == ASSUME IInv, GuardDropped PROVE IInv'
<1> USE DEF IInv, GuardDropped
<1>1. TypeOK'
  BY DEF TypeOK, Alive, procVars, pipeVars, Places
<1>2. Kinded' /\ Peaceful' /\ InTime'
  BY DEF Kinded, Peaceful, Calm, InTime, procVars, pipeVars
<1>3. Hunted'
  BY DEF Hunted, procVars, pipeVars
<1>4. Finished'
  <2>1. ~program.slow => child # "running" /\ "grouped" \notin others /\ result = "dropped"
    BY DEF Hunted, Outwaited, ProcessGroup, Alive
  <2>2. ~program.slow => Alive \subseteq {"escaped"}
    BY <2>1 DEF Alive, TypeOK, Kinded, Hunted
  <2> QED
    BY <2>1, <2>2 DEF Finished, Killed, Alive, procVars, pipeVars
<1> QED
  BY <1>1, <1>2, <1>3, <1>4

LEMMA StepIInv == IInv /\ [Next]_vars => IInv'
<1> SUFFICES ASSUME IInv, [Next]_vars PROVE IInv'
  OBVIOUS
<1>1. CASE UNCHANGED vars
  BY <1>1 DEF vars, procVars, pipeVars, IInv, TypeOK, Alive, Kinded, Peaceful, Calm, Hunted,
              Finished, Killed, InTime
<1>2. CASE Caller
  BY <1>2, StepExited, StepTimedOut, StepCancelled, StepTerm, StepKill, StepReap,
     StepReapTooSlow, StepGroupGone, StepRemoved, StepRemoveFails, StepDrain, StepJoinStdin,
     StepJoinReader, StepGuard DEF Caller
<1>3. CASE Child \/ Deaths \/ (\E p \in others : OtherEnds(p))
  BY <1>3, StepWrite, StepExits, StepDie, StepOther DEF Child, Deaths
<1> QED
  BY <1>1, <1>2, <1>3, StepTasks, StepCancel, StepDropped DEF Next, Over

LEMMA Invariant == Spec => []IInv
  BY InitIInv, StepIInv, PTL DEF Spec

----------------------------------------------------------------------------
(* Every variable has its shape, no chunk is lost on the way through the   *)
(* pipe (src/env/local.rs, src/env/docker.rs, src/run/evaluate.rs).        *)
THEOREM TypeCorrect == Spec => []TypeOK
  BY Invariant, PTL DEF IInv

(* An observation holds everything its command wrote, however much that is *)
(* and however small the pipe (join_reader, partial_reader_output).        *)
THEOREM OutputIsComplete == Spec => []OutputComplete
<1>1. IInv => OutputComplete
  <2> SUFFICES ASSUME IInv PROVE OutputComplete
    OBVIOUS
  <2>1. /\ unwritten \in Nat /\ pipe \in Nat /\ buffer \in Nat
        /\ unwritten + pipe + buffer = program.chunks
    BY CapacityAssumption DEF IInv, TypeOK
  <2>2. (Killed /\ ~program.slow /\ program.kind # "evaluate") => pipe = 0
    BY DEF IInv, Finished
  <2>3. pipe = 0 => buffer = program.chunks - unwritten
    BY <2>1
  <2> QED
    BY <2>2, <2>3 DEF IInv, Finished, OutputComplete
<1> QED
  BY <1>1, Invariant, PTL

(* What was killed does not go on working behind the agent's back          *)
(* (terminate_and_wait, ProcessGuard's Drop, force_remove_container).      *)
THEOREM NothingStaysBehind == Spec => []NothingLeftBehind
<1>1. IInv => NothingLeftBehind
  BY DEF IInv, Finished, Hunted, Killed, NothingLeftBehind, Alive
<1> QED
  BY <1>1, Invariant, PTL

(* A command that would end within its timeout is never reported as timed  *)
(* out (wait_for_child; the evaluator's run_with_timeout if the output     *)
(* fits into the pipe).                                                    *)
THEOREM EnoughTimeIsEnough == Spec => []EnoughTimeSuffices
<1>1. IInv => EnoughTimeSuffices
  BY DEF IInv, InTime, EnoughTimeSuffices
<1> QED
  BY <1>1, Invariant, PTL
=============================================================================
