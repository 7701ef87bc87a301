-------------------------------- MODULE Command --------------------------------
(***************************************************************************)
(* One shell command, run as a child process with a timeout and a          *)
(* cancellation token: LocalEnvironment::run (src/env/local.rs),           *)
(* DockerEnvironment::run (src/env/docker.rs, where the child is the       *)
(* `docker exec` client and the command runs inside the container) and     *)
(* run_with_timeout of the evaluator (src/run/evaluate.rs, which polls).   *)
(*                                                                         *)
(* The operating system's part is modelled as the code relies on it: a     *)
(* pipe holds Capacity chunks and is at its end when no process holds it   *)
(* any more, a signal takes effect some time after it was sent, a process  *)
(* may leave others behind in its process group or outside of it.          *)
(*                                                                         *)
(* Abstractions: stdout and stderr are read the same way, so there is one  *)
(* pipe; output is counted in chunks; a failed spawn is left out.          *)
(***************************************************************************)
EXTENDS Integers

CONSTANTS
  Capacity,   \* chunks that fit into a pipe
  MaxChunks   \* bound: chunks a command writes

ASSUME CapacityAssumption == Capacity \in Nat \ {0} /\ MaxChunks \in Nat

VARIABLES
  program,   \* what is run, where, and under which circumstances
  at,        \* where the caller stands
  child,     \* the direct child
  others,    \* the other processes of the command that are alive
  doomed,    \* processes a deadly signal was sent to
  unwritten, \* chunks the child still has to write
  pipe,      \* chunks in the pipe
  buffer,    \* chunks collected
  feeding,   \* is the stdin writer at work?
  cancelled, \* the cancellation token
  armed,     \* process_guard.armed
  result     \* how the command is reported

procVars == <<child, others, doomed>>
pipeVars == <<unwritten, pipe, buffer, feeding>>
vars == <<program, at, procVars, pipeVars, cancelled, armed, result>>

Kinds == {"local", "docker", "evaluate"}
Places == {"wait", "term", "kill", "reap", "group", "remove", "drain", "drop",
           "stdin", "join", "done"}
Results == {"none", "exited", "timed_out", "cancelled", "dropped", "abandoned"}

(* others: "grouped" runs in the background, "escaped" has left the        *)
(* process group, and both inherited the pipe; "inside" is the command     *)
(* behind a `docker exec` client and does not hold the client's pipe.      *)
Companions(kind) ==
  IF kind = "docker" THEN {{"inside"}} ELSE SUBSET {"grouped", "escaped"}

(* hangs: never exits by itself; deaf: ignores TERM; reads: reads its      *)
(* stdin before it exits; patient: the timeout is longer than the command  *)
(* needs; slow: the machine exceeds the waits that follow a kill.          *)
Programs == [kind : Kinds, chunks : 0 .. MaxChunks, hangs : BOOLEAN, deaf : BOOLEAN,
             reads : BOOLEAN, patient : BOOLEAN, slow : BOOLEAN]

Init ==
  /\ program \in Programs
  /\ others \in Companions(program.kind)
  /\ feeding \in BOOLEAN
  /\ program.reads => feeding
  /\ at = "wait" /\ child = "running" /\ doomed = {}
  /\ unwritten = program.chunks /\ pipe = 0 /\ buffer = 0
  /\ cancelled = FALSE
  /\ armed = (program.kind = "local")
  /\ result = "none"

----------------------------------------------------------------------------
(* The command.                                                            *)
Alive == (IF child = "running" THEN {"child"} ELSE {}) \cup others
Holders == Alive \ {"inside"}

CanWrite == child = "running" /\ unwritten > 0 /\ pipe < Capacity
Write ==
  /\ CanWrite
  /\ unwritten' = unwritten - 1
  /\ pipe' = pipe + 1
  /\ UNCHANGED <<program, at, procVars, buffer, feeding, cancelled, armed, result>>

(* The end of the client is the end of the command inside the container.   *)
CanExit == child = "running" /\ unwritten = 0 /\ ~program.hangs /\ (program.reads => ~feeding)
ChildExits ==
  /\ CanExit
  /\ child' = "exited"
  /\ others' = others \ {"inside"}
  /\ doomed' = doomed \ {"child"}
  /\ UNCHANGED <<program, at, pipeVars, cancelled, armed, result>>

Die(p) ==
  /\ p \in doomed
  /\ doomed' = doomed \ {p}
  /\ child' = IF p = "child" THEN "exited" ELSE child
  /\ others' = others \ {p}
  /\ UNCHANGED <<program, at, pipeVars, cancelled, armed, result>>

(* A process in the background may end, or not.                            *)
OtherEnds(p) ==
  /\ p \in others \ {"inside"}
  /\ others' = others \ {p}
  /\ doomed' = doomed \ {p}
  /\ UNCHANGED <<program, at, child, pipeVars, cancelled, armed, result>>

Signal(ps) == doomed' = doomed \cup (ps \cap Alive)
ProcessGroup == {"child", "grouped"}

----------------------------------------------------------------------------
(* The collectors and the stdin writer: tasks of their own in the          *)
(* environments; the evaluator reads in wait_with_output only.             *)
Collecting_WhenJoined == at \in {"join", "drain"}
Collecting == program.kind # "evaluate" \/ at = "join"

CanRead == Collecting /\ pipe > 0 /\ at # "done"
ReadPipe ==
  /\ CanRead
  /\ pipe' = pipe - 1
  /\ buffer' = buffer + 1
  /\ UNCHANGED <<program, at, procVars, unwritten, feeding, cancelled, armed, result>>

(* What is left of the input is read, or nobody is there to read it, which *)
(* counts as written.                                                      *)
CanFeed == feeding /\ at # "done" /\ ((child = "running" /\ program.reads) \/ Holders = {})
Feed ==
  /\ CanFeed
  /\ feeding' = FALSE
  /\ UNCHANGED <<program, at, procVars, unwritten, pipe, buffer, cancelled, armed, result>>

EndOfFile == pipe = 0 /\ Holders = {}

----------------------------------------------------------------------------
(* wait_for_child: exit, timeout and cancellation race.                    *)
Exited ==
  /\ at = "wait"
  /\ child = "exited"
  /\ child' = "reaped"
  /\ armed' = FALSE
  /\ at' = IF program.kind = "evaluate" THEN "join" ELSE "stdin"
  /\ UNCHANGED <<program, others, doomed, pipeVars, cancelled, result>>

(* A timeout that is long enough elapses only when nothing moves any more. *)
Stuck == child = "running" /\ ~(CanWrite \/ CanRead \/ CanExit \/ CanFeed)

TimedOut ==
  /\ at = "wait"
  /\ program.patient => Stuck
  /\ result' = "timed_out"
  /\ at' = IF program.kind = "local" THEN "term" ELSE "reap"
  /\ IF program.kind = "local" THEN UNCHANGED doomed ELSE Signal({"child"})
  /\ UNCHANGED <<program, child, others, pipeVars, cancelled, armed>>

Cancel ==
  /\ program.kind # "evaluate"
  /\ at # "done"
  /\ ~cancelled
  /\ cancelled' = TRUE
  /\ UNCHANGED <<program, at, procVars, pipeVars, armed, result>>

Cancelled ==
  /\ at = "wait"
  /\ cancelled
  /\ result' = "cancelled"
  /\ at' = IF program.kind = "local" THEN "term" ELSE "remove"
  /\ UNCHANGED <<program, procVars, pipeVars, cancelled, armed>>

----------------------------------------------------------------------------
(* terminate_and_wait.                                                     *)

(* terminate_process_tree_async: TERM, a grace period, KILL.               *)
Term ==
  /\ at = "term"
  /\ IF program.deaf THEN UNCHANGED doomed ELSE Signal(ProcessGroup)
  /\ at' = "kill"
  /\ UNCHANGED <<program, child, others, pipeVars, cancelled, armed, result>>

Victims_ChildOnly == {"child"}
Victims == ProcessGroup

(* KILL; or the whole takes too long and is given up.  Then the child      *)
(* itself is killed once more.                                             *)
Kill ==
  /\ at = "kill"
  /\ Signal(Victims)
  /\ at' = "reap"
  /\ UNCHANGED <<program, child, others, pipeVars, cancelled, armed, result>>
KillTooSlow ==
  /\ at \in {"term", "kill"}
  /\ program.slow
  /\ Signal({"child"})
  /\ at' = "reap"
  /\ UNCHANGED <<program, child, others, pipeVars, cancelled, armed, result>>

(* A wait of two seconds ends before what it waits for only on a slow      *)
(* machine, or when nothing is on its way.                                 *)
Outwaited == program.slow \/ doomed = {}

AfterReap ==
  CASE program.kind = "local" -> "group"
    [] program.kind = "docker" -> "drain"
    [] program.kind = "evaluate" -> "done"

Reap ==
  /\ at = "reap"
  /\ child # "running"
  /\ child' = "reaped"
  /\ at' = AfterReap
  /\ UNCHANGED <<program, others, doomed, pipeVars, cancelled, armed, result>>
ReapTooSlow ==
  /\ at = "reap"
  /\ program.kind # "evaluate"
  /\ child = "running"
  /\ Outwaited
  /\ at' = "drain"
  /\ UNCHANGED <<program, procVars, pipeVars, cancelled, armed, result>>

(* wait_for_process_group_exit_async gives up after two seconds as well.   *)
GroupGone ==
  /\ at = "group"
  /\ "grouped" \notin others \/ Outwaited
  /\ armed' = FALSE
  /\ at' = "drain"
  /\ UNCHANGED <<program, procVars, pipeVars, cancelled, result>>

(* force_remove_container: `docker rm -f` ends the client as well; its     *)
(* failure is only reported. It is awaited without a timeout (docker.rs,   *)
(* 126-134), so that both steps stand for a docker that answers.           *)
Removed ==
  /\ at = "remove"
  /\ others' = {}
  /\ Signal({"child"})
  /\ at' = "reap"
  /\ UNCHANGED <<program, child, pipeVars, cancelled, armed, result>>
RemoveFails ==
  /\ at = "remove"
  /\ program.slow
  /\ Signal({"child"})
  /\ at' = "reap"
  /\ UNCHANGED <<program, child, others, pipeVars, cancelled, armed, result>>

DrainElapsed_Never == FALSE
DrainElapsed == program.slow \/ (doomed = {} /\ pipe = 0)

(* abort_stdin_writer and partial_reader_output: the end of the pipe, or   *)
(* two seconds.                                                            *)
Drain ==
  /\ at = "drain"
  /\ EndOfFile \/ DrainElapsed
  /\ feeding' = FALSE
  /\ IF armed THEN at' = "drop" /\ Signal(ProcessGroup) ELSE at' = "done" /\ UNCHANGED doomed
  /\ UNCHANGED <<program, child, others, unwritten, pipe, buffer, cancelled, armed, result>>

----------------------------------------------------------------------------
(* After the exit of the child: join_stdin_writer_after_exit, then         *)
(* join_reader, neither with a timeout nor with an ear for the token.      *)
JoinStdin ==
  /\ at = "stdin"
  /\ ~feeding
  /\ at' = "join"
  /\ UNCHANGED <<program, procVars, pipeVars, cancelled, armed, result>>

JoinReady_Snapshot == TRUE
JoinReady == EndOfFile

JoinReader ==
  /\ at = "join"
  /\ JoinReady
  /\ result' = "exited"
  /\ at' = "done"
  /\ UNCHANGED <<program, procVars, pipeVars, cancelled, armed>>

----------------------------------------------------------------------------
(* The caller drops the future (run_agent_with_timeout).  The guard's Drop *)
(* sends both signals and waits; `docker exec` has kill_on_drop.           *)
DropSignals ==
  IF armed THEN ProcessGroup ELSE IF program.kind = "docker" THEN {"child"} ELSE {}

Dropped ==
  /\ at \notin {"drop", "done"}
  /\ program.kind # "evaluate"
  /\ result' = IF at \in {"stdin", "join"} THEN "abandoned" ELSE "dropped"
  /\ Signal(DropSignals)
  /\ at' = IF armed THEN "drop" ELSE "done"
  /\ UNCHANGED <<program, child, others, pipeVars, cancelled, armed>>

(* terminate_process_tree_blocking has sent its signals and waits.         *)
GuardDropped ==
  /\ at = "drop"
  /\ Alive \cap ProcessGroup = {} \/ Outwaited
  /\ at' = "done"
  /\ UNCHANGED <<program, procVars, pipeVars, cancelled, armed, result>>

Caller == \/ Exited \/ TimedOut \/ Cancelled
          \/ Term \/ Kill \/ KillTooSlow \/ Reap \/ ReapTooSlow \/ GroupGone
          \/ Removed \/ RemoveFails \/ Drain \/ JoinStdin \/ JoinReader \/ GuardDropped
Tasks == ReadPipe \/ Feed
Child == Write \/ ChildExits
Deaths == \E p \in doomed : Die(p)

Over == at = "done" /\ UNCHANGED vars

Next == Caller \/ Tasks \/ Child \/ Deaths \/ Cancel \/ Dropped
        \/ (\E p \in others : OtherEnds(p)) \/ Over

Spec == Init /\ [][Next]_vars

(* The runtime polls what is ready, its timers among it; the system runs   *)
(* the child and delivers signals.  Nothing makes a process in the         *)
(* background end, nobody has to cancel or drop.                           *)
FairSpec == Spec /\ WF_vars(Caller) /\ WF_vars(Tasks) /\ WF_vars(Child) /\ WF_vars(Deaths)

----------------------------------------------------------------------------
(* Every variable has its shape, signals are sent to the living, and no    *)
(* chunk is lost or invented on the way through the pipe.                  *)
TypeOK ==
  /\ program \in Programs
  /\ at \in Places
  /\ child \in {"running", "exited", "reaped"}
  /\ others \subseteq {"grouped", "escaped", "inside"}
  /\ doomed \subseteq Alive
  /\ unwritten \in Nat /\ pipe \in 0 .. Capacity /\ buffer \in Nat
  /\ unwritten + pipe + buffer = program.chunks
  /\ feeding \in BOOLEAN /\ cancelled \in BOOLEAN /\ armed \in BOOLEAN
  /\ result \in Results

Killed == at = "done" /\ result \in {"timed_out", "cancelled"}

(* An observation holds everything the command wrote; also the observation *)
(* of a command that had to be killed, where the machine keeps up.  Only   *)
(* the evaluator throws the output of a timed out command away.            *)
OutputComplete ==
  /\ (at = "done" /\ result = "exited") => buffer = program.chunks
  /\ (Killed /\ ~program.slow /\ program.kind # "evaluate") =>
       buffer = program.chunks - unwritten

(* What was killed does not go on working behind the agent's back: of a    *)
(* local command that timed out, was cancelled or whose run was given up,  *)
(* nothing is left but what escaped from its process group; of a           *)
(* cancelled one in a container, nothing at all.                           *)
NothingLeftBehind ==
  (at = "done" /\ ~program.slow) =>
    /\ (program.kind = "local" /\ result \in {"timed_out", "cancelled", "dropped"}) =>
         Alive \subseteq {"escaped"}
    /\ (program.kind = "docker" /\ result = "cancelled") => Alive = {}

(* A command that would end within its timeout is not reported as timed    *)
(* out, however much it writes and whether it reads its input or not.  The *)
(* evaluator, which reads when it is too late, needs the output to fit.    *)
EnoughTimeSuffices ==
  (at = "done" /\ program.patient /\ ~program.hangs
     /\ (program.kind = "evaluate" => program.chunks <= Capacity)) => result # "timed_out"

(* The caller comes back from every command, be it deaf or stuck, unless a *)
(* process that outlives the command keeps its pipes open. After a         *)
(* cancellation under Docker this rests on `docker rm -f` returning, with  *)
(* or without success: the fairness of Removed and RemoveFails assumes it. *)
HeldOpen == at \in {"stdin", "join"} /\ Holders # {}
CommandEnds == <>[](at = "done" \/ HeldOpen)

=============================================================================
