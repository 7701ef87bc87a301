------------------------------- MODULE MCSweep -------------------------------
(***************************************************************************)
(* Small instances of Sweep for TLC.  Categories: 1 EnvSetup and 2         *)
(* ModelApi are actionable, 3 stands for every category that is not.       *)
(***************************************************************************)
EXTENDS Sweep

Result(tag, cat, cost, last) == [tag |-> tag, cat |-> cat, cost |-> cost, last |-> last]
Left(kind, cat, cost, patch) == [kind |-> kind, cat |-> cat, cost |-> cost, patch |-> patch]

MCCats == 1 .. 3
MCActionable == {1, 2}
MCRetryOn == {2}

(* A submitted run, one that failed on its own account after a retry, a    *)
(* broken model endpoint, a worker told to stop, a panic.                  *)
MCOutcomes == {Result("submitted", NoCat, 1, 1), Result("limit", 3, 2, 1),
               Result("error", 2, 0, 0), Result("cancelled", NoCat, 1, 1),
               Result("join_error", NoCat, 0, 0)}

(* The same without the panic, and with the other actionable category.     *)
NoPanic == {o \in MCOutcomes : o.tag # "join_error"} \cup {Result("error", 1, 0, 0)}

Nothing == {Left("none", NoCat, 0, FALSE)}
Leftovers == Nothing \cup {Left("partial", NoCat, 1, FALSE), Left("cancelled", NoCat, 1, FALSE),
                          Left("submitted", NoCat, 1, TRUE), Left("submitted", NoCat, 1, FALSE),
                          Left("failed", 2, 1, FALSE), Left("failed", 3, 1, FALSE)}
=============================================================================
