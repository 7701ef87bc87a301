------------------------------ MODULE AimdSlots ------------------------------
(***************************************************************************)
(* What the rate-limit governor promises the dispatcher about worker slots *)
(* (header of src/run/rate_limit.rs): after a storm of 429 answers half of *)
(* the slots are held back, the first of them comes back no sooner than    *)
(* the hold of one minute and half a minute more, every other one no       *)
(* sooner than half a minute after the one before it, and no further storm *)
(* takes slots away before all of them are back.                           *)
(***************************************************************************)
EXTENDS Naturals

CONSTANTS
  Parallel,   \* the sweep's worker slots
  HalfMinute  \* ticks in 30 s

Half == IF Parallel \div 2 <= Parallel - 1 THEN Parallel \div 2 ELSE Parallel - 1

VARIABLES
  suppressed, \* slots held back
  since       \* ticks since `suppressed` last changed, 0 when none is held

vars == <<suppressed, since>>

(* How long `n` suppressed slots stay that way at least.                   *)
Stay(n) == IF n = Half THEN 3 * HalfMinute ELSE HalfMinute

Init == suppressed = 0 /\ since = 0

Reduce == /\ suppressed = 0
          /\ suppressed' = Half
          /\ since' = 0

Restore == /\ suppressed > 0
           /\ since >= Stay(suppressed)
           /\ suppressed' = suppressed - 1
           /\ since' = 0

Pass == /\ suppressed > 0
        /\ since' = since + 1
        /\ UNCHANGED suppressed

Next == Reduce \/ Restore \/ Pass
Spec == Init /\ [][Next]_vars

=============================================================================
