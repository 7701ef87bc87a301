------------------------------- MODULE Delivery -------------------------------
(***************************************************************************)
(* What a webhook sink of src/stream promises whoever emits an event: the  *)
(* event is taken in or counted as dropped at once, and what was taken in  *)
(* is later delivered or counted, each event once.                         *)
(***************************************************************************)
EXTENDS Integers

CONSTANT Room  \* events that can be on their way, at least one

VARIABLES
  emitted,    \* events so far
  waiting,    \* events on their way
  delivered,  \* events that were answered with success
  counted     \* events in webhook_events_dropped

vars == <<emitted, waiting, delivered, counted>>

Init == emitted = 0 /\ waiting = 0 /\ delivered = 0 /\ counted = 0

Emitted == emitted' = emitted + 1 /\ UNCHANGED delivered
Accept == Emitted /\ waiting < Room /\ waiting' = waiting + 1 /\ UNCHANGED counted
Refuse == Emitted /\ waiting > 0 /\ counted' = counted + 1 /\ UNCHANGED waiting

Settled == waiting > 0 /\ waiting' = waiting - 1 /\ UNCHANGED emitted
Deliver == Settled /\ delivered' = delivered + 1 /\ UNCHANGED counted
Fail == Settled /\ counted' = counted + 1 /\ UNCHANGED delivered

Next == Accept \/ Refuse \/ Deliver \/ Fail

Spec == Init /\ [][Next]_vars
=============================================================================
