----------------------------- MODULE MCGovernor -----------------------------
(***************************************************************************)
(* A small instance of Governor.  A tick is 30 seconds, so one permit comes*)
(* every tick and the third one early enough for a storm whose first slot  *)
(* is restored before the clock stops.                                     *)
(***************************************************************************)
EXTENDS Governor

CONSTANTS w1, w2
=============================================================================
