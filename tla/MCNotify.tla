------------------------------ MODULE MCNotify ------------------------------
(***************************************************************************)
(* Small instances of Notify.                                              *)
(***************************************************************************)
EXTENDS Notify
=============================================================================
