------------------------------ MODULE MCCommand ------------------------------
(***************************************************************************)
(* Small instances of Command.                                             *)
(***************************************************************************)
EXTENDS Command
=============================================================================
