------------------------------ MODULE MCRunOne ------------------------------
(***************************************************************************)
(* Small instances of RunOne.  "api" is transient and worth a retry; "bad" *)
(* stands for every category that is not, since no property tells them     *)
(* apart.                                                                  *)
(***************************************************************************)
EXTENDS RunOne

MCCats == {"api", "bad"}
MCRetryOn == {"api"}
=============================================================================
