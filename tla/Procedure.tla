----------------------------- MODULE Procedure -----------------------------
(* One run of a sequential procedure.  The modules that model the program's  *)
(* decision procedures share this state; each starts from calls of its own   *)
(* and steps through its loops.                                              *)

VARIABLES
    call,   \* what the procedure was called with
    at,     \* where it is
    acc     \* what it has computed so far

vars == <<call, at, acc>>
=============================================================================
