---------------------------- MODULE MCTimeoutLimit ----------------------------
(* TimeoutLimit on its own, for the run that looks for a Borrow timing out *)
(* while a slot is free.                                                   *)
EXTENDS TimeoutLimit
=============================================================================
