----------------------------- MODULE MCSubClient -----------------------------
(* Model-checking instance of SubClient: registry keys and server values   *)
(* are model values, interchangeable among themselves.                     *)
EXTENDS SubClient, TLC

KeyValueSymmetry == Permutations(Keys) \cup Permutations(Values)
=============================================================================
