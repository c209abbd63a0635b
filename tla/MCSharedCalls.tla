---------------------------- MODULE MCSharedCalls ----------------------------
(* Model-checking instance of SharedCalls: callers and keys are model      *)
(* values, interchangeable among themselves.                               *)
EXTENDS SharedCalls, TLC

CallerKeySymmetry == Permutations(Procs) \cup Permutations(Keys)
=============================================================================
