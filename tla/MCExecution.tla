------------------------------ MODULE MCExecution -----------------------------
(* Execution for TLC: the user's calls are interchangeable, and so are the   *)
(* interaction ids.  Symmetry serves the runs without liveness.              *)
EXTENDS Execution, TLC

NameSymmetry == Permutations(UserCalls) \cup Permutations(Interactions)
===============================================================================
