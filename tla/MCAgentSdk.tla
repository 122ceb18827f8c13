------------------------------ MODULE MCAgentSdk ------------------------------
(* AgentSdk for TLC: executes and interaction ids are interchangeable.       *)
(* Symmetry serves the runs without liveness.                                *)
EXTENDS AgentSdk, TLC

NameSymmetry == Permutations(Executes) \cup Permutations(Ids)
===============================================================================
