----------------------------- MODULE MCEventStore -----------------------------
(* EventStore for TLC: run identifiers are interchangeable.                  *)
EXTENDS EventStore, TLC

RunSymmetry == Permutations(Runs)
===============================================================================
