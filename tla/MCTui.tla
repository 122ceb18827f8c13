---------------------------------- MODULE MCTui --------------------------------
(* Tui for TLC: submissions, executions and responses are interchangeable.    *)
EXTENDS Tui, TLC

SlotSymmetry == Permutations(Tasks) \cup Permutations(Runs) \cup Permutations(Answers)
===============================================================================
