---------------------------- MODULE MCInteractionCli ---------------------------
(* InteractionCli for TLC: interaction ids are interchangeable in the runs  *)
(* without liveness.                                                         *)
EXTENDS InteractionCli, TLC

InteractionSymmetry == Permutations(Interactions)
===============================================================================
