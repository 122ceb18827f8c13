----------------------------- MODULE ActionEvents -----------------------------
(***************************************************************************)
(* The vocabulary of action events that the runtime's modules share.       *)
(*                                                                         *)
(* The protocol's event types matter to the runtime in three classes:      *)
(* terminal types, the interaction request, and everything else ("log"     *)
(* stands for action.started, progress, step, log and artifact events,     *)
(* which the runtime treats alike).                                        *)
(*                                                                         *)
(* In this and the other modules a definition named X_Something is a       *)
(* mutated form of X, the definition that follows it: no specification     *)
(* uses it, and the README says which property notices the difference.     *)
(***************************************************************************)

TerminalTypes == {"action.succeeded", "action.failed", "action.cancelled"}

AllTypes == TerminalTypes \cup {"interaction.required", "log"}

TerminalStatuses == {"succeeded", "failed", "cancelled"}


\* The conditional expression that picks the status passed to closeRun.
StatusOf(type) ==
    CASE type = "action.succeeded" -> "succeeded"
      [] type = "action.failed"    -> "failed"
      [] OTHER                     -> "cancelled"
===============================================================================
