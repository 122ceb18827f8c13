-------------------------------- MODULE RunLog --------------------------------
(***************************************************************************)
(* What the persisted log promises to its readers (replay, trace, history) *)
(* about a run: it opens once, collects accepted events with ever larger   *)
(* sequence numbers, takes at most one terminal event, which is its last,  *)
(* and is closed at most once, with the status that event stands for.      *)
(* Rejected events, the order in which processes share the database and    *)
(* the way an event is judged are not visible at this level.               *)
(***************************************************************************)
EXTENDS ActionEvents, Integers

CONSTANTS Runs,       \* run identifiers
          SeqNumbers  \* the sequence numbers an agent may use

VARIABLES log,      \* run -> the set of its accepted events, [seq, type]
          outcome   \* run -> "none" | "running" | a terminal status

vars == <<log, outcome>>

Terminated(r) == \E e \in log[r] : e.type \in TerminalTypes

Init == /\ log = [r \in Runs |-> {}]
        /\ outcome = [r \in Runs |-> "none"]

Open(r) == /\ outcome[r] = "none"
           /\ outcome' = [outcome EXCEPT ![r] = "running"]
           /\ UNCHANGED log

Accept(r, e) == /\ outcome[r] = "running"
                /\ ~ Terminated(r)
                /\ \A f \in log[r] : f.seq < e.seq
                /\ log' = [log EXCEPT ![r] = @ \cup {e}]
                /\ UNCHANGED outcome

Close(r) == /\ outcome[r] = "running"
            /\ \E e \in log[r] : /\ e.type \in TerminalTypes
                                 /\ outcome' = [outcome EXCEPT ![r] = StatusOf(e.type)]
            /\ UNCHANGED log

Next == \E r \in Runs :
            \/ Open(r)
            \/ \E e \in [seq : SeqNumbers, type : AllTypes] : Accept(r, e)
            \/ Close(r)

Spec == Init /\ [][Next]_vars
===============================================================================
