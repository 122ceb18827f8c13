----------------------------- MODULE MCConformance -----------------------------
(* Conformance for TLC: every combination of flags that can make a difference to   *)
(* each other.  A response is given to interactive commands and a timeout mode to  *)
(* the timeout command, cancelling is asked of the plain one, both approvals only  *)
(* of the choice command with a valid response, and a given root is not combined   *)
(* with an execution, which would only repeat that of the command line.  A dynamic *)
(* preview is like a static one whose policy row fails, which other commands of    *)
(* the manifest can bring about too.  A second request, which the harness never    *)
(* answers, is made in the choice and the timeout checks only.                     *)
EXTENDS Conformance
Relevant(o) == /\ o.from = "temp" => Refused(o)
               /\ o.from = "given" => ~ o.approve
               /\ o.response # "none" => o.command \in Interactive /\ o.approve
               /\ o.onTimeout = "answer" => o.command = "timeout"
               /\ o.cancel => o.command \in {"none", "plain"}
               /\ o.okPreview => \/ o.command = "none"
                                 \/ o.command = "plain" /\ ~ o.approve
                                 \/ o.command = "choice" /\ o.approve /\ o.response = "valid"
AllInputs == {o \in Input : Relevant(o)}
AllDefs == {d \in Def : d.kind # "dynamic" /\ (d.guarded => d.kind # "absent")}
SecondRequest == Len(asks) > 1 => mode \in {"choice", "timeout"}
================================================================================
