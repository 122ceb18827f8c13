------------------------------ MODULE Conformance ------------------------------
(***************************************************************************)
(* The conformance harness, runAgentConformance: from the flags of         *)
(* `agentctl test` over the base checks and the checks of one command to   *)
(* an execution that is watched, answered or cancelled, and the report.    *)
(*                                                                         *)
(* The harness is one async function on a JavaScript thread: a request to  *)
(* an agent and what follows its await is one step.  The agents of health, *)
(* discover, validate, preview and plan are killed with the answer; the    *)
(* executing one is arbitrary, and is module Execution reduced to what the *)
(* rows depend on.  Its lines arrive in chunks, so that more of them may   *)
(* be handled between the settling of the promise and its continuation.    *)
(* An event is filed under the action it names, which nobody compares with *)
(* the action of the run: a trace lists the events of the action, a replay *)
(* the accepted ones of the run.  No other process writes to the database  *)
(* of the harness.                                                         *)
(*                                                                         *)
(* Rows the code writes for one fact are one row here.  Left out: texts,   *)
(* schemas (a row that depends on one passes or fails), the removal of the *)
(* temporary root, and output after the exit has been seen.                *)
(* X_Something is a mutated form of X, which the checks must refuse.       *)
(***************************************************************************)
EXTENDS ActionEvents, Naturals, Sequences, FiniteSets

CONSTANTS Inputs,     \* what the harness may be called with
          Defs,       \* what the manifest may say of the command
          MaxEvents,  \* bound: kinds of events in the trace
          MaxAsks     \* bound: accepted interaction requests

\* The names of TIMEOUT_, REDACTION_ and INTERACTIVE_COMMANDS are known; any other
\* is "plain".  onTimeout is args.mode.
Input == [from : {"agentctl", "temp", "given"},
          command : {"none", "plain", "choice", "redaction", "timeout"},
          args : BOOLEAN, okPreview : BOOLEAN, approve : BOOLEAN, cancel : BOOLEAN,
          response : {"none", "valid", "invalid"}, onTimeout : {"abort", "answer"}]
Def == [kind : {"absent", "static", "dynamic", "probe_readonly"}, guarded : BOOLEAN]

ASSUME ConformanceAssumption == /\ Inputs \subseteq Input
                                /\ Defs \subseteq Def
                                /\ MaxEvents \in Nat /\ MaxAsks \in Nat

VARIABLES options, pc,
          checks,     \* the rows of the report
          local,      \* the rows of the function that runs, lost when it throws
          threw,      \* has an exception reached the catch of runAgentConformance?
          def,        \* the definition found in the manifest
          asked,      \* the requests the agent has been sent
          mode,       \* which execution
          agent,      \* the executing agent: "none", "alive", "killed", "gone"
          accepted, rejected,  \* kinds of events of the run, or rejected in it
          asks,       \* the interactions table, in order
          responded,
          done,       \* the promise: "open", a terminal state, or "rejected"
          cancel,     \* the status in the reply to agent.cancel
          db,         \* "open" or "closed"
          host        \* "up", or "crashed" by what nothing catches

report == <<pc, checks, local, threw, db>>
trace  == <<accepted, rejected, asks, responded, done>>
vars   == <<options, report, def, asked, mode, agent, trace, cancel, host>>

NoDef == [kind |-> "absent", guarded |-> FALSE]
Requests == {"agent.health", "agent.discover", "agent.validate", "agent.preview",
             "agent.plan", "agent.execute", "agent.cancel"}

Init == /\ options \in Inputs /\ pc = "start"
        /\ checks = {} /\ local = {} /\ threw = FALSE
        /\ def = NoDef /\ asked = {} /\ mode = "none" /\ agent = "none"
        /\ accepted = {} /\ rejected = {} /\ asks = <<>> /\ responded = FALSE /\ done = "open"
        /\ cancel = "none" /\ db = "open" /\ host = "up"

Row(id, ok) == [id |-> id, status |-> IF ok THEN "passed" ELSE "failed"]
Skipped(id) == [id |-> id, status |-> "skipped"]
NoFailure(rows) == \A r \in rows : r.status # "failed"

\* The rest of runAgentConformance, whatever it runs after.
Report(rows) == /\ checks' = checks \cup rows
                /\ local' = {}
                /\ pc' = "reported" /\ db' = "closed"
                /\ UNCHANGED threw

\* An exception: what the throwing function had recorded is lost.
Throw(rows) == /\ checks' = checks \cup rows
               /\ local' = {} /\ threw' = TRUE
               /\ pc' = "reported" /\ db' = "closed"

Goto(label, rows) == pc' = label /\ local' = local \cup rows /\ UNCHANGED <<checks, threw, db>>

Ask(requests) == asked' = asked \cup requests

-------------------------------------------------------------------------------
(* The base checks.                                                        *)

\* Combinations agentctl refuses before it calls the harness.
Refused(o) == \/ (o.command = "none") = o.args
              \/ (o.approve \/ o.okPreview \/ o.cancel) /\ o.command = "none"
              \/ o.cancel /\ ~ o.approve

NeedsEntryAtOnce == options.from # "given"

\* A temporary root needs the registry entry at once, and its absence rejects the
\* promise; in a given root it is looked up among the base checks.
Start == /\ pc = "start"
         /\ IF options.from = "agentctl" /\ Refused(options) THEN Goto("refused", {})
            ELSE \/ Goto("health", {Row("registry.entry", TRUE)})
                 \/ NeedsEntryAtOnce /\ Goto("rejected", {})
                 \/ ~ NeedsEntryAtOnce /\ Throw({})
         /\ UNCHANGED <<options, def, asked, mode, agent, trace, cancel, host>>

\* The error event of a child that cannot be spawned has no listener.
SpawnFails == /\ pc = "health" /\ host = "up"
              /\ host' = "crashed"
              /\ UNCHANGED <<options, report, def, asked, mode, agent, trace, cancel>>

Health == /\ pc = "health" /\ host = "up"
          /\ Ask({"agent.health"})
          /\ \/ Goto("discover", {Row("agent.health", TRUE)})
             \/ Throw({})
          /\ UNCHANGED <<options, def, mode, agent, trace, cancel, host>>

\* validatePreviewPolicies
PolicyOk(d) == d.kind # "dynamic" /\ (d.kind = "probe_readonly" => d.guarded)

\* What runAgentConformance does with the base rows.
Dispatch(base, d, sound) ==
    LET o == options IN
    \/ /\ o.command = "none"
       /\ Report(base \cup IF o.approve \/ o.okPreview THEN {Skipped("command.mode")} ELSE {})
    \/ /\ o.command # "none" /\ ~ o.args
       /\ Report(base \cup {Row("command.args_required", FALSE)})
    \/ /\ o.command # "none" /\ o.args /\ o.cancel /\ ~ o.approve
       /\ Report(base \cup {Row("command.cancel_mode", FALSE)})
    \/ /\ o.command # "none" /\ o.args /\ (o.cancel => o.approve)
       /\ \/ (d.kind = "absent" \/ ~ sound) /\ Throw(base)
          \/ d.kind # "absent" /\ Report(base \cup {Row("command.args_schema", FALSE)})
          \/ /\ d.kind # "absent"
             /\ checks' = base /\ local' = {Row("command.args_schema", TRUE)}
             /\ pc' = "validate" /\ UNCHANGED <<threw, db>>

\* sound: the argument schemas compile and the other commands have their policies.
\* discover itself refuses an invalid manifest and duplicate commands.
Discover == /\ pc = "discover"
            /\ Ask({"agent.discover"})
            /\ \/ Throw({}) /\ UNCHANGED def
               \/ \E d \in Defs, sound \in BOOLEAN :
                     /\ def' = d
                     /\ Dispatch(local \cup {Row("agent.discover", TRUE),
                                             Row("manifest", sound /\ PolicyOk(d))}, d, sound)
            /\ UNCHANGED <<options, mode, agent, trace, cancel, host>>

-------------------------------------------------------------------------------
(* The checks of a command, up to its execution.                           *)

isProbe == def.kind = "probe_readonly"

Validate == /\ pc = "validate"
            /\ Ask({"agent.validate"})
            /\ \/ Goto(IF isProbe THEN "gate" ELSE "preview", {Row("command.agent_validate", TRUE)})
               \/ Report(local \cup {Row("command.agent_validate", FALSE)})
            /\ UNCHANGED <<options, def, mode, agent, trace, cancel, host>>

MayProbe_Always == TRUE
MayProbe == options.okPreview

\* The preview without approval: an unguarded probe is run by it.
Gate == /\ pc = "gate"
        /\ Ask(IF def.guarded THEN {} ELSE {"agent.preview"})
        /\ LET row == Row("command.preview_approval_gate", def.guarded) IN
              \/ ~ def.guarded /\ Throw({})
              \/ MayProbe /\ Goto("probe", {row})
              \/ /\ ~ MayProbe
                 /\ Report(local \cup {row, Skipped("command.probe_preview"),
                                       Skipped("command.prepare_action"), Skipped("command.execute")})
        /\ UNCHANGED <<options, def, mode, agent, trace, cancel, host>>

Probe == /\ pc = "probe"
         /\ Ask({"agent.preview"})
         /\ \/ Goto("prepare", {Row("command.probe_preview", TRUE)})
            \/ Report(local \cup {Row("command.probe_preview", FALSE)})
            \/ Throw({})
         /\ UNCHANGED <<options, def, mode, agent, trace, cancel, host>>

Preview == /\ pc = "preview"
           /\ IF def.guarded
              THEN Report(local \cup {Row("command.static_preview", FALSE)}) /\ UNCHANGED asked
              ELSE /\ Ask({"agent.preview"})
                   /\ \/ Goto("prepare", {Row("command.static_preview", TRUE)})
                      \/ Throw({})
           /\ UNCHANGED <<options, def, mode, agent, trace, cancel, host>>

\* A probe command is executed to the end whatever its name and the cancel option.
Mode == IF isProbe THEN "execute"
        ELSE IF options.command # "plain" THEN options.command
        ELSE IF options.cancel THEN "cancel" ELSE "execute"

Interactive == {"choice", "redaction"}

Prepare == /\ pc = "prepare"
           /\ Ask({"agent.validate", "agent.plan"} \cup IF isProbe THEN {} ELSE {"agent.preview"})
           /\ LET rows == local \cup {Row("command.approval_material", TRUE)} IN
                 \/ Throw({})
                 \/ ~ options.approve /\ Report(rows \cup {Skipped("command.execute")})
                 \/ /\ options.approve /\ Mode \in Interactive /\ options.response = "none"
                    /\ Report(rows \cup {Row("interaction.response_required", FALSE), Skipped("command.execute")})
                 \/ /\ options.approve /\ (Mode \in Interactive => options.response # "none")
                    /\ Goto("execute", {Row("command.approval_material", TRUE)})
           /\ UNCHANGED <<options, def, mode, agent, trace, cancel, host>>

\* The context may have drifted since the plan was made.
Execute == /\ pc = "execute"
           /\ mode' = Mode
           /\ \/ /\ Report(local \cup {Row("command.execute", FALSE)})
                 /\ UNCHANGED <<asked, agent>>
              \/ /\ Ask({"agent.execute"})
                 /\ agent' = "alive"
                 /\ Goto(IF Mode = "cancel" THEN "sleep" ELSE "running", {})
           /\ UNCHANGED <<options, def, trace, cancel, host>>

-------------------------------------------------------------------------------
(* The executing agent.                                                    *)

\* A continuation is due, before any other task.
Due == \/ pc = "running" /\ done # "open"
       \/ pc \in {"sleep", "cancelling"} /\ done = "rejected"

Task == host = "up" /\ ~ Due
Line == host = "up" /\ agent \in {"alive", "killed"} /\ (Due => done # "rejected")

\* here: filed under the action that is executed.
Event(type, here) == [type |-> type, here |-> here]
Types(events) == {e.type : e \in events}
Filed(events) == {e \in events : e.here}

Room(events) == Cardinality(events) + Cardinality(rejected) <= MaxEvents
NoTerminal  == Types(accepted) \cap TerminalTypes = {}
Abandoned   == [i \in DOMAIN asks |-> IF asks[i].status = "pending"
                                      THEN [asks[i] EXCEPT !.status = "abandoned"] ELSE asks[i]]

\* Ingest of anything on the closed database throws in the listener of the line.
LateEvent == /\ Line /\ db = "closed"
             /\ host' = "crashed"
             /\ UNCHANGED <<options, report, def, asked, mode, agent, trace, cancel>>

RejectedMayAnswer_Yes(type) == responded' = (responded \/ (type = "interaction" /\ mode \in Interactive))
RejectedMayAnswer(type) == UNCHANGED responded

RejectedEvent(type, here) ==
    /\ Line /\ db = "open"
    /\ rejected' = rejected \cup {Event(type, here)}
    /\ Cardinality(accepted) + Cardinality(rejected') <= MaxEvents
    /\ RejectedMayAnswer(type)
    /\ UNCHANGED <<options, report, def, asked, mode, agent, accepted, asks, done, cancel, host>>

AcceptedEvent(type, here) ==
    /\ Line /\ db = "open" /\ NoTerminal
    /\ accepted' = accepted \cup {Event(type, here)} /\ Room(accepted')
    /\ UNCHANGED <<options, report, def, asked, mode, agent, rejected, asks, responded, done, cancel, host>>

\* The first accepted request is answered from within the event handler; a response
\* that does not validate leaves it pending.
Answers == mode \in Interactive /\ ~ responded /\ done = "open"

\* clear: the request itself shows a secret.
AcceptedInteraction(policy, marked, clear, here) ==
    /\ Line /\ db = "open" /\ NoTerminal /\ Len(asks) < MaxAsks
    /\ accepted' = accepted \cup {Event("interaction", here)}
                             \cup IF clear THEN {Event("leak", here)} ELSE {}
    /\ Room(accepted')
    /\ asks' = Append(asks, [policy |-> policy, marked |-> marked, timed |-> FALSE,
                             status |-> IF Answers /\ options.response = "valid"
                                        THEN "responded" ELSE "pending"])
    /\ responded' = (responded \/ mode \in Interactive)
    /\ UNCHANGED <<options, report, def, asked, mode, agent, rejected, done, cancel, host>>

\* The id of a request is that of an earlier one: the event is filed, and the insert of
\* the interaction throws in the listener of the line.
RepeatedInteraction(here) ==
    /\ Line /\ db = "open" /\ NoTerminal /\ asks # <<>>
    /\ accepted' = accepted \cup {Event("interaction", here)} /\ Room(accepted')
    /\ host' = "crashed"
    /\ UNCHANGED <<options, report, def, asked, mode, agent, rejected, asks, responded, done, cancel>>

AcceptedTerminal_Unsettled(type, here) ==
    /\ Line /\ db = "open" /\ NoTerminal
    /\ accepted' = accepted \cup {Event(type, here)} /\ Room(accepted')
    /\ UNCHANGED <<options, report, def, asked, mode, agent, rejected, asks, responded, done, cancel, host>>

AcceptedTerminal(type, here) ==
    /\ Line /\ db = "open" /\ NoTerminal
    /\ accepted' = accepted \cup {Event(type, here)} /\ Room(accepted')
    /\ IF done = "open" THEN done' = StatusOf(type) /\ asks' = Abandoned
                        ELSE UNCHANGED <<done, asks>>
    /\ UNCHANGED <<options, report, def, asked, mode, agent, rejected, responded, cancel, host>>

\* A result without a terminal event.  On a closed database the exception is caught
\* by the .catch that follows, which finds the run settled.
ExecuteResult ==
    /\ Line /\ done = "open"
    /\ done' = "failed" /\ asks' = Abandoned
    /\ UNCHANGED <<options, report, def, asked, mode, agent, accepted, rejected, responded, cancel, host>>

RejectDone_Never == UNCHANGED <<done, asks, host>>

\* The .catch of the execute request: on a closed database it throws itself.
RejectDone == IF done # "open" THEN UNCHANGED <<done, asks, host>>
              ELSE IF db = "closed" THEN host' = "crashed" /\ UNCHANGED <<done, asks>>
              ELSE done' = "rejected" /\ asks' = Abandoned /\ UNCHANGED host

ExecuteError ==
    /\ Line /\ done = "open"
    /\ RejectDone
    /\ UNCHANGED <<options, report, def, asked, mode, agent, accepted, rejected, responded, cancel>>

AgentGone ==
    /\ Task /\ agent \in {"alive", "killed"}
    /\ agent' = "gone"
    /\ RejectDone
    /\ UNCHANGED <<options, report, def, asked, mode, accepted, rejected, responded, cancel>>

\* The timer of the last request.
Last == asks[Len(asks)]
Armed == asks # <<>> /\ Last.status = "pending" /\ Last.policy # "none" /\ done = "open"

TimerFires ==
    /\ Task /\ Armed /\ agent # "killed"
    /\ asks' = [asks EXCEPT ![Len(asks)].timed = TRUE,
                            ![Len(asks)].status = IF Last.policy = "abort" THEN "timed_out" ELSE "responded"]
    /\ UNCHANGED <<options, report, def, asked, mode, agent, accepted, rejected, responded, done, cancel, host>>

-------------------------------------------------------------------------------
(* Cancelling.                                                             *)

\* control.close(): the timer, which counts no more once the agent is killed, and
\* the process.
Close == agent' = IF agent = "alive" THEN "killed" ELSE agent

CloseAfterFailedCancel_Not == UNCHANGED agent
CloseAfterFailedCancel == Close

SleepEnds == /\ Task /\ pc = "sleep"
             /\ Ask({"agent.cancel"})
             /\ Goto("cancelling", {})
             /\ UNCHANGED <<options, def, mode, agent, trace, cancel, host>>

AckRow(status) == Row("cancel.agent_response", status = "cancel_requested")

CancelReply(status) == /\ Line /\ pc = "cancelling"
                       /\ cancel' = status
                       /\ Goto("running", {AckRow(status)})
                       /\ UNCHANGED <<options, def, asked, mode, agent, trace, host>>

\* An error reply, or no agent.  The promise of the run is left without a handler.
CancelFails == /\ host = "up" /\ pc = "cancelling"
               /\ agent = "gone" \/ Line
               /\ CloseAfterFailedCancel
               /\ Report(local \cup {Row("cancel.agent_response", FALSE)})
               /\ host' = IF done = "rejected" THEN "crashed" ELSE "up"
               /\ UNCHANGED <<options, def, asked, mode, trace, cancel>>

\* The harness has not come to its await of the promise.  When the exit of the agent
\* rejects that, the failure of the cancel request is handled first.
Unawaited == pc = "sleep" \/ (pc = "cancelling" /\ agent # "gone")

UnhandledRejection == /\ host = "up" /\ done = "rejected"
                      /\ Unawaited
                      /\ host' = "crashed"
                      /\ UNCHANGED <<options, report, def, asked, mode, agent, trace, cancel>>

-------------------------------------------------------------------------------
(* The rows of an execution.                                               *)

\* What the handler of execute and timeout checks has collected: it does not look at
\* the verdict.  Malformed events do not reach a handler.
handled == Types(accepted \cup rejected) \ {"malformed"}

RunStatus == IF NoTerminal THEN "running"
             ELSE StatusOf(CHOOSE type \in TerminalTypes : type \in Types(accepted))

\* The rejected events of the trace, and its accepted ones against those of the replay.
NoRejected_WellFormed == Types(Filed(rejected)) \subseteq {"malformed"}
NoRejected == Filed(rejected) = {}
ReplayMatches == accepted = Filed(accepted)

InteractiveRows == {Row("interaction.required_event", "interaction" \in Types(accepted)),
                    Row("interaction.response_sent", responded),
                    Row("interaction.terminal_state", done = "succeeded")}

\* The secrets are looked for in the trace, which has the rejected events of the action
\* and the interactions, and in the replay.  A response is stored in the clear if the
\* request does not mark its field; that of a timeout is the default of the request.
SecretAbsent ==
    /\ "leak" \notin Types(accepted \cup Filed(rejected))
    /\ \A i \in DOMAIN asks : asks[i].status = "responded" /\ ~ asks[i].timed => asks[i].marked

\* proof: response and default have the field, and the result, which the trace takes from
\* its accepted events, shows that the agent has got the secret.
RedactionRows(proof) ==
    InteractiveRows \cup
    {Row("interaction.redaction_trace_row", asks # <<>>),
     Row("interaction.redaction_response",
         proof /\ asks # <<>> /\ asks[1].marked /\ asks[1].status = "responded"),
     Row("interaction.redaction_default", proof /\ asks # <<>> /\ asks[1].marked),
     Row("interaction.redaction_secret_absent", SecretAbsent),
     Row("interaction.redaction_agent_live", proof /\ Event("action.succeeded", TRUE) \in accepted)}

CancelRows == {Row("cancel.terminal_state", done = "cancelled"),
               Row("cancel.terminal_event", "action.cancelled" \in Types(accepted)),
               Row("cancel.no_succeeded", "action.succeeded" \notin Types(accepted)),
               Row("cancel.no_rejected", NoRejected),
               Row("cancel.history_status", RunStatus = "cancelled"),
               Row("cancel.replay", ReplayMatches)}

Expected == IF options.onTimeout = "abort" THEN "action.failed" ELSE "action.succeeded"

TimeoutRows ==
    {Row("interaction.required_event", "interaction" \in handled),
     Row("interaction.timeout_terminal", Expected \in handled),
     Row("interaction.timeout_trace", asks # <<>> /\ asks[1].timed),
     Row("interaction.timeout_status",
         asks # <<>> /\ asks[1].status = IF options.onTimeout = "abort" THEN "timed_out" ELSE "responded")}

\* ordered and shapes: sequence numbers of what was handled, and schemas of events and
\* blocks.  Accepted events alone are in order.  The blocks asked for are those of an
\* accepted action.succeeded of the trace.
ExecuteRows(ordered, shapes) ==
    {Row("execution.event_order", handled # {} /\ (ordered \/ Types(rejected) \subseteq {"malformed"})),
     Row("execution.event_schema", shapes),
     Row("execution.terminal_event", "action.succeeded" \in handled),
     Row("execution.no_rejected", NoRejected),
     Row("execution.trace", Filed(accepted) # {}),
     Row("execution.replay", ReplayMatches),
     Row("execution.diff_artifact_blocks", shapes /\ Event("action.succeeded", TRUE) \in accepted)}

Rows(proof, ordered) == CASE mode = "choice"    -> InteractiveRows
                          [] mode = "redaction" -> RedactionRows(proof)
                          [] mode = "cancel"    -> CancelRows
                          [] mode = "timeout"   -> TimeoutRows
                          [] OTHER              -> ExecuteRows(ordered, proof)

\* Promise settled, control closed, rows read, database closed: without a task between.
Finish == /\ host = "up" /\ pc = "running" /\ done # "open"
          /\ Close
          /\ IF done = "rejected"
             THEN Report(local \cup {Row("command.execute", FALSE)})
             ELSE \E proof, ordered \in BOOLEAN :
                     Report(local \cup {Row("command.execute", TRUE)} \cup Rows(proof, ordered))
          /\ UNCHANGED <<options, def, asked, mode, trace, cancel, host>>

-------------------------------------------------------------------------------
Checks == Start \/ Health \/ Discover \/ Validate \/ Gate \/ Probe \/ Preview \/ Prepare \/ Execute

\* Only the checks on redaction look for a secret, and give the agent one.  Those of an
\* execution or a cancel look at no interaction, and only those of a timeout tell one that
\* is aborted from one without a policy.
Leaks == IF mode = "redaction" THEN {"leak"} ELSE {}
Marks == IF mode = "redaction" THEN BOOLEAN ELSE {FALSE}
Policies == CASE mode = "timeout"       -> {"none", "abort", "answer"}
              [] mode \in Interactive   -> {"none", "answer"}
              [] OTHER                  -> {"none"}

Agent == \/ \E here \in BOOLEAN :
               \/ \E type \in {"log"} \cup Leaks : AcceptedEvent(type, here)
               \/ \E type \in TerminalTypes \cup {"interaction", "malformed"} \cup Leaks : RejectedEvent(type, here)
               \/ \E policy \in Policies, marked, clear \in Marks :
                      AcceptedInteraction(policy, marked, clear, here)
               \/ RepeatedInteraction(here)
               \/ \E type \in TerminalTypes : AcceptedTerminal(type, here)
         \/ LateEvent \/ ExecuteResult \/ ExecuteError
         \/ \E status \in {"cancel_requested", "other"} : CancelReply(status)

Next == \/ Checks \/ SpawnFails
        \/ Agent \/ AgentGone
        \/ TimerFires \/ SleepEnds \/ CancelFails \/ UnhandledRejection \/ Finish

Spec == Init /\ [][Next]_vars

\* Only the event loop is fair: the timer of the sleep fires, continuations run.
FairSpec == Spec /\ WF_vars(SleepEnds) /\ WF_vars(Finish)
                 /\ WF_vars(UnhandledRejection) /\ WF_vars(agent = "gone" /\ CancelFails)

-------------------------------------------------------------------------------
(* Correctness.                                                            *)

\* Every variable holds a value of its type.
TypeOK ==
    /\ options \in Inputs
    /\ pc \in {"start", "refused", "rejected", "health", "discover", "validate", "gate", "probe",
               "preview", "prepare", "execute", "sleep", "cancelling", "running", "reported"}
    /\ \A r \in checks \cup local : r.status \in {"passed", "failed", "skipped"}
    /\ threw \in BOOLEAN
    /\ def \in Def /\ asked \subseteq Requests
    /\ mode \in {"none", "execute", "cancel"} \cup (Interactive \cup {"timeout"})
    /\ agent \in {"none", "alive", "killed", "gone"}
    /\ accepted \subseteq [type : TerminalTypes \cup {"log", "leak", "interaction"}, here : BOOLEAN]
    /\ rejected \subseteq [type : TerminalTypes \cup {"leak", "malformed", "interaction"}, here : BOOLEAN]
    /\ \A i \in DOMAIN asks : asks[i].status \in {"pending", "responded", "timed_out", "abandoned"}
    /\ responded \in BOOLEAN
    /\ done \in TerminalStatuses \cup {"open", "rejected"}
    /\ cancel \in {"none", "cancel_requested", "other"}
    /\ db \in {"open", "closed"} /\ host \in {"up", "crashed"}

Passed == pc = "reported" /\ NoFailure(checks)

\* The harness does not let an agent act without the flags: nothing about a command
\* without one, no execution without --approve, and of a guarded probe neither preview
\* nor plan without --approve-preview, through whichever entry it is called.
NothingRunsUnapproved ==
    /\ options.command = "none" => asked \subseteq {"agent.health", "agent.discover"}
    /\ ~ options.approve => asked \cap {"agent.execute", "agent.cancel"} = {}
    /\ isProbe /\ def.guarded /\ ~ options.okPreview => asked \cap {"agent.preview", "agent.plan"} = {}

\* A report of an execution that passes tells the truth, in whichever order reply,
\* events, exit and the end of the sleep came, although the handler of some checks takes
\* rejected events for accepted ones and trace and replay read the events by two keys:
\* the run is recorded as succeeded, or as cancelled by an agent that acknowledged the
\* request; where the report speaks of rejected events, none is filed under the action and
\* every accepted one is; an agent checked for redaction has been asked for a secret in a
\* marked field, and trace and replay show it nowhere; an interaction timed out as the mode
\* says, and so did the run, unless its terminal event was rejected.
PassedReportIsTrue ==
    Passed /\ agent # "none" =>
        /\ mode \in {"execute", "choice", "redaction"} => RunStatus = "succeeded"
        /\ mode = "cancel" => cancel = "cancel_requested" /\ RunStatus = "cancelled" /\ done = "cancelled"
        /\ mode \in {"execute", "cancel"} => Filed(rejected) = {} /\ Filed(accepted) = accepted
        /\ mode \in Interactive \cup {"timeout"} => asks # <<>>
        /\ mode = "redaction" => asks[1].marked /\ SecretAbsent
        /\ mode = "timeout" => /\ asks[1].timed
                               /\ Expected \in Types(rejected) \/ RunStatus = StatusOf(Expected)

\* The harness waits on an interaction that nothing will decide only if its seeded
\* response was refused or the agent asked a second time: a rejected request, which
\* the handler sees as well, does not use up the one answer.
AnswerIsGiven ==
    mode \in Interactive /\ done = "open" /\ asks # <<>> /\ Last.status = "pending" =>
        options.response = "invalid" \/ Len(asks) > 1

\* An agent that has ended its run cannot keep the harness from its report, neither by a
\* crash afterwards, nor with the failure of the execute request or its own exit.  (The
\* harness does crash before its report: at an agent that cannot be spawned, at a repeated
\* interaction_id, and when an execute fails that nobody awaits yet.)
EndedRunIsReported ==
    host = "crashed" /\ agent # "none" /\ pc # "reported" => NoTerminal

\* No agent is left running when the report is returned, on any path.
AgentIsClosed == pc = "reported" => agent # "alive"

\* Once the executing agent has gone the harness ends, with a report or a crash.
EndsAfterExit == agent = "gone" ~> (pc = "reported" \/ host = "crashed")

-------------------------------------------------------------------------------
(* What the repository says of the program and the code does not do.       *)

\* The comment in the catch of runAgentConformance, "base checks already recorded
\* failure rows": when something has thrown, the report has a failed row.
FailureIsReported == pc = "reported" /\ threw => ~ NoFailure(checks)
===============================================================================
