------------------------------ MODULE ActionTrace ------------------------------
(***************************************************************************)
(* The record of one action: what the process that executes it writes, and *)
(* what history, trace and replay read of it in another process, each      *)
(* statement by statement.  Marked top-level fields of what users and      *)
(* agents enter are redacted on the way into the tables; the agent still   *)
(* gets them as they are.                                                  *)
(*                                                                         *)
(* An event carries a run_id and an action_id.  ingest compares the first  *)
(* with the run and never the second, and files the event under both as    *)
(* they came: an event of this run may be filed under another action, and  *)
(* an event of another run under this one.  A replay reads by run_id, the  *)
(* events of a trace are read by action_id.                                *)
(*                                                                         *)
(* An action has at most one run (OneRunPerApproval of Lifecycle), and why *)
(* an event is rejected is the matter of EventStore.  Left out: the rows   *)
(* of plan, context and approval, the counts, and the interactions a trace *)
(* shows, which are the rows of the table.                                 *)
(***************************************************************************)
EXTENDS ActionEvents, Naturals, Sequences

CONSTANTS EventTypes, \* protocol event types in play
          Fields,     \* top-level properties of a prompt schema
          MaxEvents,  \* bound: rows of the events table
          MaxAsks     \* bound: interactions of the run

ASSUME TraceAssumption == EventTypes \subseteq AllTypes /\ MaxEvents \in Nat /\ MaxAsks \in Nat

VARIABLES pc,           \* the executing process: "before" its run, "open", in front of the
                        \* statement "ask" or "settle", with a terminal event in hand that it
                        \* closes the run for (then its type), or "over"
          status,       \* of the run row, "none" without one
          events,       \* the events table in order of ids, without what is neither of
                        \* this run nor of this action
          interactions, \* the interactions table of the run in order of ids
          asked,        \* pendingInteraction as the agent sent it, or NoRequest
          sent,         \* what the agent was sent for each interaction
          settled,
          reading,      \* the next statement of the reader, "none" or "done"
          view          \* what it has read

writer == <<pc, status, events, interactions, asked, sent, settled>>
reader == <<reading, view>>
vars == <<writer, reader>>

REDACTED_SENTINEL == "[REDACTED]"

\* A response or default: nothing, a choice, or an object with some of the fields.
Nothing == [form |-> "nothing", at |-> <<>>]
Choice  == [form |-> "choice", at |-> <<>>]
Object(contents) == {[form |-> "object", at |-> f] :
                        f \in UNION {[S -> contents] : S \in SUBSET Fields}}
Control == [form |-> "object", at |-> <<>>]

Entered == {Choice} \cup Object({"original"})
Stored  == {Nothing, Choice} \cup Object({"original", REDACTED_SENTINEL})

\* A prompt is for a choice or, with a prompt_schema, for an object.
RequestType == [prompt : {"choice", "object"}, marked : SUBSET Fields, default : Stored,
                policy : {"none", "abort", "use_default", "continue"}]

NoRequest == [prompt |-> "none"]

\* validateInteractionTimeoutPolicy: the default of use_default fits the prompt.
Requests == {q \in RequestType :
                /\ q.default \in Entered \cup {Nothing}
                /\ q.prompt = "choice" => q.marked = {}
                /\ q.policy = "use_default" => q.default.form = q.prompt}

-------------------------------------------------------------------------------
(* Redaction.                                                              *)

redactObjectByPaths(value, paths) ==
    [value EXCEPT !.at = [k \in DOMAIN @ |-> IF k \in paths THEN REDACTED_SENTINEL ELSE @[k]]]

redactedPaths(value, paths) == paths \cap DOMAIN value.at

redactInteractionRequest(q) ==
    [q EXCEPT !.default = redactObjectByPaths(@, q.marked)]

redactInteractionRequiredEvent_AsSent(q) == q
redactInteractionRequiredEvent(q) == redactInteractionRequest(q)

mergeRedactedPaths_Newest(old, new) == new
mergeRedactedPaths(old, new) == old \cup new

-------------------------------------------------------------------------------
(* The executing process.                                                  *)

\* The rows a query returns are a set of ids.  The query by action orders by the id; the
\* one by run by seq and then id, which is the same order (ReplayOrderIsAcceptanceOrder
\* of EventStore).
listAcceptedEventsForRun == {i \in DOMAIN events : events[i].ours /\ events[i].accepted}
listEventsForAction == {i \in DOMAIN events : events[i].filed}

NoView == [op |-> "none", status |-> "none", accepted |-> {}, timeline |-> {}]

Init == /\ pc = "before" /\ status = "none"
        /\ events = <<>> /\ interactions = <<>> /\ sent = <<>>
        /\ asked = NoRequest /\ settled = FALSE
        /\ reading = "none" /\ view = NoView

\* Whether the row has the run_id of this run, and whether it has its action_id.
Row(accepted, type, q, ours, filed) ==
    [accepted |-> accepted, type |-> type, request |-> q, ours |-> ours, filed |-> filed]

isRunTerminal == \E i \in listAcceptedEventsForRun : events[i].type \in TerminalTypes

createRun == /\ pc = "before"
             /\ pc' = "open" /\ status' = "running"
             /\ UNCHANGED <<events, interactions, asked, sent, settled, reader>>

\* ingest of an event of the run that is filed as rejected.  What it holds, its type
\* included, is read by nothing here and left out, as are the rejected ones of other runs.
Reject(filed) ==
    /\ pc = "open" /\ Len(events) < MaxEvents
    /\ events' = Append(events, Row(FALSE, "log", NoRequest, TRUE, filed))
    /\ UNCHANGED <<pc, status, interactions, asked, sent, settled, reader>>

Accept(type, filed) ==
    /\ pc = "open" /\ Len(events) < MaxEvents /\ ~ isRunTerminal
    /\ type # "interaction.required"
    /\ events' = Append(events, Row(TRUE, type, NoRequest, TRUE, filed))
    /\ pc' = IF type \in TerminalTypes THEN type ELSE "open"
    /\ UNCHANGED <<status, interactions, asked, sent, settled, reader>>

\* The runtime keeps the interaction as it came.
AcceptInteraction(q, filed) ==
    /\ pc = "open" /\ Len(events) < MaxEvents /\ ~ isRunTerminal
    /\ Len(interactions) < MaxAsks
    /\ events' = Append(events, Row(TRUE, "interaction.required",
                                   redactInteractionRequiredEvent(q), TRUE, filed))
    /\ asked' = q
    /\ pc' = "ask"
    /\ UNCHANGED <<status, interactions, sent, settled, reader>>

\* ingest in the process of another run, of an event that it accepts, since it has the
\* run_id of that run, and that names this action.  What a request of it holds is left out.
AcceptElsewhere(type) ==
    /\ Len(events) < MaxEvents
    /\ events' = Append(events, Row(TRUE, type, NoRequest, FALSE, TRUE))
    /\ UNCHANGED <<pc, status, interactions, asked, sent, settled, reader>>

insertPendingInteraction ==
    /\ pc = "ask"
    /\ interactions' = Append(interactions,
           [request |-> redactInteractionRequest(asked), response |-> Nothing,
            status |-> "pending", redacted |-> redactedPaths(asked.default, asked.marked)])
    /\ sent' = Append(sent, Nothing)
    /\ pc' = "open"
    /\ UNCHANGED <<status, events, asked, settled, reader>>

closeRun == status' = StatusOf(pc)

\* After its terminal event: the update of the run row, then maybeFinish.
Close == /\ pc \in TerminalTypes
         /\ closeRun
         /\ pc' = IF settled THEN "open" ELSE "settle"
         /\ UNCHANGED <<events, interactions, asked, sent, settled, reader>>

Abandon == interactions' = [i \in DOMAIN interactions |->
                              IF interactions[i].status = "pending"
                              THEN [interactions[i] EXCEPT !.status = "abandoned"]
                              ELSE interactions[i]]

\* The end of the promise, after a terminal event, a reply or an error.
Settle == /\ pc \in {"open", "settle"} /\ ~ settled
          /\ settled' = TRUE
          /\ Abandon
          /\ asked' = NoRequest
          /\ pc' = "open"
          /\ UNCHANGED <<status, events, sent, reader>>

\* markInteractionResponded of the last interaction, whose marks are those of the
\* stored request, and the request to the agent.
markInteractionResponded(value) ==
    LET i   == Len(interactions)
        row == interactions[i]
    IN  interactions' = [interactions EXCEPT ![i].status = "responded",
           ![i].response = redactObjectByPaths(value, row.request.marked),
           ![i].redacted = mergeRedactedPaths(@, redactedPaths(value, row.request.marked))]

Send(value) == /\ sent' = [sent EXCEPT ![Len(interactions)] = value]
               /\ asked' = NoRequest
               /\ UNCHANGED <<pc, status, events, settled, reader>>

\* A response that fits the prompt, or one in the form of a control response.
Respond(value) ==
    /\ pc = "open" /\ ~ settled /\ asked # NoRequest
    /\ value.form = asked.prompt \/ value = Control
    /\ markInteractionResponded(value)
    /\ Send(value)

buildTimeoutControlResponse_Stored(q) ==
    IF q.policy = "use_default" THEN redactInteractionRequest(q).default ELSE Control
buildTimeoutControlResponse(q) ==
    IF q.policy = "use_default" THEN q.default ELSE Control

TimesOut ==
    /\ pc = "open" /\ ~ settled /\ asked # NoRequest /\ asked.policy # "none"
    /\ LET value == buildTimeoutControlResponse(asked)
       IN  /\ IF asked.policy = "abort"
              THEN interactions' = [interactions EXCEPT ![Len(interactions)].status = "timed_out"]
              ELSE markInteractionResponded(value)
           /\ Send(value)

\* The process ends, between any two statements.
Ends == /\ pc # "over"
        /\ pc' = "over"
        /\ UNCHANGED <<status, events, interactions, asked, sent, settled, reader>>

-------------------------------------------------------------------------------
(* The reader.                                                             *)

\* The newest run row of the action, for an entry of the history or for a trace.
ReadRuns(op) ==
    /\ reading = "none"
    /\ view' = [NoView EXCEPT !.op = op, !.status = status]
    /\ reading' = IF op = "trace" THEN "events" ELSE IF status = "none" THEN "done" ELSE "timeline"
    /\ UNCHANGED writer

\* The rows of the action, split into accepted and rejected ones.
ReadEvents == /\ reading = "events"
              /\ view' = [view EXCEPT !.accepted = {i \in listEventsForAction : events[i].accepted}]
              /\ reading' = "latest"
              /\ UNCHANGED writer

\* replayAction: the latest run, then its events.
ReadLatestRun == /\ reading = "latest"
                 /\ reading' = IF status = "none" THEN "done" ELSE "timeline"
                 /\ UNCHANGED <<view, writer>>

Timeline_Rejected == {i \in DOMAIN events : events[i].ours}
Timeline == listAcceptedEventsForRun

ReadTimeline_StatusToo ==
    /\ reading = "timeline"
    /\ view' = [view EXCEPT !.timeline = Timeline, !.status = status]
    /\ reading' = "done"
    /\ UNCHANGED writer
ReadTimeline == /\ reading = "timeline"
                /\ view' = [view EXCEPT !.timeline = Timeline]
                /\ reading' = "done"
                /\ UNCHANGED writer

Shown == /\ reading = "done"
         /\ reading' = "none" /\ view' = NoView
         /\ UNCHANGED writer

\* The status of the last terminal event among them.
terminalStateFromAcceptedEvents(ids) ==
    LET ends == {i \in ids : events[i].type \in TerminalTypes}
    IN  IF ends = {} THEN "none"
        ELSE StatusOf(events[CHOOSE i \in ends : \A j \in ends : j <= i].type)

-------------------------------------------------------------------------------
Next == \/ createRun \/ insertPendingInteraction \/ Close \/ Settle \/ TimesOut \/ Ends
        \/ \E type \in EventTypes : AcceptElsewhere(type) \/ \E filed \in BOOLEAN : Accept(type, filed)
        \/ \E filed \in BOOLEAN : Reject(filed)
        \/ \E q \in Requests, filed \in BOOLEAN : AcceptInteraction(q, filed)
        \/ \E value \in Entered : Respond(value)
        \/ \E op \in {"trace", "entry"} : ReadRuns(op)
        \/ ReadEvents \/ ReadLatestRun \/ ReadTimeline \/ Shown

Spec == Init /\ [][Next]_vars

-------------------------------------------------------------------------------
(* Properties.                                                             *)

\* The tables, the process and the reader have their types.
TypeOK ==
    /\ pc \in {"before", "open", "ask", "settle", "over"} \cup TerminalTypes
    /\ status \in {"none", "running"} \cup TerminalStatuses
    /\ \A i \in DOMAIN events :
           events[i] \in [accepted : BOOLEAN, type : AllTypes, request : RequestType \cup {NoRequest},
                         ours : BOOLEAN, filed : BOOLEAN]
    /\ \A i \in DOMAIN interactions :
           interactions[i] \in [request : RequestType, response : Stored, redacted : SUBSET Fields,
                                status : {"pending", "responded", "timed_out", "abandoned"}]
    /\ asked \in Requests \cup {NoRequest}
    /\ \A i \in DOMAIN sent : sent[i] \in Entered \cup {Nothing}
    /\ settled \in BOOLEAN
    /\ reading \in {"none", "events", "latest", "timeline", "done"}
    /\ view.status \in {"none", "running"} \cup TerminalStatuses

\* docs/planning/v1b: "terminal state" is derived from the accepted events.  A trace or
\* an entry that shows a run as ended has read the event that ended it, though the run row
\* was read first and the process goes on or ends in between; a trace lists that event,
\* unless the agent filed it under another action, and then its replay has it all the same.
EndedHasTerminalEvent ==
    reading = "done" /\ view.status \in TerminalStatuses =>
        /\ terminalStateFromAcceptedEvents(view.timeline) = view.status
        /\ view.op = "trace" =>
              \A i \in view.timeline :
                  events[i].type \in TerminalTypes /\ events[i].filed => i \in view.accepted

\* docs/planning/v1b: "Do not make Replay include rejected events."  A trace and the replay
\* it is read with agree on the events of the run that are filed under its action: the
\* trace lists a beginning of those in the replay, whatever other runs file under the action.
TraceBeginsReplay ==
    reading = "done" /\ view.op = "trace" =>
        /\ {i \in view.accepted : events[i].ours} \subseteq view.timeline
        /\ \A i \in view.accepted, j \in view.timeline \ view.accepted : events[j].filed => i < j

Hides(value, marked) == \A k \in DOMAIN value.at \cap marked : value.at[k] = REDACTED_SENTINEL

\* docs/planning/v1l: marked fields persist as the sentinel, in accepted events and in
\* requests and responses, whoever answered.
MarkedFieldsAreRedacted ==
    /\ \A i \in listAcceptedEventsForRun :
           events[i].type = "interaction.required" =>
               Hides(events[i].request.default, events[i].request.marked)
    /\ \A i \in DOMAIN interactions :
           /\ Hides(interactions[i].request.default, interactions[i].request.marked)
           /\ Hides(interactions[i].response, interactions[i].request.marked)

\* CONTEXT.md: the runtime "records JSON Pointer paths in redacted_paths": those of every
\* field that the row has lost, in the request or in the response, and no other.
RedactedPathsAreExact ==
    \A i \in DOMAIN interactions :
        LET row == interactions[i]
            Lost(value) == {k \in DOMAIN value.at : value.at[k] = REDACTED_SENTINEL}
        IN  row.redacted = Lost(row.request.default) \cup Lost(row.response)

\* docs/planning/v1l: "Live action.respond_interaction still delivers full responses to
\* the agent": what it was sent is what the row says, but for the marked fields, which
\* reach it as they were entered, also when a timeout answers with the default.
AgentGetsOriginal ==
    \A i \in DOMAIN interactions :
        interactions[i].status = "responded" =>
            /\ interactions[i].response = redactObjectByPaths(sent[i], interactions[i].request.marked)
            /\ \A k \in DOMAIN sent[i].at : sent[i].at[k] = "original"
===============================================================================
