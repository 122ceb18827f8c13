------------------------------- MODULE Execution ------------------------------
(***************************************************************************)
(* One execution of an approved action: the closure that                   *)
(* ConsolerRuntime.executePreparedWithControl builds around an agent       *)
(* process, its interaction timer, the rows it keeps in the runs and       *)
(* interactions tables, and the promises it hands to its callers.          *)
(*                                                                         *)
(* The host is a single JavaScript thread.  Output lines, process events,  *)
(* timer expiries and the user's calls are tasks; what follows an await or *)
(* a .then is a continuation, run once the task at hand is over and before *)
(* the next one.  Several lines that arrive in one chunk are one task: the *)
(* continuations wait for the end of the chunk (variable chunk).           *)
(*                                                                         *)
(* The agent is arbitrary.  Its lines that change nothing here (rejected   *)
(* events, which EventStore judges, accepted events that are neither       *)
(* interaction requests nor terminal, replies nobody waits for) are        *)
(* stuttering steps.                                                       *)
(***************************************************************************)
EXTENDS ActionEvents, Integers, FiniteSets

CONSTANTS Interactions,  \* interaction ids the agent uses
          UserCalls,     \* calls of respondInteraction by the user
          None           \* neither an interaction nor a call

\* "answer" stands for use_default, skip and continue, which are treated alike.
Policies == {"none", "abort", "answer"}

\* What stands for null is no interaction, no call, no event type and no pending
\* interaction.
ASSUME CallsAssumption == /\ Interactions \cap UserCalls = {}
                          /\ None \notin Interactions \cup UserCalls \cup TerminalTypes
                          /\ None \notin [id : Interactions, policy : Policies]

VARIABLES host,       \* "up", or "crashed" by an exception nothing catches
          agent,      \* "running" | "killed" (signalled) | "exited" | "reaped" (its requests rejected)
          stdout,     \* "open" | "ended"
          chunk,      \* may the next line belong to the chunk being read?
          execute,    \* the agent.execute request: "sent" | "resolved" | "rejected" | "handled"
          terminal,   \* type of the accepted terminal event, or None
          runStatus,  \* runs.status
          rows,       \* interaction id -> interactions.status, "none" before the row exists
          pending,    \* pendingInteraction, or None
          timer,      \* interaction whose interactionTimer is armed, or None
          claimed,    \* interactionOutcomeClaimed
          done,       \* the done promise: "open", a status, "no_terminal_event" or "rejected"
          cancelled,  \* has cancel() been called?
          calls       \* deliveries: by the user's calls, and by the timeout of each interaction

process == <<agent, stdout>>
vars == <<host, agent, stdout, chunk, execute, terminal, runStatus, rows, pending, timer,
          claimed, done, cancelled, calls>>

\* "control" is an object with timed_out: true, "invalid" fails the prompt.
Responses == {"valid", "invalid", "control"}

NoCall == [st |-> "free", id |-> None, response |-> "none"]

settled == done # "open"
Closed == agent \in {"exited", "reaped"}

Continuing == {c \in DOMAIN calls : calls[c].st \in {"thrown", "resolved", "rejected"}}
Quiet == Continuing = {} /\ execute \notin {"resolved", "rejected"}

Task         == host = "up" /\ Quiet
Continuation == host = "up"
Line         == host = "up" /\ stdout = "open" /\ (Quiet \/ chunk)

Init == /\ host = "up" /\ agent = "running" /\ stdout = "open" /\ chunk = FALSE
        /\ execute = "sent" /\ terminal = None /\ runStatus = "running"
        /\ rows = [i \in Interactions |-> "none"]
        /\ pending = None /\ timer = None /\ claimed = FALSE /\ done = "open"
        /\ cancelled = FALSE
        /\ calls = [c \in UserCalls \cup Interactions |-> NoCall]

-------------------------------------------------------------------------------
(* Settling the done promise.                                              *)

Abandon_All == rows' = [i \in Interactions |-> IF rows[i] = "none" THEN "none" ELSE "abandoned"]

\* UPDATE interactions SET status = 'abandoned' WHERE ... status = 'pending'
Abandon == rows' = [i \in Interactions |-> IF rows[i] = "pending" THEN "abandoned" ELSE rows[i]]

Settle_KeepTimer(outcome) == /\ done' = outcome
                             /\ Abandon
                             /\ pending' = None
                             /\ UNCHANGED timer

Settle(outcome) == /\ done' = outcome
                   /\ timer' = None
                   /\ Abandon
                   /\ pending' = None

SettleUnlessDone(outcome) ==
    IF settled THEN UNCHANGED <<rows, pending, timer, done>> ELSE Settle(outcome)

-------------------------------------------------------------------------------
(* Lines of the agent.                                                     *)

Unclaim_Not == UNCHANGED claimed
Unclaim == claimed' = FALSE

ArmTimer_KeepOld(i, policy) == timer' = IF policy = "none" THEN timer ELSE i
ArmTimer(i, policy) == timer' = IF policy = "none" THEN None ELSE i

\* An accepted interaction.required event.  It is accepted whether or not another
\* interaction is pending, and whether or not the promise is settled.
AcceptInteraction(i, policy) ==
    /\ Line /\ terminal = None /\ rows[i] = "none"
    /\ pending' = [id |-> i, policy |-> policy]
    /\ Unclaim
    /\ rows' = [rows EXCEPT ![i] = "pending"]
    /\ ArmTimer(i, policy)
    /\ chunk' = TRUE
    /\ UNCHANGED <<host, process, execute, terminal, runStatus, done, cancelled, calls>>

\* A second request under a used id breaks UNIQUE(run_id, interaction_id): the
\* insert throws inside the listener of the line event, where nothing catches it.
RepeatInteractionId(i) ==
    /\ Line /\ terminal = None /\ rows[i] # "none"
    /\ host' = "crashed"
    /\ UNCHANGED <<process, chunk, execute, terminal, runStatus, rows, pending, timer,
                   claimed, done, cancelled, calls>>

\* An accepted terminal event closes the run row; maybeFinish settles the promise
\* unless the execute request has already done so.
AcceptTerminal(type) ==
    /\ Line /\ terminal = None
    /\ terminal' = type
    /\ runStatus' = StatusOf(type)
    /\ SettleUnlessDone(StatusOf(type))
    /\ chunk' = TRUE
    /\ UNCHANGED <<host, process, execute, claimed, cancelled, calls>>

\* The reply to agent.execute, a result or an error.
ExecuteReply(reply) ==
    /\ Line /\ execute = "sent"
    /\ execute' = reply
    /\ chunk' = TRUE
    /\ UNCHANGED <<host, process, terminal, runStatus, rows, pending, timer, claimed, done,
                   cancelled, calls>>

\* The reply to an action.respond_interaction.
CallReply(c, reply) ==
    /\ Line /\ calls[c].st = "sent"
    /\ calls' = [calls EXCEPT ![c].st = reply]
    /\ chunk' = TRUE
    /\ UNCHANGED <<host, process, execute, terminal, runStatus, rows, pending, timer, claimed,
                   done, cancelled>>

-------------------------------------------------------------------------------
(* Delivering a response, by the user or by the timer.                     *)

\* claimInteractionOutcome
Claimable == ~ claimed /\ ~ settled /\ pending # None

ClearPending_Later == UNCHANGED pending
ClearPending == pending' = None

\* The part of deliverInteractionResponse that runs before its await: it records
\* the outcome, forgets the interaction and writes the request, which fails at
\* once when the agent's exit has been seen.
Send(c, response, newStatus) ==
    /\ rows' = [rows EXCEPT ![pending.id] = newStatus]
    /\ ClearPending
    /\ timer' = None
    /\ calls' = [calls EXCEPT ![c] = [st |-> IF Closed THEN "rejected" ELSE "sent",
                                      id |-> pending.id, response |-> response]]

\* It throws before it has changed anything: wrong id, failed validation (which an
\* object with timed_out: true is spared) or no pending row.
Deliverable(i, response) ==
    /\ i = pending.id
    /\ response # "invalid"
    /\ rows[i] = "pending"

\* respondInteraction.  A call that finds nothing to claim throws and is not a step.
Respond(c, i, response) ==
    /\ host = "up"
    /\ calls[c].st = "free"
    /\ chunk' \in {chunk, FALSE}
    /\ Claimable
    /\ claimed' = TRUE
    /\ IF Deliverable(i, response)
       THEN Send(c, response, "responded")
       ELSE /\ calls' = [calls EXCEPT ![c].st = "thrown"]
            /\ UNCHANGED <<rows, pending, timer>>
    /\ UNCHANGED <<host, process, execute, terminal, runStatus, done, cancelled>>

TimedOutStatus_Responded(policy) == "responded"
TimedOutStatus(policy) == IF policy = "abort" THEN "timed_out" ELSE "responded"

\* The timer expires: handleInteractionTimeout.
TimerFires ==
    /\ Task /\ timer # None
    /\ IF Claimable /\ pending.policy # "none"
       THEN /\ claimed' = TRUE
            /\ IF Deliverable(pending.id, pending.policy)
               THEN Send(timer, pending.policy, TimedOutStatus(pending.policy))
               ELSE /\ calls' = [calls EXCEPT ![timer].st = "thrown"]
                    /\ timer' = None
                    /\ UNCHANGED <<rows, pending>>
       ELSE /\ timer' = None
            /\ UNCHANGED <<rows, pending, claimed, calls>>
    /\ chunk' = FALSE
    /\ UNCHANGED <<host, process, execute, terminal, runStatus, done, cancelled>>

ReleaseOnThrow_Not == UNCHANGED claimed
ReleaseOnThrow == claimed' = FALSE

\* What follows the await.  A failure releases the claim, except that a timeout
\* with policy abort swallows the failure of its request.
Continue(c) ==
    /\ Continuation
    /\ \/ /\ calls[c].st = "resolved"
          /\ calls' = [calls EXCEPT ![c].st = "succeeded"]
          /\ UNCHANGED claimed
       \/ /\ calls[c].st = "rejected"
          /\ calls' = [calls EXCEPT ![c].st = "failed"]
          /\ IF calls[c].response = "abort" THEN UNCHANGED claimed ELSE ReleaseOnThrow
       \/ /\ calls[c].st = "thrown"
          /\ calls' = [calls EXCEPT ![c] = NoCall]
          /\ ReleaseOnThrow
    /\ chunk' = FALSE
    /\ UNCHANGED <<host, process, execute, terminal, runStatus, rows, pending, timer, done,
                   cancelled>>

\* The .then and .catch of the execute request.  An unsettled promise means that
\* no terminal event was accepted: a result resolves it with state "failed", and
\* neither branch closes the run row.
ExecuteContinues ==
    /\ Continuation /\ execute \in {"resolved", "rejected"}
    /\ execute' = "handled"
    /\ SettleUnlessDone(IF execute = "resolved" THEN "no_terminal_event" ELSE "rejected")
    /\ chunk' = FALSE
    /\ UNCHANGED <<host, process, terminal, runStatus, claimed, cancelled, calls>>

-------------------------------------------------------------------------------
(* The agent process and the remaining calls of the control object.        *)

\* rejectPending: every request without a reply fails.
RejectPending ==
    /\ execute' = IF execute = "sent" THEN "rejected" ELSE execute
    /\ calls' = [c \in DOMAIN calls |->
                    IF calls[c].st = "sent" THEN [calls[c] EXCEPT !.st = "rejected"]
                    ELSE calls[c]]

OutcomeUnchanged == UNCHANGED <<host, terminal, runStatus, rows, pending, claimed, done>>

\* The exit event.  Requests are rejected at once when stdout has already ended.
AgentExits ==
    /\ Task /\ agent \in {"running", "killed"}
    /\ IF stdout = "ended" THEN agent' = "reaped" /\ RejectPending
                           ELSE agent' = "exited" /\ UNCHANGED <<execute, calls>>
    /\ chunk' = FALSE
    /\ OutcomeUnchanged /\ UNCHANGED <<stdout, timer, cancelled>>

\* The end of stdout, which after the exit rejects what is pending.
StdoutEnds ==
    /\ Task /\ stdout = "open"
    /\ stdout' = "ended"
    /\ IF agent = "exited" THEN agent' = "reaped" /\ RejectPending
                           ELSE UNCHANGED <<agent, execute, calls>>
    /\ chunk' = FALSE
    /\ OutcomeUnchanged /\ UNCHANGED <<timer, cancelled>>

ExitTimerFires_Missing == FALSE /\ UNCHANGED vars

\* Fifty milliseconds after the exit, whether or not stdout has ended; lines that
\* are still in the pipe are handled afterwards all the same.
ExitTimerFires ==
    /\ Task /\ agent = "exited"
    /\ agent' = "reaped"
    /\ RejectPending
    /\ chunk' = FALSE
    /\ OutcomeUnchanged /\ UNCHANGED <<stdout, timer, cancelled>>

\* cancel(): writes agent.cancel and touches nothing of the closure.
Cancel ==
    /\ Task /\ ~ cancelled
    /\ cancelled' = TRUE
    /\ chunk' = FALSE
    /\ OutcomeUnchanged /\ UNCHANGED <<process, execute, timer, calls>>

\* close(): clears the timer and signals the process.
CloseControl ==
    /\ timer' = None
    /\ agent' = IF agent = "running" THEN "killed" ELSE agent
    /\ chunk' = FALSE
    /\ OutcomeUnchanged /\ UNCHANGED <<stdout, execute, cancelled, calls>>

Close == Task /\ (timer # None \/ agent = "running") /\ CloseControl

AgentLine == \/ \E i \in Interactions, policy \in Policies : AcceptInteraction(i, policy)
             \/ \E i \in Interactions : RepeatInteractionId(i)
             \/ \E type \in TerminalTypes : AcceptTerminal(type)
             \/ \E reply \in {"resolved", "rejected"} :
                    \/ ExecuteReply(reply)
                    \/ \E c \in DOMAIN calls : CallReply(c, reply)

\* The user calls from a task or, with the onEvent handler, in the middle of a chunk;
\* InteractionCli has callers that answer from their continuations.
User == \/ /\ Quiet \/ chunk
           /\ \E c \in UserCalls, i \in Interactions, response \in Responses :
                  Respond(c, i, response)
        \/ Cancel
        \/ Close

Continues == ExecuteContinues \/ \E c \in DOMAIN calls : Continue(c)

Next == AgentLine \/ User \/ Continues \/ TimerFires \/ AgentExits \/ StdoutEnds \/ ExitTimerFires

Spec == Init /\ [][Next]_vars

\* Only the JavaScript event loop is fair.  Every continuation runs.  An expired
\* timer waits for the tasks before it, however often the user calls, but the loop
\* comes back to its timers: strong fairness, as a task may be followed by
\* continuations during which no timer can run.  Nothing is assumed of the agent or
\* the user.
FairSpec == Spec /\ WF_vars(Continues) /\ SF_vars(TimerFires) /\ SF_vars(ExitTimerFires)

-------------------------------------------------------------------------------
(* Properties.                                                             *)

\* The variables of the closure, the rows and the deliveries have their types.
TypeOK ==
    /\ host \in {"up", "crashed"}
    /\ agent \in {"running", "killed", "exited", "reaped"}
    /\ stdout \in {"open", "ended"}
    /\ chunk \in BOOLEAN
    /\ execute \in {"sent", "resolved", "rejected", "handled"}
    /\ terminal \in TerminalTypes \cup {None}
    /\ runStatus \in TerminalStatuses \cup {"running"}
    /\ rows \in [Interactions -> {"none", "pending", "responded", "timed_out", "abandoned"}]
    /\ pending \in [id : Interactions, policy : Policies] \cup {None}
    /\ timer \in Interactions \cup {None}
    /\ claimed \in BOOLEAN
    /\ done \in TerminalStatuses \cup {"open", "no_terminal_event", "rejected"}
    /\ cancelled \in BOOLEAN
    /\ calls \in [UserCalls \cup Interactions ->
                    [st : {"free", "thrown", "sent", "resolved", "rejected", "succeeded", "failed"},
                     id : Interactions \cup {None},
                     response : Responses \cup Policies]]

\* The pending interaction always has an open row, so the store's "No pending
\* interaction" exception is never what a caller of respondInteraction sees.
PendingHasOpenRow == pending # None => rows[pending.id] = "pending"

\* An armed timer belongs to the interaction that is pending, which carries a
\* timeout policy: no stale timer decides a later interaction.
TimerBelongsToPending ==
    timer # None => /\ pending # None
                    /\ pending.id = timer
                    /\ pending.policy # "none"

\* When a terminal event settled the run, the run row says the same and nothing is
\* left behind: no pending interaction, no timer, no pending row.
TerminalSettlementIsClean ==
    done \in TerminalStatuses =>
        /\ runStatus = done
        /\ pending = None /\ timer = None
        /\ \A i \in Interactions : rows[i] # "pending"

Delivered == {c \in DOMAIN calls : calls[c].id # None}

\* If a user response and the timeout race, exactly one wins: a row says responded
\* or timed_out exactly when one delivery was made for it, and says timed_out only
\* when that was the timer's, with policy abort.
OneWinner ==
    \A i \in Interactions :
        LET winners == {c \in Delivered : calls[c].id = i}
        IN  /\ Cardinality(winners) = IF rows[i] \in {"responded", "timed_out"} THEN 1 ELSE 0
            /\ \A c \in winners : rows[i] = "timed_out" <=> c = i /\ calls[c].response = "abort"

\* A pending interaction is claimed only until the failed attempt's continuation
\* has run: a rejected response or a failure of an earlier one never leaves an
\* interaction that neither the user nor the timer can answer.
ClaimIsReleased == Quiet /\ host = "up" /\ pending # None => ~ claimed

\* An outcome in the interactions table is final: neither the end of the run nor a
\* late call rewrites a row that is responded, timed out or abandoned.
OutcomeIsFinal ==
    [][\A i \in Interactions : rows[i] \notin {"none", "pending"} => rows'[i] = rows[i]]_vars

\* Once the agent's exit has been seen the done promise settles, even when stdout
\* stays open (a grandchild holds it).
ExitSettles == Closed ~> (settled \/ host = "crashed")

\* An interaction with a timeout policy does not stay pending in a run that goes on:
\* it is answered, times out, is superseded, or the run settles or is closed.
TimedInteractionEnds ==
    \A i \in Interactions :
        (pending # None /\ pending.id = i /\ pending.policy # "none") ~>
            \/ pending = None \/ pending.id # i
            \/ settled \/ agent # "running" \/ host = "crashed"

-------------------------------------------------------------------------------
(* What the repository says of the program and the code does not do.       *)

\* docs/planning/v1i: "Do not persist failed response attempts", v1h: "surface response
\* errors so the user can retry": as long as the run goes on, an interaction whose
\* response has failed is pending, or has been answered since.
FailedResponseCanBeRetried ==
    \A c \in UserCalls :
        calls[c].st = "failed" /\ agent = "running" /\ ~ settled =>
            \/ rows[calls[c].id] = "pending"
            \/ \E d \in DOMAIN calls \ {c} : calls[d].id = calls[c].id
===============================================================================
