---------------------------------- MODULE Tui ----------------------------------
(***************************************************************************)
(* The terminal user interface: the screens of app.tsx, the keys alive in  *)
(* them, and the asynchronous functions the keys start, which go on when   *)
(* the screen has been left and write to the state that is shown then.     *)
(*                                                                         *)
(* A key is a task and sees the state as last rendered; the answer to an   *)
(* agent request and what follows its await are one step, except after the *)
(* promises of an execution: there, more lines of the same chunk may be    *)
(* handled first.  The executions are those of module Execution, reduced   *)
(* to what the handlers and the control object show of them.               *)
(*                                                                         *)
(* Left out: form values and fields, error texts, the bottom tabs except   *)
(* that the replay tab can load a replay from every screen.                *)
(***************************************************************************)
EXTENDS Integers, FiniteSets

CONSTANTS Tasks,      \* submissions and probes in progress at one time
          Runs,       \* executions, each started once
          Answers,    \* calls of respondInteraction in progress at one time
          MaxAsks,    \* bound: accepted interaction requests of an execution
          MaxCancels, \* bound: cancel requests in progress of an execution
          None        \* no execution

ASSUME TuiAssumption == MaxAsks \in Nat /\ MaxCancels \in Nat /\ None \notin Runs

VARIABLES host,      \* "up", or "crashed" by a rejection nothing handles
          phase,     \* the screen, or "exited"
          busy,
          booting,   \* bootstrap awaits the manifest
          tasks,     \* "free", "flush" (before submitForm), or the request awaited
          prepared,  \* the bundle: "none", "fresh", or "spent" once executed
          token,     \* is there a preview approval to show?
          runs,      \* the executions
          control,   \* executionControlRef
          card,      \* pendingInteraction: run and id, 0 for an id the runtime has refused
          sending,   \* interactionBusy
          cancelRequested,
          answers    \* calls of respondInteraction

session == <<card, sending, cancelRequested>>
vars == <<host, phase, busy, booting, tasks, prepared, token, runs, control, session, answers>>

Phases == {"boot", "home", "command_select", "history", "trace", "form", "preview_approval",
           "prepared", "running", "finished", "replay", "exited"}

RunState == [st : {"new", "open", "closed"}, done : {"open", "resolved", "rejected", "handled"},
             pending : 0..MaxAsks, asked : 0..MaxAsks, cancels : 0..MaxCancels]

AnswerState == [st : {"free", "sent", "thrown", "resolved", "rejected"}, run : Runs \cup {None}]

NewRun   == [st |-> "new", done |-> "open", pending |-> 0, asked |-> 0, cancels |-> 0]
NoCard   == [run |-> None, id |-> 0]
NoAnswer == [st |-> "free", run |-> None]

Init == /\ host = "up"
        /\ phase \in {"boot", "replay"} /\ booting = (phase = "boot") /\ busy = booting
        /\ tasks = [t \in Tasks |-> "free"]
        /\ prepared = "none" /\ token = FALSE
        /\ runs = [r \in Runs |-> NewRun]
        /\ control = None
        /\ card = NoCard /\ sending = FALSE /\ cancelRequested = FALSE
        /\ answers = [a \in Answers |-> NoAnswer]

-------------------------------------------------------------------------------
(* What several functions share.                                           *)

Show(p) == phase' = IF phase = "exited" THEN phase ELSE p

ClearPendingInteraction == card' = NoCard /\ sending' = FALSE

ResetExecutionSession == ClearPendingInteraction /\ cancelRequested' = FALSE

\* closeExecutionControl: the execution of the reference, whichever it is.
Closed_ForgetOnly == runs
Closed == IF control = None THEN runs ELSE [runs EXCEPT ![control].st = "closed"]

CloseExecutionControl == runs' = Closed /\ control' = None

Finally_Forgotten == UNCHANGED busy
Finally == busy' = FALSE

Due(r) == \/ runs[r].done \in {"resolved", "rejected"}
          \/ \E a \in Answers : answers[a].run = r /\ answers[a].st \in {"resolved", "rejected"}
Thrown == \E a \in Answers : answers[a].st = "thrown"

Task    == host = "up" /\ ~ Thrown /\ \A r \in Runs : ~ Due(r)
Key     == Task /\ phase # "exited"
Line(r) == /\ host = "up" /\ ~ Thrown
           /\ runs[r].st # "new"
           /\ \A s \in Runs \ {r} : ~ Due(s)

-------------------------------------------------------------------------------
(* Screens without an agent.                                               *)

Boots == /\ Task /\ booting
         /\ booting' = FALSE
         /\ \/ Show("home")
            \/ UNCHANGED phase
         /\ Finally
         /\ UNCHANGED <<host, tasks, prepared, token, runs, control, session, answers>>

\* The menu of home, the history, its traces, replay from a trace or from the replay
\* tab, and escape.
Moves == {<<"home", "history">>, <<"home", "command_select">>, <<"history", "trace">>,
          <<"trace", "history">>, <<"history", "home">>, <<"command_select", "home">>,
          <<"form", "home">>} \cup {<<p, "replay">> : p \in Phases \ {"exited"}}

Navigate == /\ Key
            /\ \E p \in Phases : <<phase, p>> \in Moves /\ phase' = p
            /\ UNCHANGED <<host, busy, booting, tasks, prepared, token, runs, control, session,
                           answers>>

SelectCommand == /\ Key /\ phase = "command_select"
                 /\ phase' = "form"
                 /\ token' = FALSE /\ prepared' = "none"
                 /\ ResetExecutionSession
                 /\ CloseExecutionControl
                 /\ UNCHANGED <<host, busy, booting, tasks, answers>>

\* The unmounted component closes the execution.
Exit == /\ Key
        /\ phase' = "exited"
        /\ CloseExecutionControl
        /\ UNCHANGED <<host, busy, booting, tasks, prepared, token, session, answers>>

-------------------------------------------------------------------------------
(* From the form to a bundle.                                              *)

\* Enter.  Nothing but an unfinished flush holds a second one back.
ScheduleSubmitForm(t) ==
    /\ Key /\ phase = "form"
    /\ \A s \in Tasks : tasks[s] # "flush"
    /\ tasks[t] = "free"
    /\ tasks' = [tasks EXCEPT ![t] = "flush"]
    /\ UNCHANGED <<host, phase, busy, booting, prepared, token, runs, control, session, answers>>

\* submitForm up to its first await: validation, and runtime.preview for a command
\* that requires a preview approval.
SubmitForm(t) ==
    /\ Task /\ tasks[t] = "flush"
    /\ \/ tasks' = [tasks EXCEPT ![t] = "free"] /\ UNCHANGED busy
       \/ /\ \E request \in {"gate", "prepare"} : tasks' = [tasks EXCEPT ![t] = request]
          /\ busy' = TRUE
    /\ UNCHANGED <<host, phase, booting, prepared, token, runs, control, session, answers>>

ApproveProbePreview(t) ==
    /\ Key /\ phase = "preview_approval" /\ ~ busy
    /\ tasks[t] = "free"
    /\ tasks' = [tasks EXCEPT ![t] = "probe"]
    /\ busy' = TRUE
    /\ UNCHANGED <<host, phase, booting, prepared, token, runs, control, session, answers>>

\* The preview approval, in place of a preview.
GateAsks(t) ==
    /\ Task /\ tasks[t] = "gate"
    /\ tasks' = [tasks EXCEPT ![t] = "free"]
    /\ token' = TRUE
    /\ Show("preview_approval")
    /\ Finally
    /\ UNCHANGED <<host, booting, prepared, runs, control, session, answers>>

\* A preview: of the probe, or of a command that no longer requires the approval.
Previewed(t) ==
    /\ Task /\ tasks[t] \in {"gate", "probe"}
    /\ tasks' = [tasks EXCEPT ![t] = "prepare"]
    /\ UNCHANGED <<host, phase, busy, booting, prepared, token, runs, control, session, answers>>

Prepared(t) ==
    /\ Task /\ tasks[t] = "prepare"
    /\ tasks' = [tasks EXCEPT ![t] = "free"]
    /\ prepared' = "fresh"
    /\ ResetExecutionSession
    /\ CloseExecutionControl
    /\ Show("prepared")
    /\ Finally
    /\ UNCHANGED <<host, booting, token, answers>>

RequestFails(t) ==
    /\ Task /\ tasks[t] \in {"gate", "probe", "prepare"}
    /\ tasks' = [tasks EXCEPT ![t] = "free"]
    /\ Finally
    /\ UNCHANGED <<host, phase, booting, prepared, token, runs, control, session, answers>>

CancelApproval ==
    /\ Key /\ phase \in {"preview_approval", "prepared"}
    /\ CloseExecutionControl
    /\ prepared' = "none" /\ token' = FALSE
    /\ ResetExecutionSession
    /\ phase' = "form"
    /\ UNCHANGED <<host, busy, booting, tasks, answers>>

-------------------------------------------------------------------------------
(* An execution.                                                           *)

\* approve up to its await.
Approve(r) ==
    /\ Key /\ phase = "prepared" /\ prepared = "fresh" /\ ~ busy
    /\ runs[r].st = "new"
    /\ busy' = TRUE
    /\ ResetExecutionSession
    /\ runs' = [Closed EXCEPT ![r].st = "open"]
    /\ control' = r
    /\ phase' = "running"
    /\ prepared' = "spent"
    /\ UNCHANGED <<host, booting, tasks, token, answers>>

\* executePreparedWithControl throws, as the context has changed or the approval has
\* been saved before.  The call is outside the try and the promise of approve is
\* dropped, so Node.js ends the process.
ApproveThrows ==
    /\ Key /\ phase = "prepared" /\ prepared # "none" /\ ~ busy
    /\ host' = "crashed"
    /\ CloseExecutionControl
    /\ UNCHANGED <<phase, busy, booting, tasks, prepared, token, session, answers>>

\* onEvent of an accepted interaction request, and of a rejected one.
InteractionRequired(r) ==
    /\ Line(r)
    /\ \/ /\ runs[r].asked < MaxAsks
          /\ runs' = [runs EXCEPT ![r].asked = @ + 1, ![r].pending = runs[r].asked + 1]
          /\ card' = [run |-> r, id |-> runs[r].asked + 1]
       \/ card' = [run |-> r, id |-> 0] /\ UNCHANGED runs
    /\ UNCHANGED <<host, phase, busy, booting, tasks, prepared, token, control, sending,
                   cancelRequested, answers>>

\* The timeout of the runtime answers, of which no handler is told.
TimesOut(r) ==
    /\ Task /\ runs[r].pending # 0 /\ runs[r].done = "open"
    /\ runs' = [runs EXCEPT ![r].pending = 0]
    /\ UNCHANGED <<host, phase, busy, booting, tasks, prepared, token, control, session, answers>>

Settles(r, done) ==
    /\ Line(r) /\ runs[r].done = "open"
    /\ runs' = [runs EXCEPT ![r].done = done, ![r].pending = 0]
    /\ UNCHANGED <<host, phase, busy, booting, tasks, prepared, token, control, session, answers>>

AfterDone_Stay(done) == IF done = "resolved" THEN "finished" ELSE phase
AfterDone(done) == IF done = "resolved" THEN "finished" ELSE "prepared"

\* approve after its await.
DoneContinues(r) ==
    /\ host = "up" /\ runs[r].done \in {"resolved", "rejected"}
    /\ Show(AfterDone(runs[r].done))
    /\ ClearPendingInteraction
    /\ runs' = [Closed EXCEPT ![r].done = "handled"]
    /\ control' = None
    /\ Finally
    /\ UNCHANGED <<host, booting, tasks, prepared, token, cancelRequested, answers>>

\* A choice, which a requested cancel rules out, or a form, which it does not.
SubmitInteractionResponse(a) ==
    /\ Key /\ phase = "running" /\ card # NoCard /\ control # None /\ ~ sending
    /\ answers[a].st = "free"
    /\ sending' = TRUE
    /\ IF card.run = control /\ card.id # 0 /\ runs[control].pending = card.id
       THEN /\ answers' = [answers EXCEPT ![a] = [st |-> "sent", run |-> control]]
            /\ runs' = [runs EXCEPT ![control].pending = 0]
       ELSE /\ answers' = [answers EXCEPT ![a] = [st |-> "thrown", run |-> control]]
            /\ UNCHANGED runs
    /\ UNCHANGED <<host, phase, busy, booting, tasks, prepared, token, control, card,
                   cancelRequested>>

Replies(a, reply) ==
    /\ answers[a].st = "sent" /\ Line(answers[a].run)
    /\ answers' = [answers EXCEPT ![a].st = reply]
    /\ UNCHANGED <<host, phase, busy, booting, tasks, prepared, token, runs, control, session>>

SendingEnds_OnSuccess(reply) == sending' = IF reply = "resolved" THEN FALSE ELSE sending
SendingEnds(reply) == sending' = FALSE

\* submitInteractionResponse after its await: it clears the card on screen.
AnswerContinues(a) ==
    /\ host = "up" /\ answers[a].st \in {"resolved", "rejected", "thrown"}
    /\ card' = IF answers[a].st = "resolved" THEN NoCard ELSE card
    /\ SendingEnds(answers[a].st)
    /\ answers' = [answers EXCEPT ![a] = NoAnswer]
    /\ UNCHANGED <<host, phase, busy, booting, tasks, prepared, token, runs, control,
                   cancelRequested>>

RequestRuntimeCancel ==
    /\ Key /\ phase = "running" /\ control # None /\ ~ cancelRequested
    /\ runs[control].cancels < MaxCancels
    /\ cancelRequested' = TRUE
    /\ runs' = [runs EXCEPT ![control].cancels = @ + 1]
    /\ UNCHANGED <<host, phase, busy, booting, tasks, prepared, token, control, card, sending,
                   answers>>

\* A refused cancel can be repeated; it may be one of an earlier execution.
CancelAnswered(r) ==
    /\ Task /\ runs[r].cancels > 0
    /\ runs' = [runs EXCEPT ![r].cancels = @ - 1]
    /\ cancelRequested' \in {cancelRequested, FALSE}
    /\ UNCHANGED <<host, phase, busy, booting, tasks, prepared, token, control, card, sending,
                   answers>>

-------------------------------------------------------------------------------
Next == \/ Boots \/ Navigate \/ SelectCommand \/ Exit
        \/ \E t \in Tasks : \/ ScheduleSubmitForm(t) \/ SubmitForm(t) \/ ApproveProbePreview(t)
                            \/ GateAsks(t) \/ Previewed(t) \/ Prepared(t) \/ RequestFails(t)
        \/ CancelApproval \/ ApproveThrows \/ RequestRuntimeCancel
        \/ \E r \in Runs : \/ Approve(r) \/ InteractionRequired(r) \/ TimesOut(r)
                           \/ DoneContinues(r) \/ CancelAnswered(r)
                           \/ \E done \in {"resolved", "rejected"} : Settles(r, done)
        \/ \E a \in Answers : \/ SubmitInteractionResponse(a) \/ AnswerContinues(a)
                              \/ \E reply \in {"resolved", "rejected"} : Replies(a, reply)

Spec == Init /\ [][Next]_vars

-------------------------------------------------------------------------------
(* Properties.                                                             *)

\* The state of the component and of the executions has its types.
TypeOK ==
    /\ host \in {"up", "crashed"}
    /\ phase \in Phases
    /\ busy \in BOOLEAN /\ booting \in BOOLEAN /\ token \in BOOLEAN
    /\ tasks \in [Tasks -> {"free", "flush", "gate", "probe", "prepare"}]
    /\ prepared \in {"none", "fresh", "spent"}
    /\ runs \in [Runs -> RunState]
    /\ control \in Runs \cup {None}
    /\ card \in [run : Runs \cup {None}, id : 0..MaxAsks]
    /\ sending \in BOOLEAN /\ cancelRequested \in BOOLEAN
    /\ answers \in [Answers -> AnswerState]

\* An agent that has not been closed is the one the keys reach: whatever submissions
\* and approvals overlap, no execution is orphaned, and none outlives the interface.
AgentIsUnderControl ==
    \A r \in Runs : runs[r].st = "open" => control = r /\ phase # "exited"

\* The spinner, which also bars the approval keys, does not stay on: something is in
\* progress that will turn it off.
BusyHasTask ==
    busy => \/ booting
            \/ \E t \in Tasks : tasks[t] \in {"gate", "probe", "prepare"}
            \/ \E r \in Runs : runs[r].st # "new" /\ runs[r].done # "handled"

\* The running screen, which has no key that leaves it, shows an execution whose end
\* is still to come and will leave it.
RunningHasExecution ==
    phase = "running" => \E r \in Runs : runs[r].st # "new" /\ runs[r].done # "handled"

\* The lock on responses is released with the response it was taken for, also when
\* its execution has been replaced.
SendingHasAnswer == sending => \E a \in Answers : answers[a].st # "free"

\* What the screen shows as in progress, and with it bars keys, is in progress.
ScreenIsBacked == BusyHasTask /\ RunningHasExecution /\ SendingHasAnswer
===============================================================================
