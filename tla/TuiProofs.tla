------------------------------- MODULE TuiProofs -------------------------------
(* The safety of Tui for any number of submissions, executions and responses in  *)
(* progress at one time, and any bounds.                                         *)
EXTENDS Tui, TLAPS

-------------------------------------------------------------------------------
(* Types.                                                                        *)

(* Zero, which stands for no interaction, is an id.                              *)
LEMMA ZeroIsId == 0 \in 0..MaxAsks
  BY TuiAssumption

(* An update of a field keeps the type of an execution.                          *)
LEMMA RunUpdates ==
  ASSUME NEW e \in RunState
  PROVE  /\ \A v \in {"new", "open", "closed"} : [e EXCEPT !.st = v] \in RunState
         /\ \A v \in {"open", "resolved", "rejected", "handled"} : [e EXCEPT !.done = v] \in RunState
         /\ \A v \in 0..MaxAsks : [e EXCEPT !.pending = v] \in RunState
         /\ \A v \in 0..MaxAsks : [e EXCEPT !.asked = v] \in RunState
         /\ \A v \in 0..MaxCancels : [e EXCEPT !.cancels = v] \in RunState
  BY DEF RunState

(* Replacing one execution by another keeps the type of all.                     *)
LEMMA RunsUpdate ==
  ASSUME NEW f \in [Runs -> RunState], NEW r \in Runs, NEW e \in RunState
  PROVE  [f EXCEPT ![r] = e] \in [Runs -> RunState]
  OBVIOUS

(* Closing what the reference holds keeps the types, and changes only st.        *)
LEMMA ClosedType ==
  ASSUME TypeOK
  PROVE  /\ Closed \in [Runs -> RunState]
         /\ \A r \in Runs : Closed[r] = runs[r] \/ Closed[r] = [runs[r] EXCEPT !.st = "closed"]
         /\ control \in Runs => Closed[control].st = "closed"
  <1>1. CASE control = None
    BY <1>1, TuiAssumption DEF Closed, TypeOK
  <1>2. CASE control # None
    <2>1. control \in Runs /\ runs \in [Runs -> RunState]
      BY <1>2 DEF TypeOK
    <2>2. [runs[control] EXCEPT !.st = "closed"] \in RunState
      BY <2>1, RunUpdates
    <2>3. Closed = [runs EXCEPT ![control] = [runs[control] EXCEPT !.st = "closed"]]
      BY <1>2 DEF Closed
    <2>4. [runs[control] EXCEPT !.st = "closed"].st = "closed"
      BY <2>1 DEF RunState
    <2> QED BY <2>1, <2>2, <2>3, <2>4, RunsUpdate
  <1> QED BY <1>1, <1>2

(* The initial states are well typed.                                            *)
LEMMA InitType == Init => TypeOK
  <1>1. NewRun \in RunState /\ NoCard \in [run : Runs \cup {None}, id : 0..MaxAsks]
        /\ NoAnswer \in AnswerState
    BY TuiAssumption DEF NewRun, RunState, NoCard, NoAnswer, AnswerState
  <1> QED BY <1>1 DEF Init, TypeOK, Phases

(* Every action leaves the executions well typed.                                *)
LEMMA RunsType ==
  ASSUME TypeOK, Next
  PROVE  runs' \in [Runs -> RunState]
  <1>0. runs \in [Runs -> RunState] /\ Closed \in [Runs -> RunState]
    BY ClosedType DEF TypeOK
  <1>1. CASE runs' = runs \/ runs' = Closed
    BY <1>0, <1>1
  <1>2. ASSUME NEW r \in Runs, Approve(r) PROVE runs' \in [Runs -> RunState]
    <2>1. runs' = [Closed EXCEPT ![r] = [Closed[r] EXCEPT !.st = "open"]]
      BY <1>2 DEF Approve
    <2>2. [Closed[r] EXCEPT !.st = "open"] \in RunState
      BY <1>0, RunUpdates
    <2> QED BY <1>0, <2>1, <2>2, RunsUpdate
  <1>3. ASSUME NEW r \in Runs, InteractionRequired(r) PROVE runs' \in [Runs -> RunState]
    <2>1. CASE runs[r].asked < MaxAsks
               /\ runs' = [runs EXCEPT ![r].asked = @ + 1, ![r].pending = runs[r].asked + 1]
      <3> DEFINE n == runs[r].asked + 1
      <3>1. n \in 0..MaxAsks
        BY <1>0, <2>1, TuiAssumption DEF RunState
      <3> DEFINE e == [runs[r] EXCEPT !.asked = n]
                 d == [e EXCEPT !.pending = n]
      <3>2. e \in RunState
        BY <1>0, <3>1, RunUpdates
      <3>3. d \in RunState
        BY <3>1, <3>2, RunUpdates
      <3>4. runs' = [runs EXCEPT ![r] = d]
        BY <1>0, <2>1
      <3> QED BY <1>0, <3>3, <3>4, RunsUpdate
    <2> QED BY <1>0, <1>3, <2>1 DEF InteractionRequired
  <1>4. ASSUME NEW r \in Runs, TimesOut(r) PROVE runs' \in [Runs -> RunState]
    <2>1. [runs[r] EXCEPT !.pending = 0] \in RunState
      BY <1>0, RunUpdates, ZeroIsId
    <2> QED BY <1>0, <1>4, <2>1, RunsUpdate DEF TimesOut
  <1>5. ASSUME NEW r \in Runs, NEW done \in {"resolved", "rejected"}, Settles(r, done)
        PROVE  runs' \in [Runs -> RunState]
    <2> DEFINE e == [runs[r] EXCEPT !.done = done]
               d == [e EXCEPT !.pending = 0]
    <2>1. e \in RunState
      BY <1>0, RunUpdates
    <2>2. d \in RunState
      BY <2>1, RunUpdates, ZeroIsId
    <2>3. runs' = [runs EXCEPT ![r] = d]
      BY <1>0, <1>5 DEF Settles
    <2> QED BY <1>0, <2>2, <2>3, RunsUpdate
  <1>6. ASSUME NEW r \in Runs, DoneContinues(r) PROVE runs' \in [Runs -> RunState]
    <2>1. runs' = [Closed EXCEPT ![r] = [Closed[r] EXCEPT !.done = "handled"]]
      BY <1>6 DEF DoneContinues
    <2>2. [Closed[r] EXCEPT !.done = "handled"] \in RunState
      BY <1>0, RunUpdates
    <2> QED BY <1>0, <2>1, <2>2, RunsUpdate
  <1>7. ASSUME NEW r \in Runs, CancelAnswered(r) PROVE runs' \in [Runs -> RunState]
    <2>1. runs[r].cancels - 1 \in 0..MaxCancels
      BY <1>0, <1>7, TuiAssumption DEF CancelAnswered, RunState
    <2>2. [runs[r] EXCEPT !.cancels = runs[r].cancels - 1] \in RunState
      BY <1>0, <2>1, RunUpdates
    <2>3. runs' = [runs EXCEPT ![r] = [runs[r] EXCEPT !.cancels = runs[r].cancels - 1]]
      BY <1>0, <1>7 DEF CancelAnswered
    <2> QED BY <1>0, <2>2, <2>3, RunsUpdate
  <1>8. ASSUME RequestRuntimeCancel PROVE runs' \in [Runs -> RunState]
    <2>1. control \in Runs
      BY <1>8 DEF RequestRuntimeCancel, TypeOK
    <2>2. runs[control].cancels + 1 \in 0..MaxCancels
      BY <1>0, <1>8, <2>1, TuiAssumption DEF RequestRuntimeCancel, RunState
    <2>3. [runs[control] EXCEPT !.cancels = runs[control].cancels + 1] \in RunState
      BY <1>0, <2>1, <2>2, RunUpdates
    <2>4. runs' = [runs EXCEPT ![control] = [runs[control] EXCEPT !.cancels = runs[control].cancels + 1]]
      BY <1>0, <1>8, <2>1 DEF RequestRuntimeCancel
    <2> QED BY <1>0, <2>1, <2>3, <2>4, RunsUpdate
  <1>9. ASSUME NEW a \in Answers, SubmitInteractionResponse(a) PROVE runs' \in [Runs -> RunState]
    <2>1. control \in Runs
      BY <1>9 DEF SubmitInteractionResponse, TypeOK
    <2>2. [runs[control] EXCEPT !.pending = 0] \in RunState
      BY <1>0, <2>1, RunUpdates, ZeroIsId
    <2>3. runs' = runs \/ runs' = [runs EXCEPT ![control] = [runs[control] EXCEPT !.pending = 0]]
      BY <1>9 DEF SubmitInteractionResponse
    <2> QED BY <1>0, <2>1, <2>2, <2>3, RunsUpdate
  <1>10. ASSUME \/ Boots \/ Navigate \/ SelectCommand \/ Exit \/ CancelApproval \/ ApproveThrows
                \/ \E t \in Tasks : \/ ScheduleSubmitForm(t) \/ SubmitForm(t) \/ ApproveProbePreview(t)
                                    \/ GateAsks(t) \/ Previewed(t) \/ Prepared(t) \/ RequestFails(t)
                \/ \E a \in Answers : \/ AnswerContinues(a)
                                      \/ \E reply \in {"resolved", "rejected"} : Replies(a, reply)
         PROVE  runs' = runs \/ runs' = Closed
    BY <1>10 DEF Boots, Navigate, SelectCommand, Exit, CancelApproval, ApproveThrows,
                 ScheduleSubmitForm, SubmitForm, ApproveProbePreview, GateAsks, Previewed, Prepared,
                 RequestFails, AnswerContinues, Replies, CloseExecutionControl
  <1> QED BY <1>1, <1>2, <1>3, <1>4, <1>5, <1>6, <1>7, <1>8, <1>9, <1>10 DEF Next

(* The screens and the bundle are among those of the interface.                  *)
LEMMA ScreenType ==
  ASSUME TypeOK, Next
  PROVE  /\ host' \in {"up", "crashed"} /\ phase' \in Phases
         /\ prepared' \in {"none", "fresh", "spent"}
  <1> SUFFICES ASSUME host \in {"up", "crashed"}, phase \in Phases,
                      prepared \in {"none", "fresh", "spent"}
               PROVE  /\ host' \in {"up", "crashed"} /\ phase' \in Phases
                      /\ prepared' \in {"none", "fresh", "spent"}
    BY DEF TypeOK
  <1> USE DEF Phases
  <1>1. ASSUME \/ Boots \/ Navigate \/ SelectCommand \/ Exit \/ CancelApproval \/ ApproveThrows
               \/ RequestRuntimeCancel
        PROVE  /\ host' \in {"up", "crashed"} /\ phase' \in Phases
               /\ prepared' \in {"none", "fresh", "spent"}
    BY <1>1 DEF Boots, Navigate, SelectCommand, Exit, CancelApproval, ApproveThrows,
                RequestRuntimeCancel, Show
  <1>2. ASSUME NEW t \in Tasks,
               \/ ScheduleSubmitForm(t) \/ SubmitForm(t) \/ ApproveProbePreview(t)
               \/ GateAsks(t) \/ Previewed(t) \/ Prepared(t) \/ RequestFails(t)
        PROVE  /\ host' \in {"up", "crashed"} /\ phase' \in Phases
               /\ prepared' \in {"none", "fresh", "spent"}
    BY <1>2 DEF ScheduleSubmitForm, SubmitForm, ApproveProbePreview, GateAsks, Previewed, Prepared,
                RequestFails, Show
  <1>3. ASSUME NEW r \in Runs,
               \/ Approve(r) \/ InteractionRequired(r) \/ TimesOut(r) \/ DoneContinues(r)
               \/ CancelAnswered(r) \/ \E done \in {"resolved", "rejected"} : Settles(r, done)
        PROVE  /\ host' \in {"up", "crashed"} /\ phase' \in Phases
               /\ prepared' \in {"none", "fresh", "spent"}
    BY <1>3 DEF Approve, InteractionRequired, TimesOut, DoneContinues, CancelAnswered, Settles,
                Show, AfterDone
  <1>4. ASSUME NEW a \in Answers,
               \/ SubmitInteractionResponse(a) \/ AnswerContinues(a)
               \/ \E reply \in {"resolved", "rejected"} : Replies(a, reply)
        PROVE  /\ host' \in {"up", "crashed"} /\ phase' \in Phases
               /\ prepared' \in {"none", "fresh", "spent"}
    BY <1>4 DEF SubmitInteractionResponse, AnswerContinues, Replies
  <1> QED BY <1>1, <1>2, <1>3, <1>4 DEF Next

(* The submissions in progress wait for one of the requests.                     *)
LEMMA TasksType ==
  ASSUME TypeOK, Next
  PROVE  tasks' \in [Tasks -> {"free", "flush", "gate", "probe", "prepare"}]
  <1>1. ASSUME NEW t \in Tasks,
               \/ ScheduleSubmitForm(t) \/ SubmitForm(t) \/ ApproveProbePreview(t)
               \/ GateAsks(t) \/ Previewed(t) \/ Prepared(t) \/ RequestFails(t)
        PROVE  \E s \in {"free", "flush", "gate", "probe", "prepare"} :
                   tasks' = [tasks EXCEPT ![t] = s]
    BY <1>1 DEF ScheduleSubmitForm, SubmitForm, ApproveProbePreview, GateAsks, Previewed, Prepared,
                RequestFails
  <1>2. ASSUME \/ Boots \/ Navigate \/ SelectCommand \/ Exit \/ CancelApproval \/ ApproveThrows
               \/ RequestRuntimeCancel
               \/ \E r \in Runs : \/ Approve(r) \/ InteractionRequired(r) \/ TimesOut(r)
                                  \/ DoneContinues(r) \/ CancelAnswered(r)
                                  \/ \E done \in {"resolved", "rejected"} : Settles(r, done)
               \/ \E a \in Answers : \/ SubmitInteractionResponse(a) \/ AnswerContinues(a)
                                     \/ \E reply \in {"resolved", "rejected"} : Replies(a, reply)
        PROVE  tasks' = tasks
    BY <1>2 DEF Boots, Navigate, SelectCommand, Exit, CancelApproval, ApproveThrows,
                RequestRuntimeCancel, Approve, InteractionRequired, TimesOut, DoneContinues,
                CancelAnswered, Settles, SubmitInteractionResponse, AnswerContinues, Replies
  <1> QED BY <1>1, <1>2 DEF Next, TypeOK

(* The responses in progress belong to executions.                               *)
LEMMA AnswersType ==
  ASSUME TypeOK, Next
  PROVE  answers' \in [Answers -> AnswerState]
  <1>1. ASSUME NEW a \in Answers, SubmitInteractionResponse(a)
        PROVE  answers' \in [Answers -> AnswerState]
    <2>1. control \in Runs /\ answers \in [Answers -> AnswerState]
      BY <1>1 DEF SubmitInteractionResponse, TypeOK
    <2>2. [st |-> "sent", run |-> control] \in AnswerState
          /\ [st |-> "thrown", run |-> control] \in AnswerState
      BY <2>1 DEF AnswerState
    <2> QED BY <1>1, <2>1, <2>2 DEF SubmitInteractionResponse
  <1>2. ASSUME NEW a \in Answers, AnswerContinues(a)
        PROVE  answers' \in [Answers -> AnswerState]
    BY <1>2 DEF AnswerContinues, TypeOK, NoAnswer, AnswerState
  <1>3. ASSUME NEW a \in Answers, NEW reply \in {"resolved", "rejected"}, Replies(a, reply)
        PROVE  answers' \in [Answers -> AnswerState]
    <2>1. [answers[a] EXCEPT !.st = reply] \in AnswerState
      BY DEF TypeOK, AnswerState
    <2> QED BY <1>3, <2>1 DEF Replies, TypeOK
  <1>4. ASSUME \/ Boots \/ Navigate \/ SelectCommand \/ Exit \/ CancelApproval \/ ApproveThrows
               \/ RequestRuntimeCancel
               \/ \E t \in Tasks : \/ ScheduleSubmitForm(t) \/ SubmitForm(t) \/ ApproveProbePreview(t)
                                   \/ GateAsks(t) \/ Previewed(t) \/ Prepared(t) \/ RequestFails(t)
               \/ \E r \in Runs : \/ Approve(r) \/ InteractionRequired(r) \/ TimesOut(r)
                                  \/ DoneContinues(r) \/ CancelAnswered(r)
                                  \/ \E done \in {"resolved", "rejected"} : Settles(r, done)
        PROVE  answers' = answers
    BY <1>4 DEF Boots, Navigate, SelectCommand, Exit, CancelApproval, ApproveThrows,
                RequestRuntimeCancel, ScheduleSubmitForm, SubmitForm, ApproveProbePreview, GateAsks,
                Previewed, Prepared, RequestFails, Approve, InteractionRequired, TimesOut,
                DoneContinues, CancelAnswered, Settles
  <1> QED BY <1>1, <1>2, <1>3, <1>4 DEF Next, TypeOK

(* The card, the reference and the flags keep their types.                       *)
LEMMA SessionType ==
  ASSUME TypeOK, Next
  PROVE  /\ control' \in Runs \cup {None}
         /\ card' \in [run : Runs \cup {None}, id : 0..MaxAsks]
         /\ busy' \in BOOLEAN /\ booting' \in BOOLEAN /\ token' \in BOOLEAN
         /\ sending' \in BOOLEAN /\ cancelRequested' \in BOOLEAN
  <1> DEFINE Kept == /\ control' \in Runs \cup {None}
                     /\ card' \in [run : Runs \cup {None}, id : 0..MaxAsks]
                     /\ busy' \in BOOLEAN /\ booting' \in BOOLEAN /\ token' \in BOOLEAN
                     /\ sending' \in BOOLEAN /\ cancelRequested' \in BOOLEAN
  <1>0. /\ control \in Runs \cup {None}
        /\ card \in [run : Runs \cup {None}, id : 0..MaxAsks]
        /\ busy \in BOOLEAN /\ booting \in BOOLEAN /\ token \in BOOLEAN
        /\ sending \in BOOLEAN /\ cancelRequested \in BOOLEAN
        /\ NoCard \in [run : Runs \cup {None}, id : 0..MaxAsks]
    BY ZeroIsId DEF TypeOK, NoCard
  <1> USE <1>0 DEF ResetExecutionSession, ClearPendingInteraction, CloseExecutionControl, Finally,
                   session
  <1>1. ASSUME \/ Boots \/ Navigate \/ SelectCommand \/ Exit \/ CancelApproval \/ ApproveThrows
               \/ RequestRuntimeCancel
        PROVE  Kept
    BY <1>1 DEF Boots, Navigate, SelectCommand, Exit, CancelApproval, ApproveThrows,
                RequestRuntimeCancel
  <1>2. ASSUME NEW t \in Tasks,
               \/ ScheduleSubmitForm(t) \/ SubmitForm(t) \/ ApproveProbePreview(t)
               \/ GateAsks(t) \/ Previewed(t) \/ Prepared(t) \/ RequestFails(t)
        PROVE  Kept
    BY <1>2 DEF ScheduleSubmitForm, SubmitForm, ApproveProbePreview, GateAsks, Previewed, Prepared,
                RequestFails
  <1>3. ASSUME NEW r \in Runs,
               \/ Approve(r) \/ TimesOut(r) \/ DoneContinues(r) \/ CancelAnswered(r)
               \/ \E done \in {"resolved", "rejected"} : Settles(r, done)
        PROVE  Kept
    BY <1>3 DEF Approve, TimesOut, DoneContinues, CancelAnswered, Settles
  <1>4. ASSUME NEW r \in Runs, InteractionRequired(r)
        PROVE  Kept
    <2>1. runs[r].asked < MaxAsks => runs[r].asked + 1 \in 0..MaxAsks
      BY TuiAssumption DEF TypeOK, RunState
    <2>2. card' \in [run : Runs \cup {None}, id : 0..MaxAsks]
      BY <1>4, <2>1, ZeroIsId DEF InteractionRequired
    <2> QED BY <1>4, <2>2 DEF InteractionRequired
  <1>5. ASSUME NEW a \in Answers,
               \/ SubmitInteractionResponse(a) \/ AnswerContinues(a)
               \/ \E reply \in {"resolved", "rejected"} : Replies(a, reply)
        PROVE  Kept
    BY <1>5 DEF SubmitInteractionResponse, AnswerContinues, Replies, SendingEnds
  <1> QED BY <1>1, <1>2, <1>3, <1>4, <1>5 DEF Next

(* TypeOK holds in every behaviour of app.tsx: screens, requests in progress,     *)
(* executions and responses are those the code knows.                            *)
THEOREM TypeCorrect == Spec => []TypeOK
  <1>1. TypeOK /\ [Next]_vars => TypeOK'
    <2>1. ASSUME TypeOK, Next PROVE TypeOK'
      BY <2>1, ScreenType, TasksType, AnswersType, SessionType, RunsType DEF TypeOK
    <2>2. ASSUME TypeOK, UNCHANGED vars PROVE TypeOK'
      BY <2>2 DEF TypeOK, vars, session
    <2> QED BY <2>1, <2>2
  <1> QED BY <1>1, InitType, PTL DEF Spec

(* Lines, timeouts, cancels and responses neither start nor end an execution.     *)
LEMMA ProgressKeeps ==
  ASSUME TypeOK, NEW s \in Runs,
         \/ RequestRuntimeCancel
         \/ \E r \in Runs : InteractionRequired(r) \/ TimesOut(r) \/ CancelAnswered(r)
         \/ \E a \in Answers : SubmitInteractionResponse(a)
  PROVE  runs'[s].st = runs[s].st /\ runs'[s].done = runs[s].done
  <1>0. runs \in [Runs -> RunState]
    BY DEF TypeOK
  <1>1. ASSUME NEW r \in Runs, InteractionRequired(r)
        PROVE  runs'[s].st = runs[s].st /\ runs'[s].done = runs[s].done
    <2>1. CASE runs' = runs
      BY <2>1
    <2>2. CASE runs' = [runs EXCEPT ![r].asked = @ + 1, ![r].pending = runs[r].asked + 1]
      <3> DEFINE e == [runs[r] EXCEPT !.asked = @ + 1]
                 d == [e EXCEPT !.pending = runs[r].asked + 1]
      <3>1. runs' = [runs EXCEPT ![r] = d]
        BY <1>0, <2>2
      <3>2. e.st = runs[r].st /\ e.done = runs[r].done
        BY <1>0 DEF RunState
      <3>3. d.st = e.st /\ d.done = e.done
        BY <1>0 DEF RunState
      <3> QED BY <1>0, <3>1, <3>2, <3>3
    <2> QED BY <1>1, <2>1, <2>2 DEF InteractionRequired
  <1>2. ASSUME NEW r \in Runs, TimesOut(r) \/ CancelAnswered(r)
        PROVE  runs'[s].st = runs[s].st /\ runs'[s].done = runs[s].done
    <2>1. CASE TimesOut(r)
      BY <1>0, <2>1 DEF TimesOut, RunState
    <2>2. CASE CancelAnswered(r)
      BY <1>0, <2>2 DEF CancelAnswered, RunState
    <2> QED BY <1>2, <2>1, <2>2
  <1>3. ASSUME \/ RequestRuntimeCancel \/ \E a \in Answers : SubmitInteractionResponse(a)
        PROVE  runs'[s].st = runs[s].st /\ runs'[s].done = runs[s].done
    BY <1>0, <1>3 DEF RequestRuntimeCancel, SubmitInteractionResponse, RunState
  <1> QED BY <1>1, <1>2, <1>3

(* Settling ends one execution that has been started, and starts none.           *)
LEMMA SettlesKeeps ==
  ASSUME TypeOK, NEW s \in Runs, NEW r \in Runs, NEW done \in {"resolved", "rejected"},
         Settles(r, done)
  PROVE  /\ runs'[s].st = runs[s].st
         /\ runs'[s].done = runs[s].done \/ (runs[s].st # "new" /\ runs'[s].done = done)
  <1> DEFINE e == [runs[r] EXCEPT !.done = done]
             d == [e EXCEPT !.pending = 0]
  <1>0. runs \in [Runs -> RunState]
    BY DEF TypeOK
  <1>1. runs' = [runs EXCEPT ![r] = d]
    BY <1>0 DEF Settles
  <1>2. d.st = runs[r].st /\ d.done = done
    BY <1>0 DEF RunState
  <1> QED BY <1>0, <1>1, <1>2 DEF Settles, Line

-------------------------------------------------------------------------------
(* No execution escapes.                                                         *)

(* A step that changes nothing but the executions, and of those neither whether  *)
(* one is open nor which one the keys reach.                                     *)
LEMMA ControlKept ==
  ASSUME TypeOK, AgentIsUnderControl, control' = control, phase' # "exited" \/ phase' = phase,
         \A r \in Runs : runs'[r].st = "open" => runs[r].st = "open"
  PROVE  AgentIsUnderControl'
  BY DEF AgentIsUnderControl

(* After closeExecutionControl no execution is open.                             *)
LEMMA ClosedIsClosed ==
  ASSUME TypeOK, AgentIsUnderControl
  PROVE  \A r \in Runs : Closed[r].st # "open"
  <1> SUFFICES ASSUME NEW r \in Runs, Closed[r].st = "open" PROVE FALSE
    OBVIOUS
  <1>0. runs[r] \in RunState
    BY DEF TypeOK
  <1>1. [runs[r] EXCEPT !.st = "closed"].st = "closed"
    BY <1>0 DEF RunState
  <1>2. runs[r].st = "open"
    BY <1>1, ClosedType
  <1>3. control = r
    BY <1>2 DEF AgentIsUnderControl
  <1> QED BY <1>3, ClosedType

(* Each function that takes the reference closes the execution in it, so none is  *)
(* left open that the reference does not hold.                                   *)
LEMMA ControlStep ==
  ASSUME TypeOK, AgentIsUnderControl, Next
  PROVE  AgentIsUnderControl'
  <1>0. runs \in [Runs -> RunState] /\ Closed \in [Runs -> RunState]
    BY ClosedType DEF TypeOK
  <1>1. CASE runs' = Closed
    BY <1>1, ClosedIsClosed DEF AgentIsUnderControl
  <1>2. ASSUME NEW r \in Runs, Approve(r) PROVE AgentIsUnderControl'
    <2>1. \A s \in Runs \ {r} : runs'[s] = Closed[s]
      BY <1>0, <1>2 DEF Approve
    <2>2. control' = r /\ phase' = "running"
      BY <1>2 DEF Approve
    <2> QED BY <2>1, <2>2, ClosedIsClosed DEF AgentIsUnderControl
  <1>3. ASSUME NEW r \in Runs, DoneContinues(r) PROVE AgentIsUnderControl'
    <2>1. \A s \in Runs : runs'[s].st = Closed[s].st
      BY <1>0, <1>3 DEF DoneContinues, RunState
    <2> QED BY <2>1, ClosedIsClosed DEF AgentIsUnderControl
  <1>4. ASSUME \/ RequestRuntimeCancel
               \/ \E r \in Runs : \/ InteractionRequired(r) \/ TimesOut(r) \/ CancelAnswered(r)
                                  \/ \E done \in {"resolved", "rejected"} : Settles(r, done)
               \/ \E a \in Answers : SubmitInteractionResponse(a)
        PROVE  AgentIsUnderControl'
    <2>1. control' = control /\ phase' = phase
      BY <1>4 DEF RequestRuntimeCancel, InteractionRequired, TimesOut, CancelAnswered, Settles,
                  SubmitInteractionResponse
    <2>2. \A s \in Runs : runs'[s].st = runs[s].st
      BY <1>4, ProgressKeeps, SettlesKeeps
    <2> QED BY <2>1, <2>2, ControlKept
  <1>5. ASSUME \/ SelectCommand \/ Exit \/ CancelApproval \/ ApproveThrows
               \/ \E t \in Tasks : Prepared(t)
        PROVE  runs' = Closed
    BY <1>5 DEF SelectCommand, Exit, CancelApproval, ApproveThrows, Prepared, CloseExecutionControl
  <1>6. ASSUME \/ Boots \/ Navigate
               \/ \E t \in Tasks : \/ ScheduleSubmitForm(t) \/ SubmitForm(t) \/ ApproveProbePreview(t)
                                   \/ GateAsks(t) \/ Previewed(t) \/ RequestFails(t)
               \/ \E a \in Answers : \/ AnswerContinues(a)
                                     \/ \E reply \in {"resolved", "rejected"} : Replies(a, reply)
        PROVE  AgentIsUnderControl'
    <2>1. runs' = runs /\ control' = control
      BY <1>6 DEF Boots, Navigate, ScheduleSubmitForm, SubmitForm, ApproveProbePreview, GateAsks,
                  Previewed, RequestFails, AnswerContinues, Replies
    <2>2. phase' # "exited" \/ phase' = phase
      BY <1>6 DEF Boots, Navigate, ScheduleSubmitForm, SubmitForm, ApproveProbePreview, GateAsks,
                  Previewed, RequestFails, AnswerContinues, Replies, Show, Moves
    <2> QED BY <2>1, <2>2, ControlKept
  <1> QED BY <1>1, <1>2, <1>3, <1>4, <1>5, <1>6 DEF Next

(* An agent that runs is the one the keys reach: approvals and submissions that   *)
(* overlap orphan none, and none outlives the interface.                         *)
THEOREM UnderControl == Spec => []AgentIsUnderControl
  <1>1. Init => AgentIsUnderControl
    BY DEF Init, AgentIsUnderControl, NewRun
  <1>2. TypeOK /\ AgentIsUnderControl /\ [Next]_vars => AgentIsUnderControl'
    <2>1. ASSUME AgentIsUnderControl, UNCHANGED vars PROVE AgentIsUnderControl'
      BY <2>1 DEF AgentIsUnderControl, vars
    <2> QED BY <2>1, ControlStep
  <1> QED BY <1>1, <1>2, TypeCorrect, PTL DEF Spec

-------------------------------------------------------------------------------
(* What is shown as in progress is in progress.                                  *)

(* An execution started and not yet handled stays so, unless the step handles it. *)
LEMMA StartedStays ==
  ASSUME TypeOK, Next, NEW s \in Runs, runs[s].st # "new", runs[s].done # "handled"
  PROVE  runs'[s].st # "new" /\ (runs'[s].done # "handled" \/ DoneContinues(s))
  <1>0. runs \in [Runs -> RunState] /\ Closed \in [Runs -> RunState]
    BY ClosedType DEF TypeOK
  <1>1. Closed[s].st # "new" /\ Closed[s].done # "handled"
    BY <1>0, ClosedType DEF RunState
  <1>2. ASSUME NEW r \in Runs, Approve(r) PROVE runs'[s].st # "new" /\ runs'[s].done # "handled"
    BY <1>0, <1>1, <1>2 DEF Approve, RunState
  <1>3. ASSUME NEW r \in Runs, DoneContinues(r)
        PROVE  runs'[s].st # "new" /\ (runs'[s].done # "handled" \/ r = s)
    BY <1>0, <1>1, <1>3 DEF DoneContinues, RunState
  <1>4. ASSUME \/ RequestRuntimeCancel
               \/ \E r \in Runs : \/ InteractionRequired(r) \/ TimesOut(r) \/ CancelAnswered(r)
                                  \/ \E done \in {"resolved", "rejected"} : Settles(r, done)
               \/ \E a \in Answers : SubmitInteractionResponse(a)
        PROVE  runs'[s].st # "new" /\ runs'[s].done # "handled"
    BY <1>4, ProgressKeeps, SettlesKeeps
  <1>5. ASSUME \/ Boots \/ Navigate \/ SelectCommand \/ Exit \/ CancelApproval \/ ApproveThrows
               \/ \E t \in Tasks : \/ ScheduleSubmitForm(t) \/ SubmitForm(t) \/ ApproveProbePreview(t)
                                   \/ GateAsks(t) \/ Previewed(t) \/ Prepared(t) \/ RequestFails(t)
               \/ \E a \in Answers : \/ AnswerContinues(a)
                                     \/ \E reply \in {"resolved", "rejected"} : Replies(a, reply)
        PROVE  runs' = runs \/ runs' = Closed
    BY <1>5 DEF Boots, Navigate, SelectCommand, Exit, CancelApproval, ApproveThrows,
                ScheduleSubmitForm, SubmitForm, ApproveProbePreview, GateAsks, Previewed, Prepared,
                RequestFails, AnswerContinues, Replies, CloseExecutionControl
  <1> QED BY <1>1, <1>2, <1>3, <1>4, <1>5 DEF Next

(* An execution that has not been started has not ended.                         *)
NewIsOpen == \A r \in Runs : runs[r].st = "new" => runs[r].done = "open"

(* No step ends an execution that has not been started.                          *)
LEMMA NewStep ==
  ASSUME TypeOK, NewIsOpen, Next
  PROVE  NewIsOpen'
  <1>0. runs \in [Runs -> RunState] /\ Closed \in [Runs -> RunState]
    BY ClosedType DEF TypeOK
  <1> SUFFICES ASSUME NEW s \in Runs, runs'[s].st = "new" PROVE runs'[s].done = "open"
    BY DEF NewIsOpen
  <1>1. Closed[s].st = "new" => runs[s].st = "new"
    BY <1>0, ClosedType DEF RunState
  <1>2. Closed[s].done = runs[s].done
    BY <1>0, ClosedType DEF RunState
  <1>3. CASE runs' = runs \/ runs' = Closed
    BY <1>1, <1>2, <1>3 DEF NewIsOpen
  <1>4. ASSUME NEW r \in Runs, Approve(r) \/ DoneContinues(r) PROVE runs'[s].done = "open"
    <2>1. CASE r = s /\ Approve(r)
      BY <1>0, <2>1 DEF Approve, RunState
    <2>2. CASE r = s /\ DoneContinues(r)
      <3>1. runs[s].st = "new"
        BY <1>0, <1>1, <2>2 DEF DoneContinues, RunState
      <3> QED BY <3>1, <2>2 DEF NewIsOpen, DoneContinues
    <2>3. CASE r # s
      <3>1. runs'[s] = Closed[s]
        BY <1>0, <1>4, <2>3 DEF Approve, DoneContinues
      <3> QED BY <1>1, <1>2, <3>1 DEF NewIsOpen
    <2> QED BY <1>4, <2>1, <2>2, <2>3
  <1>5. ASSUME \/ RequestRuntimeCancel
               \/ \E r \in Runs : \/ InteractionRequired(r) \/ TimesOut(r) \/ CancelAnswered(r)
                                  \/ \E done \in {"resolved", "rejected"} : Settles(r, done)
               \/ \E a \in Answers : SubmitInteractionResponse(a)
        PROVE  runs'[s].done = "open"
    BY <1>5, ProgressKeeps, SettlesKeeps DEF NewIsOpen
  <1>6. ASSUME \/ Boots \/ Navigate \/ SelectCommand \/ Exit \/ CancelApproval \/ ApproveThrows
               \/ \E t \in Tasks : \/ ScheduleSubmitForm(t) \/ SubmitForm(t) \/ ApproveProbePreview(t)
                                   \/ GateAsks(t) \/ Previewed(t) \/ Prepared(t) \/ RequestFails(t)
               \/ \E a \in Answers : \/ AnswerContinues(a)
                                     \/ \E reply \in {"resolved", "rejected"} : Replies(a, reply)
        PROVE  runs' = runs \/ runs' = Closed
    BY <1>6 DEF Boots, Navigate, SelectCommand, Exit, CancelApproval, ApproveThrows,
                ScheduleSubmitForm, SubmitForm, ApproveProbePreview, GateAsks, Previewed, Prepared,
                RequestFails, AnswerContinues, Replies, CloseExecutionControl
  <1> QED BY <1>3, <1>4, <1>5, <1>6 DEF Next

(* What approve starts is in progress.                                           *)
LEMMA ApproveStarts ==
  ASSUME TypeOK, NewIsOpen, NEW r \in Runs, Approve(r)
  PROVE  runs'[r].st # "new" /\ runs'[r].done # "handled"
  <1>0. runs \in [Runs -> RunState] /\ Closed \in [Runs -> RunState]
    BY ClosedType DEF TypeOK
  <1>1. Closed[r].done = runs[r].done
    BY <1>0, ClosedType DEF RunState
  <1>2. runs[r].done = "open"
    BY DEF Approve, NewIsOpen
  <1> QED BY <1>0, <1>1, <1>2 DEF Approve, RunState

(* The running screen is entered with an execution and left when one is handled.  *)
LEMMA RunningStep ==
  ASSUME TypeOK, NewIsOpen, RunningHasExecution, Next
  PROVE  RunningHasExecution'
  <1> SUFFICES ASSUME phase' = "running"
               PROVE  \E r \in Runs : runs'[r].st # "new" /\ runs'[r].done # "handled"
    BY DEF RunningHasExecution
  <1>1. CASE \E r \in Runs : Approve(r)
    BY <1>1, ApproveStarts
  <1>2. ASSUME NEW r \in Runs, DoneContinues(r) PROVE FALSE
    BY <1>2 DEF DoneContinues, Show, AfterDone
  <1>3. ASSUME \/ SelectCommand \/ Exit \/ CancelApproval
               \/ \E t \in Tasks : GateAsks(t) \/ Prepared(t)
        PROVE  FALSE
    BY <1>3 DEF SelectCommand, Exit, CancelApproval, GateAsks, Prepared, Show
  <1>4. ASSUME \/ Boots \/ Navigate \/ ApproveThrows \/ RequestRuntimeCancel
               \/ \E t \in Tasks : \/ ScheduleSubmitForm(t) \/ SubmitForm(t) \/ ApproveProbePreview(t)
                                   \/ Previewed(t) \/ RequestFails(t)
               \/ \E r \in Runs : \/ InteractionRequired(r) \/ TimesOut(r) \/ CancelAnswered(r)
                                  \/ \E done \in {"resolved", "rejected"} : Settles(r, done)
               \/ \E a \in Answers : \/ SubmitInteractionResponse(a) \/ AnswerContinues(a)
                                     \/ \E reply \in {"resolved", "rejected"} : Replies(a, reply)
        PROVE  phase = "running"
    BY <1>4 DEF Boots, Navigate, ApproveThrows, RequestRuntimeCancel, ScheduleSubmitForm, SubmitForm,
                ApproveProbePreview, Previewed, RequestFails, InteractionRequired, TimesOut,
                CancelAnswered, Settles, SubmitInteractionResponse, AnswerContinues, Replies, Show, Moves,
                Phases
  <1>5. CASE phase = "running"
    BY <1>2, <1>5, StartedStays DEF RunningHasExecution
  <1> QED BY <1>1, <1>2, <1>3, <1>4, <1>5 DEF Next

(* busy is set with something that will reset it, which goes away with a reset.  *)
LEMMA BusyStep ==
  ASSUME TypeOK, NewIsOpen, BusyHasTask, Next
  PROVE  BusyHasTask'
  <1> DEFINE Waiting(t) == tasks[t] \in {"gate", "probe", "prepare"}
             Active == \E r \in Runs : runs[r].st # "new" /\ runs[r].done # "handled"
  <1>0. tasks \in [Tasks -> {"free", "flush", "gate", "probe", "prepare"}]
    BY DEF TypeOK
  <1>1. ASSUME \/ Boots
               \/ \E t \in Tasks : GateAsks(t) \/ Prepared(t) \/ RequestFails(t)
               \/ \E r \in Runs : DoneContinues(r)
        PROVE  ~ busy'
    BY <1>1 DEF Boots, GateAsks, Prepared, RequestFails, DoneContinues, Finally
  <1>2. ASSUME NEW t \in Tasks,
               \/ ScheduleSubmitForm(t) \/ SubmitForm(t) \/ ApproveProbePreview(t) \/ Previewed(t)
        PROVE  BusyHasTask'
    <2>1. /\ booting' = booting /\ runs' = runs
          /\ \A s \in Tasks \ {t} : tasks'[s] = tasks[s]
          /\ Waiting(t) => tasks'[t] \in {"gate", "probe", "prepare"}
          /\ busy' = busy \/ tasks'[t] \in {"gate", "probe", "prepare"}
      BY <1>0, <1>2 DEF ScheduleSubmitForm, SubmitForm, ApproveProbePreview, Previewed
    <2> QED BY <2>1 DEF BusyHasTask
  <1>3. CASE \E r \in Runs : Approve(r)
    BY <1>3, ApproveStarts DEF BusyHasTask
  <1>4. ASSUME \/ Navigate \/ SelectCommand \/ Exit \/ CancelApproval \/ ApproveThrows
               \/ RequestRuntimeCancel
               \/ \E r \in Runs : \/ InteractionRequired(r) \/ TimesOut(r) \/ CancelAnswered(r)
                                  \/ \E done \in {"resolved", "rejected"} : Settles(r, done)
               \/ \E a \in Answers : \/ SubmitInteractionResponse(a) \/ AnswerContinues(a)
                                     \/ \E reply \in {"resolved", "rejected"} : Replies(a, reply)
        PROVE  busy' = busy /\ booting' = booting /\ tasks' = tasks
    BY <1>4 DEF Navigate, SelectCommand, Exit, CancelApproval, ApproveThrows, RequestRuntimeCancel,
                InteractionRequired, TimesOut, CancelAnswered, Settles, SubmitInteractionResponse,
                AnswerContinues, Replies
  <1>5. ASSUME busy' = busy, booting' = booting, tasks' = tasks PROVE BusyHasTask'
    <2>1. Active => Active' \/ \E r \in Runs : DoneContinues(r)
      BY StartedStays
    <2> QED BY <1>1, <1>5, <2>1 DEF BusyHasTask
  <1> QED BY <1>1, <1>2, <1>3, <1>4, <1>5 DEF Next, BusyHasTask

(* The running screen, which no key leaves, is left: it never shows an execution  *)
(* whose end approve has already dealt with.                                     *)
THEOREM RunningShowsExecution == Spec => []RunningHasExecution
  <1>1. Init => NewIsOpen /\ RunningHasExecution
    BY DEF Init, NewIsOpen, RunningHasExecution, NewRun
  <1>2. TypeOK /\ NewIsOpen /\ RunningHasExecution /\ [Next]_vars
            => NewIsOpen' /\ RunningHasExecution'
    <2>1. ASSUME NewIsOpen, RunningHasExecution, UNCHANGED vars
          PROVE  NewIsOpen' /\ RunningHasExecution'
      BY <2>1 DEF NewIsOpen, RunningHasExecution, vars
    <2> QED BY <2>1, NewStep, RunningStep
  <1> QED BY <1>1, <1>2, TypeCorrect, PTL DEF Spec

(* The spinner of app.tsx does not stay on: something in progress resets it.      *)
THEOREM BusyEnds == Spec => []BusyHasTask
  <1>1. Init => NewIsOpen /\ BusyHasTask
    BY DEF Init, NewIsOpen, BusyHasTask, NewRun
  <1>2. TypeOK /\ NewIsOpen /\ BusyHasTask /\ [Next]_vars => NewIsOpen' /\ BusyHasTask'
    <2>1. ASSUME NewIsOpen, BusyHasTask, UNCHANGED vars PROVE NewIsOpen' /\ BusyHasTask'
      BY <2>1 DEF NewIsOpen, BusyHasTask, vars
    <2> QED BY <2>1, NewStep, BusyStep
  <1> QED BY <1>1, <1>2, TypeCorrect, PTL DEF Spec

(* The lock on responses is never left behind: who took it is still to come back. *)
THEOREM SendingEndsWithAnswer == Spec => []SendingHasAnswer
  <1>1. Init => SendingHasAnswer
    BY DEF Init, SendingHasAnswer
  <1>2. TypeOK /\ SendingHasAnswer /\ [Next]_vars => SendingHasAnswer'
    <2> SUFFICES ASSUME TypeOK, SendingHasAnswer, [Next]_vars PROVE SendingHasAnswer'
      OBVIOUS
    <2>0. answers \in [Answers -> AnswerState]
      BY DEF TypeOK
    <2>1. ASSUME NEW a \in Answers, SubmitInteractionResponse(a) PROVE answers'[a].st # "free"
      BY <2>0, <2>1 DEF SubmitInteractionResponse
    <2>2. ASSUME NEW a \in Answers, NEW reply \in {"resolved", "rejected"}, Replies(a, reply)
          PROVE  SendingHasAnswer'
      <3>1. answers'[a].st = reply
        BY <2>0, <2>2 DEF Replies, AnswerState
      <3> QED BY <3>1 DEF SendingHasAnswer
    <2>3. ASSUME NEW a \in Answers, AnswerContinues(a) PROVE ~ sending'
      BY <2>3 DEF AnswerContinues, SendingEnds
    <2>4. ASSUME \/ UNCHANGED vars
                 \/ Boots \/ Navigate \/ SelectCommand \/ Exit \/ CancelApproval \/ ApproveThrows
                 \/ RequestRuntimeCancel
                 \/ \E t \in Tasks : \/ ScheduleSubmitForm(t) \/ SubmitForm(t) \/ ApproveProbePreview(t)
                                     \/ GateAsks(t) \/ Previewed(t) \/ Prepared(t) \/ RequestFails(t)
                 \/ \E r \in Runs : \/ Approve(r) \/ InteractionRequired(r) \/ TimesOut(r)
                                    \/ DoneContinues(r) \/ CancelAnswered(r)
                                    \/ \E done \in {"resolved", "rejected"} : Settles(r, done)
          PROVE  answers' = answers /\ (sending' = sending \/ ~ sending')
      BY <2>4 DEF vars, session, Boots, Navigate, SelectCommand, Exit, CancelApproval, ApproveThrows,
                  RequestRuntimeCancel, ScheduleSubmitForm, SubmitForm, ApproveProbePreview, GateAsks,
                  Previewed, Prepared, RequestFails, Approve, InteractionRequired, TimesOut,
                  DoneContinues, CancelAnswered, Settles, ResetExecutionSession, ClearPendingInteraction
    <2> QED BY <2>1, <2>2, <2>3, <2>4 DEF Next, SendingHasAnswer
  <1> QED BY <1>1, <1>2, TypeCorrect, PTL DEF Spec

(* The three together: what the screen shows as in progress is in progress.       *)
THEOREM ScreenBacked == Spec => []ScreenIsBacked
  BY BusyEnds, RunningShowsExecution, SendingEndsWithAnswer, PTL DEF ScreenIsBacked

================================================================================
