---------------------------- MODULE ExecutionProofs ----------------------------
(* The safety of one execution for any set of interactions and of concurrent     *)
(* calls of the user.                                                            *)
EXTENDS Execution, FiniteSetTheorems, TLAPS

-------------------------------------------------------------------------------
(* Types.                                                                        *)

Deliverer == UserCalls \cup Interactions

CallState == [st : {"free", "thrown", "sent", "resolved", "rejected", "succeeded", "failed"},
              id : Interactions \cup {None},
              response : Responses \cup Policies]

(* An update of the status keeps the type of a delivery, and nothing else of it  *)
(* changes.                                                                      *)
LEMMA CallUpdate ==
  ASSUME NEW e \in CallState,
         NEW v \in {"free", "thrown", "sent", "resolved", "rejected", "succeeded", "failed"}
  PROVE  /\ [e EXCEPT !.st = v] \in CallState
         /\ [e EXCEPT !.st = v].st = v
         /\ [e EXCEPT !.st = v].id = e.id
         /\ [e EXCEPT !.st = v].response = e.response
  BY DEF CallState

(* Replacing one delivery by another keeps the type of all.                      *)
LEMMA CallsUpdate ==
  ASSUME NEW f \in [Deliverer -> CallState], NEW c \in Deliverer, NEW e \in CallState
  PROVE  [f EXCEPT ![c] = e] \in [Deliverer -> CallState]
  OBVIOUS

LEMMA NoCallType == NoCall \in CallState /\ NoCall.id = None /\ NoCall.st = "free"
  BY DEF NoCall, CallState, Policies, Responses

(* The initial states are well typed.                                            *)
LEMMA InitType == Init => TypeOK
  BY NoCallType DEF Init, TypeOK, CallState, TerminalTypes, TerminalStatuses, Deliverer

(* Settling the promise keeps the types of what it changes.                      *)
LEMMA SettleType ==
  ASSUME TypeOK, NEW outcome \in TerminalStatuses \cup {"no_terminal_event", "rejected"},
         SettleUnlessDone(outcome)
  PROVE  /\ rows' \in [Interactions -> {"none", "pending", "responded", "timed_out", "abandoned"}]
         /\ pending' \in [id : Interactions, policy : Policies] \cup {None}
         /\ timer' \in Interactions \cup {None}
         /\ done' \in TerminalStatuses \cup {"open", "no_terminal_event", "rejected"}
  BY DEF TypeOK, SettleUnlessDone, Settle, Abandon

(* Sending a response keeps the types of what it changes.                        *)
LEMMA SendType ==
  ASSUME TypeOK, pending # None, NEW c \in Deliverer, NEW response \in Responses \cup Policies,
         NEW status \in {"responded", "timed_out"}, Send(c, response, status)
  PROVE  /\ rows' \in [Interactions -> {"none", "pending", "responded", "timed_out", "abandoned"}]
         /\ pending' = None /\ timer' = None
         /\ calls' \in [Deliverer -> CallState]
  <1>1. pending.id \in Interactions /\ calls \in [Deliverer -> CallState]
    BY DEF TypeOK, CallState, Deliverer
  <1>2. [st |-> IF Closed THEN "rejected" ELSE "sent", id |-> pending.id, response |-> response]
          \in CallState
    BY <1>1 DEF CallState
  <1> QED BY <1>1, <1>2, CallsUpdate DEF Send, ClearPending, TypeOK

(* Failing the requests without a reply keeps the types, ids and responses.      *)
LEMMA RejectPendingEffect ==
  ASSUME TypeOK, RejectPending
  PROVE  /\ execute' \in {"sent", "resolved", "rejected", "handled"}
         /\ calls' \in [Deliverer -> CallState]
         /\ \A c \in Deliverer :
               /\ calls'[c].id = calls[c].id /\ calls'[c].response = calls[c].response
               /\ calls'[c].st = IF calls[c].st = "sent" THEN "rejected" ELSE calls[c].st
  <1>1. calls \in [Deliverer -> CallState]
    BY DEF TypeOK, CallState, Deliverer
  <1>2. calls' = [c \in Deliverer |-> IF calls[c].st = "sent"
                                       THEN [calls[c] EXCEPT !.st = "rejected"] ELSE calls[c]]
    BY <1>1 DEF RejectPending
  <1>3. ASSUME NEW c \in Deliverer
        PROVE  /\ calls'[c] \in CallState
               /\ calls'[c].id = calls[c].id /\ calls'[c].response = calls[c].response
               /\ calls'[c].st = IF calls[c].st = "sent" THEN "rejected" ELSE calls[c].st
    <2>1. calls[c] \in CallState
      BY <1>1
    <2>2. CASE calls[c].st = "sent"
      <3>1. calls'[c] = [calls[c] EXCEPT !.st = "rejected"]
        BY <1>2, <2>2
      <3> QED BY <2>1, <2>2, <3>1 DEF CallState
    <2>3. CASE calls[c].st # "sent"
      BY <1>2, <2>1, <2>3
    <2> QED BY <2>2, <2>3
  <1>4. calls' \in [Deliverer -> CallState]
    BY <1>2, <1>3
  <1>5. execute' \in {"sent", "resolved", "rejected", "handled"}
    BY DEF RejectPending, TypeOK
  <1> QED BY <1>3, <1>4, <1>5

-------------------------------------------------------------------------------
(* The steps, without the guards that say when the event loop allows them: other *)
(* callers of the closure take them at other times.                              *)

Responds == \E c \in UserCalls, i \in Interactions, response \in Responses :
               Respond(c, i, response)

Step == AgentLine \/ Responds \/ Cancel \/ CloseControl \/ Continues
        \/ TimerFires \/ AgentExits \/ StdoutEnds \/ ExitTimerFires

LEMMA NextIsStep == Next => Step
  BY DEF Next, User, Close, Step, Responds

(* The steps of the process and of the control object that leave the outcome as  *)
(* it is.                                                                        *)
Outside == Cancel \/ CloseControl \/ AgentExits \/ StdoutEnds \/ ExitTimerFires

LEMMA OutsideEffect ==
  ASSUME TypeOK, Outside
  PROVE  /\ OutcomeUnchanged
         /\ timer' \in {timer, None}
         /\ \/ UNCHANGED <<execute, calls>>
            \/ RejectPending
  BY DEF Outside, Cancel, CloseControl, AgentExits, StdoutEnds, ExitTimerFires, TypeOK

(* What a response of a user does, and what the expiry of the timer does, is one *)
(* of three things: it sends the response, throws, or finds nothing to claim.    *)
LEMMA RespondEffect ==
  ASSUME TypeOK, NEW c \in UserCalls, NEW i \in Interactions, NEW response \in Responses,
         Respond(c, i, response)
  PROVE  /\ UNCHANGED <<host, process, execute, terminal, runStatus, done, cancelled>>
         /\ calls[c].st = "free" /\ c \in Deliverer
         /\ ~ settled /\ pending # None
         /\ \/ Deliverable(i, response) /\ Send(c, response, "responded")
            \/ calls' = [calls EXCEPT ![c].st = "thrown"] /\ UNCHANGED <<rows, pending, timer>>
  BY DEF Respond, Claimable, Deliverer

LEMMA TimerFiresEffect ==
  ASSUME TypeOK, TimerFires
  PROVE  /\ UNCHANGED <<host, process, execute, terminal, runStatus, done, cancelled>>
         /\ timer \in Interactions /\ timer \in Deliverer
         /\ \/ /\ ~ settled /\ pending # None /\ pending.policy \in Policies
               /\ rows[pending.id] = "pending"
               /\ Send(timer, pending.policy, TimedOutStatus(pending.policy))
            \/ /\ pending # None
               /\ calls' = [calls EXCEPT ![timer].st = "thrown"] /\ timer' = None
               /\ UNCHANGED <<rows, pending>>
            \/ timer' = None /\ UNCHANGED <<rows, pending, claimed, calls>>
  BY DEF TimerFires, TypeOK, Claimable, Deliverable, Deliverer

(* A continuation changes one delivery, and the claim.                           *)
LEMMA ContinueEffect ==
  ASSUME TypeOK, NEW c \in DOMAIN calls, Continue(c)
  PROVE  /\ c \in Deliverer
         /\ UNCHANGED <<host, process, execute, terminal, runStatus, rows, pending, timer, done,
                        cancelled>>
         /\ \/ calls[c].st = "resolved" /\ calls' = [calls EXCEPT ![c].st = "succeeded"]
            \/ calls[c].st = "rejected" /\ calls' = [calls EXCEPT ![c].st = "failed"]
            \/ calls[c].st = "thrown" /\ calls' = [calls EXCEPT ![c] = NoCall]
  BY DEF Continue, TypeOK, Deliverer

(* Every step keeps the deliveries well typed.                                   *)
LEMMA CallsType ==
  ASSUME TypeOK, Step
  PROVE  calls' \in [Deliverer -> CallState]
  <1>0. calls \in [Deliverer -> CallState]
    BY DEF TypeOK, CallState, Deliverer
  <1> DEFINE St == {"free", "thrown", "sent", "resolved", "rejected", "succeeded", "failed"}
  <1>1. ASSUME NEW c \in Deliverer, NEW v \in St, calls' = [calls EXCEPT ![c].st = v]
        PROVE  calls' \in [Deliverer -> CallState]
    <2>1. calls[c] \in CallState
      BY <1>0
    <2>2. [calls[c] EXCEPT !.st = v] \in CallState
      BY <2>1 DEF CallState
    <2>3. calls' = [calls EXCEPT ![c] = [calls[c] EXCEPT !.st = v]]
      BY <1>1
    <2> QED BY <1>0, <2>2, <2>3, CallsUpdate
  <1>2. CASE UNCHANGED calls
    BY <1>0, <1>2
  <1>3. CASE AgentLine
    <2>1. CASE UNCHANGED calls
      BY <1>2, <2>1
    <2>2. CASE \E reply \in {"resolved", "rejected"} : \E c \in DOMAIN calls : CallReply(c, reply)
      <3>1. PICK reply \in {"resolved", "rejected"}, c \in DOMAIN calls : CallReply(c, reply)
        BY <2>2
      <3>2. c \in Deliverer /\ calls' = [calls EXCEPT ![c].st = reply]
        BY <1>0, <3>1 DEF CallReply
      <3> QED BY <1>1, <3>2
    <2> QED BY <1>3, <2>1, <2>2
            DEF AgentLine, AcceptInteraction, RepeatInteractionId, AcceptTerminal, ExecuteReply
  <1>4. CASE Outside
    BY <1>2, <1>4, OutsideEffect, RejectPendingEffect
  <1>5. CASE Responds
    <2>1. PICK c \in UserCalls, i \in Interactions, response \in Responses :
              Respond(c, i, response)
      BY <1>5 DEF Responds
    <2>2. CASE Send(c, response, "responded")
      BY <2>1, <2>2, RespondEffect, SendType
    <2>3. CASE calls' = [calls EXCEPT ![c].st = "thrown"]
      BY <1>1, <2>1, <2>3, RespondEffect
    <2> QED BY <2>1, <2>2, <2>3, RespondEffect
  <1>6. CASE TimerFires
    <2>1. CASE pending # None /\ pending.policy \in Policies
               /\ Send(timer, pending.policy, TimedOutStatus(pending.policy))
      <3>1. TimedOutStatus(pending.policy) \in {"responded", "timed_out"}
        BY DEF TimedOutStatus
      <3> QED BY <1>6, <2>1, <3>1, TimerFiresEffect, SendType
    <2>2. CASE calls' = [calls EXCEPT ![timer].st = "thrown"]
      BY <1>1, <1>6, <2>2, TimerFiresEffect
    <2> QED BY <1>2, <1>6, <2>1, <2>2, TimerFiresEffect
  <1>7. CASE Continues
    <2>1. CASE ExecuteContinues
      BY <1>2, <2>1 DEF ExecuteContinues
    <2>2. CASE \E c \in DOMAIN calls : Continue(c)
      <3>1. PICK c \in DOMAIN calls : Continue(c)
        BY <2>2
      <3>2. CASE calls' = [calls EXCEPT ![c] = NoCall]
        BY <1>0, <3>1, <3>2, ContinueEffect, CallsUpdate, NoCallType
      <3> QED BY <1>1, <3>1, <3>2, ContinueEffect
    <2> QED BY <1>7, <2>1, <2>2 DEF Continues
  <1> QED BY <1>3, <1>4, <1>5, <1>6, <1>7 DEF Step, Outside

(* Every step keeps the types.                                                   *)
LEMMA TypeInductive ==
  ASSUME TypeOK, Step
  PROVE  TypeOK'
  <1> DEFINE Rest == /\ host' \in {"up", "crashed"}
                     /\ agent' \in {"running", "killed", "exited", "reaped"}
                     /\ stdout' \in {"open", "ended"}
                     /\ chunk' \in BOOLEAN
                     /\ execute' \in {"sent", "resolved", "rejected", "handled"}
                     /\ terminal' \in TerminalTypes \cup {None}
                     /\ runStatus' \in TerminalStatuses \cup {"running"}
                     /\ rows' \in [Interactions ->
                                     {"none", "pending", "responded", "timed_out", "abandoned"}]
                     /\ pending' \in [id : Interactions, policy : Policies] \cup {None}
                     /\ timer' \in Interactions \cup {None}
                     /\ claimed' \in BOOLEAN
                     /\ done' \in TerminalStatuses \cup {"open", "no_terminal_event", "rejected"}
                     /\ cancelled' \in BOOLEAN
  <1>1. ASSUME NEW i \in Interactions, NEW policy \in Policies, AcceptInteraction(i, policy)
        PROVE  Rest
    BY <1>1 DEF AcceptInteraction, Unclaim, ArmTimer, process, TypeOK
  <1>2. ASSUME NEW i \in Interactions, RepeatInteractionId(i) PROVE Rest
    BY <1>2 DEF RepeatInteractionId, process, TypeOK
  <1> DEFINE RowType == [Interactions -> {"none", "pending", "responded", "timed_out", "abandoned"}]
             PendingType == [id : Interactions, policy : Policies] \cup {None}
             DoneType == TerminalStatuses \cup {"open", "no_terminal_event", "rejected"}
  <1>s. ASSUME NEW outcome \in TerminalStatuses \cup {"no_terminal_event", "rejected"},
               SettleUnlessDone(outcome)
        PROVE  /\ rows' \in RowType /\ pending' \in PendingType
               /\ timer' \in Interactions \cup {None} /\ done' \in DoneType
    BY <1>s, SettleType
  <1>3. ASSUME NEW type \in TerminalTypes, AcceptTerminal(type) PROVE Rest
    <2>1. StatusOf(type) \in TerminalStatuses
      BY DEF StatusOf, TerminalStatuses, TerminalTypes
    <2>2. /\ rows' \in RowType /\ pending' \in PendingType
          /\ timer' \in Interactions \cup {None} /\ done' \in DoneType
      BY <1>s, <1>3, <2>1 DEF AcceptTerminal
    <2> QED BY <1>3, <2>1, <2>2 DEF AcceptTerminal, process, TypeOK
  <1>4. ASSUME NEW reply \in {"resolved", "rejected"},
               ExecuteReply(reply) \/ \E c \in DOMAIN calls : CallReply(c, reply)
        PROVE  Rest
    BY <1>4 DEF ExecuteReply, CallReply, process, TypeOK
  <1>5. ASSUME Responds PROVE Rest
    <2>1. PICK c \in UserCalls, i \in Interactions, response \in Responses :
              Respond(c, i, response)
      BY <1>5 DEF Responds
    <2>2. /\ chunk' \in BOOLEAN /\ claimed' \in BOOLEAN
          /\ UNCHANGED <<host, process, execute, terminal, runStatus, done, cancelled>>
      BY <2>1 DEF Respond, TypeOK
    <2>3. rows' \in RowType /\ pending' \in PendingType /\ timer' \in Interactions \cup {None}
      <3>1. CASE pending # None /\ c \in Deliverer /\ Send(c, response, "responded")
        BY <3>1, SendType
      <3>2. CASE UNCHANGED <<rows, pending, timer>>
        BY <3>2 DEF TypeOK
      <3> QED BY <2>1, <3>1, <3>2, RespondEffect
    <2> QED BY <2>2, <2>3 DEF process, TypeOK
  <1>6. ASSUME TimerFires PROVE Rest
    <2>1. /\ chunk' \in BOOLEAN /\ claimed' \in BOOLEAN
          /\ UNCHANGED <<host, process, execute, terminal, runStatus, done, cancelled>>
      BY <1>6 DEF TimerFires, TypeOK
    <2>2. rows' \in RowType /\ pending' \in PendingType /\ timer' \in Interactions \cup {None}
      <3>1. CASE pending # None /\ pending.policy \in Policies /\ timer \in Deliverer
                 /\ Send(timer, pending.policy, TimedOutStatus(pending.policy))
        <4>1. TimedOutStatus(pending.policy) \in {"responded", "timed_out"}
          BY DEF TimedOutStatus
        <4> QED BY <3>1, <4>1, SendType
      <3>2. CASE timer' = None /\ UNCHANGED <<rows, pending>>
        BY <3>2 DEF TypeOK
      <3> QED BY <1>6, <3>1, <3>2, TimerFiresEffect
    <2> QED BY <2>1, <2>2 DEF process, TypeOK
  <1>7. ASSUME Continues PROVE Rest
    <2>1. CASE ExecuteContinues
      <3>1. /\ rows' \in RowType /\ pending' \in PendingType
            /\ timer' \in Interactions \cup {None} /\ done' \in DoneType
        BY <1>s, <2>1 DEF ExecuteContinues
      <3> QED BY <2>1, <3>1 DEF ExecuteContinues, process, TypeOK
    <2>2. CASE \E c \in DOMAIN calls : Continue(c)
      BY <2>2 DEF Continue, ReleaseOnThrow, process, TypeOK
    <2> QED BY <1>7, <2>1, <2>2 DEF Continues
  <1>8. ASSUME Outside PROVE Rest
    <2>1. UNCHANGED <<host, terminal, runStatus, rows, pending, claimed, done>>
          /\ timer' \in {timer, None}
      BY <1>8, OutsideEffect DEF OutcomeUnchanged
    <2>2. execute' \in {"sent", "resolved", "rejected", "handled"}
      <3>1. execute \in {"sent", "resolved", "rejected", "handled"}
        BY DEF TypeOK
      <3> QED BY <1>8, <3>1, OutsideEffect, RejectPendingEffect
    <2>3. agent' \in {"running", "killed", "exited", "reaped"} /\ stdout' \in {"open", "ended"}
          /\ chunk' \in BOOLEAN /\ cancelled' \in BOOLEAN
      BY <1>8 DEF Outside, Cancel, CloseControl, AgentExits, StdoutEnds, ExitTimerFires, process,
                  TypeOK
    <2> QED BY <2>1, <2>2, <2>3 DEF TypeOK
  <1>9. Rest
    BY <1>1, <1>2, <1>3, <1>4, <1>5, <1>6, <1>7, <1>8 DEF Step, AgentLine, Outside
  <1> QED BY <1>9, CallsType DEF TypeOK, Deliverer, CallState

(* The variables keep their types, whatever the agent writes and whenever it     *)
(* dies.                                                                         *)
THEOREM TypeCorrect == Spec => []TypeOK
  <1>1. TypeOK /\ UNCHANGED vars => TypeOK'
    BY DEF TypeOK, vars, process
  <1>2. TypeOK /\ [Next]_vars => TypeOK'
    BY <1>1, TypeInductive, NextIsStep
  <1> QED BY InitType, <1>2, PTL DEF Spec

-------------------------------------------------------------------------------
(* The inductive invariant.                                                      *)

(* A terminal event settles the promise, unless the execute request has done so; *)
(* what settled the promise with a status is a terminal event, after which no    *)
(* interaction is accepted.                                                      *)
Settlement ==
    /\ terminal # None => settled
    /\ done \in TerminalStatuses =>
          /\ terminal # None /\ runStatus = done
          /\ pending = None /\ timer = None
          /\ \A i \in Interactions : rows[i] # "pending"

(* A delivery names an interaction from the moment its request is written, and   *)
(* the row of that interaction is decided from the same moment.  Each decided    *)
(* row has one delivery, and the timer of an interaction delivers for no other.  *)
Decided == {"responded", "timed_out"}

Deliveries ==
    /\ \A c \in Deliverer : calls[c].id = None <=> calls[c].st \in {"free", "thrown"}
    /\ \A c \in Interactions : calls[c].id \in {c, None}
    /\ \A c \in Deliverer : calls[c].id # None => rows[calls[c].id] \in Decided
    /\ \A c, d \in Deliverer : calls[c].id # None /\ calls[c].id = calls[d].id => c = d
    /\ \A i \in Interactions : rows[i] \in Decided => \E c \in Deliverer : calls[c].id = i
    /\ \A c \in Deliverer :
          calls[c].id # None =>
             (rows[calls[c].id] = "timed_out" <=> c = calls[c].id /\ calls[c].response = "abort")

(* The claim on a pending interaction is held by an attempt that has thrown.     *)
Claims == claimed /\ pending # None => \E c \in Deliverer : calls[c].st = "thrown"

IInv == /\ TypeOK
        /\ PendingHasOpenRow /\ TimerBelongsToPending
        /\ Settlement /\ Deliveries /\ Claims

LEMMA InitIInv == Init => IInv
  <1> SUFFICES ASSUME Init PROVE IInv
    OBVIOUS
  <1>1. TypeOK
    BY InitType
  <1>2. \A c \in Deliverer : calls[c] = NoCall
    BY DEF Init, Deliverer
  <1>3. Deliveries
    BY <1>2, NoCallType DEF Init, Deliveries, Deliverer, Decided
  <1>4. PendingHasOpenRow /\ TimerBelongsToPending /\ Settlement /\ Claims
    BY DEF Init, PendingHasOpenRow, TimerBelongsToPending, Settlement, settled, TerminalStatuses,
           Claims
  <1> QED BY <1>1, <1>3, <1>4 DEF IInv

(* What a step does to the outcome and to the deliveries is one of five things.  *)
(* Two of them are these; the others are the acceptance of an interaction or of  *)
(* a terminal event, and what follows the reply to agent.execute.                *)
Delivers(c, response, status) ==
    /\ ~ settled /\ pending # None /\ rows[pending.id] = "pending"
    /\ Send(c, response, status)
    /\ UNCHANGED <<terminal, runStatus, done>>
    /\ \/ c \in UserCalls /\ calls[c].st = "free"
          /\ response \in Responses /\ status = "responded"
       \/ c \in Interactions /\ c = timer
          /\ response \in Policies /\ status = TimedOutStatus(response)

Idles ==
    /\ UNCHANGED <<rows, pending, terminal, runStatus, done>>
    /\ timer' \in {timer, None}
    /\ \A c \in Deliverer :
          /\ calls'[c].id = calls[c].id
          /\ calls'[c].response = calls[c].response \/ calls[c].id = None
          /\ calls'[c].st \in {"free", "thrown"} <=> calls[c].st \in {"free", "thrown"}

(* Changing the status of one delivery, but not between those that precede the   *)
(* sending and those that follow it, leaves the deliveries as Idles says.        *)
LEMMA StatusChange ==
  ASSUME TypeOK, NEW c \in Deliverer,
         NEW v \in {"free", "thrown", "sent", "resolved", "rejected", "succeeded", "failed"},
         calls' = [calls EXCEPT ![c].st = v],
         v \in {"free", "thrown"} <=> calls[c].st \in {"free", "thrown"}
  PROVE  \A d \in Deliverer :
            /\ calls'[d].id = calls[d].id
            /\ calls'[d].response = calls[d].response
            /\ calls'[d].st \in {"free", "thrown"} <=> calls[d].st \in {"free", "thrown"}
  <1>1. calls \in [Deliverer -> CallState]
    BY DEF TypeOK, Deliverer, CallState
  <1>2. ASSUME NEW d \in Deliverer
        PROVE  /\ calls'[d].id = calls[d].id
               /\ calls'[d].response = calls[d].response
               /\ calls'[d].st = IF d = c THEN v ELSE calls[d].st
    <2>1. calls[d] \in CallState
      BY <1>1
    <2>2. CASE d # c
      BY <1>1, <2>2
    <2>3. CASE d = c
      <3>1. calls'[d] = [calls[d] EXCEPT !.st = v]
        BY <1>1, <2>3
      <3> QED BY <2>1, <2>3, <3>1 DEF CallState
    <2> QED BY <2>2, <2>3
  <1> QED BY <1>2

LEMMA StepEffect ==
  ASSUME IInv, Step
  PROVE  \/ \E i \in Interactions, policy \in Policies : AcceptInteraction(i, policy)
         \/ \E type \in TerminalTypes : AcceptTerminal(type)
         \/ ExecuteContinues
         \/ \E c \in Deliverer : \E response \in Responses \cup Policies, status \in Decided :
                Delivers(c, response, status)
         \/ Idles
  <1> USE DEF IInv
  <1>1. CASE UNCHANGED <<rows, pending, terminal, runStatus, done, calls>> /\ timer' \in {timer, None}
    BY <1>1 DEF Idles
  <1>2. ASSUME NEW c \in DOMAIN calls, NEW reply \in {"resolved", "rejected"}, CallReply(c, reply)
        PROVE  Idles
    <2>1. /\ c \in Deliverer /\ calls' = [calls EXCEPT ![c].st = reply] /\ calls[c].st = "sent"
          /\ UNCHANGED <<rows, pending, terminal, runStatus, done, timer>>
      BY <1>2 DEF CallReply, TypeOK, Deliverer
    <2> QED BY <2>1, StatusChange DEF Idles
  <1>3. ASSUME NEW c \in UserCalls, NEW i \in Interactions, NEW response \in Responses,
               Respond(c, i, response)
        PROVE  Idles \/ Delivers(c, response, "responded")
    <2>1. CASE Deliverable(i, response) /\ Send(c, response, "responded")
      BY <1>3, <2>1, RespondEffect DEF Delivers, Deliverable
    <2>2. CASE calls' = [calls EXCEPT ![c].st = "thrown"] /\ UNCHANGED <<rows, pending, timer>>
      BY <1>3, <2>2, RespondEffect, StatusChange DEF Idles
    <2> QED BY <1>3, <2>1, <2>2, RespondEffect
  <1>4. CASE TimerFires
    <2>1. CASE /\ ~ settled /\ pending # None /\ pending.policy \in Policies
               /\ rows[pending.id] = "pending"
               /\ Send(timer, pending.policy, TimedOutStatus(pending.policy))
      <3>1. TimedOutStatus(pending.policy) \in Decided
        BY DEF TimedOutStatus, Decided
      <3>2. Delivers(timer, pending.policy, TimedOutStatus(pending.policy))
        BY <1>4, <2>1, TimerFiresEffect DEF Delivers
      <3> QED BY <1>4, <2>1, <3>1, <3>2, TimerFiresEffect
    <2>2. CASE /\ pending # None
               /\ calls' = [calls EXCEPT ![timer].st = "thrown"] /\ timer' = None
               /\ UNCHANGED <<rows, pending>>
      <3>1. timer \in Deliverer /\ UNCHANGED <<terminal, runStatus, done>>
        BY <1>4, TimerFiresEffect
      <3>2. calls[timer].st \in {"free", "thrown"}
        BY <1>4, <2>2, TimerFiresEffect
           DEF Deliveries, PendingHasOpenRow, TimerBelongsToPending, Decided, Deliverer
      <3> QED BY <2>2, <3>1, <3>2, StatusChange DEF Idles
    <2>3. CASE timer' = None /\ UNCHANGED <<rows, pending, claimed, calls>>
      BY <1>1, <1>4, <2>3, TimerFiresEffect
    <2> QED BY <1>4, <2>1, <2>2, <2>3, TimerFiresEffect
  <1>5. ASSUME NEW c \in DOMAIN calls, Continue(c) PROVE Idles
    <2>1. /\ c \in Deliverer
          /\ UNCHANGED <<rows, pending, timer, terminal, runStatus, done>>
      BY <1>5, ContinueEffect
    <2>2. CASE calls[c].st = "thrown" /\ calls' = [calls EXCEPT ![c] = NoCall]
      <3>1. calls \in [Deliverer -> CallState]
        BY DEF TypeOK, Deliverer, CallState
      <3>2. calls[c].id = None
        BY <2>1, <2>2 DEF Deliveries
      <3>3. \A d \in Deliverer : calls'[d] = IF d = c THEN NoCall ELSE calls[d]
        BY <2>2, <3>1
      <3> QED BY <2>1, <2>2, <3>2, <3>3, NoCallType DEF Idles
    <2>3. CASE calls[c].st = "resolved" /\ calls' = [calls EXCEPT ![c].st = "succeeded"]
      BY <2>1, <2>3, StatusChange DEF Idles
    <2>4. CASE calls[c].st = "rejected" /\ calls' = [calls EXCEPT ![c].st = "failed"]
      BY <2>1, <2>4, StatusChange DEF Idles
    <2> QED BY <1>5, <2>2, <2>3, <2>4, ContinueEffect
  <1>6. CASE Outside
    <2>1. UNCHANGED <<rows, pending, terminal, runStatus, done>> /\ timer' \in {timer, None}
      BY <1>6, OutsideEffect DEF OutcomeUnchanged
    <2>2. CASE UNCHANGED <<execute, calls>>
      BY <1>1, <2>1, <2>2
    <2>3. CASE RejectPending
      <3>1. \A c \in Deliverer : calls[c] \in CallState
        BY DEF TypeOK, Deliverer, CallState
      <3> QED BY <2>1, <2>3, <3>1, RejectPendingEffect DEF Idles
    <2> QED BY <1>6, <2>2, <2>3, OutsideEffect
  <1>7. ASSUME NEW i \in Interactions, RepeatInteractionId(i) PROVE Idles
    BY <1>7 DEF RepeatInteractionId, Idles
  <1>8. ASSUME NEW reply \in {"resolved", "rejected"}, ExecuteReply(reply) PROVE Idles
    BY <1>8 DEF ExecuteReply, Idles
  <1>9. CASE Responds
    <2>1. "responded" \in Decided /\ \A c \in UserCalls : c \in Deliverer
      BY DEF Decided, Deliverer
    <2> QED BY <1>3, <1>9, <2>1 DEF Responds
  <1> QED BY <1>2, <1>4, <1>5, <1>6, <1>7, <1>8, <1>9 DEF Step, AgentLine, Continues, Outside

(* An interaction is accepted for an id without a row and before any terminal    *)
(* event.                                                                        *)
LEMMA AcceptEffect ==
  ASSUME IInv, NEW i \in Interactions, NEW policy \in Policies, AcceptInteraction(i, policy)
  PROVE  /\ pending' = [id |-> i, policy |-> policy] /\ pending' # None
         /\ rows[i] = "none" /\ rows' = [rows EXCEPT ![i] = "pending"]
         /\ timer' = IF policy = "none" THEN None ELSE i
         /\ terminal = None /\ done \notin TerminalStatuses /\ claimed' = FALSE
         /\ UNCHANGED <<terminal, runStatus, done, calls>>
  <1>1. [id |-> i, policy |-> policy] # None
    BY CallsAssumption
  <1> QED BY <1>1 DEF AcceptInteraction, Unclaim, ArmTimer, IInv, Settlement

(* The promise, once settled, stays as it is; what settles it leaves neither a   *)
(* pending interaction, nor a timer, nor a pending row.                          *)
LEMMA SettleEffect ==
  ASSUME IInv, NEW outcome \in {"no_terminal_event", "rejected"} \cup TerminalStatuses,
         SettleUnlessDone(outcome)
  PROVE  /\ \/ settled /\ UNCHANGED <<rows, pending, timer, done>>
            \/ /\ ~ settled /\ done' = outcome /\ timer' = None /\ pending' = None
               /\ \A i \in Interactions : rows'[i] # "pending"
         /\ \A i \in Interactions : rows[i] \notin {"none", "pending"} => rows'[i] = rows[i]
         /\ \A i \in Interactions : rows[i] \in {"none", "pending"} => rows'[i] \notin Decided
         /\ done' # "open"
  BY DEF SettleUnlessDone, Settle, Abandon, settled, TerminalStatuses, IInv, TypeOK, Decided

LEMMA TerminalEffect ==
  ASSUME IInv, NEW type \in TerminalTypes, AcceptTerminal(type)
  PROVE  /\ terminal = None /\ terminal' = type /\ terminal' # None
         /\ runStatus' = StatusOf(type) /\ StatusOf(type) \in TerminalStatuses
         /\ done \notin TerminalStatuses
         /\ SettleUnlessDone(StatusOf(type))
         /\ UNCHANGED <<claimed, calls>>
  <1>1. StatusOf(type) \in TerminalStatuses
    BY DEF StatusOf, TerminalStatuses, TerminalTypes
  <1> QED BY <1>1, CallsAssumption DEF AcceptTerminal, IInv, Settlement

LEMMA ExecuteEffect ==
  ASSUME IInv, ExecuteContinues
  PROVE  /\ \E outcome \in {"no_terminal_event", "rejected"} : SettleUnlessDone(outcome)
         /\ UNCHANGED <<terminal, runStatus, claimed, calls>>
  BY DEF ExecuteContinues

(* A delivery closes the pending row and forgets the interaction and its timer,  *)
(* and is the first that its caller has made.                                    *)
LEMMA DeliversEffect ==
  ASSUME IInv, NEW c \in Deliverer, NEW response \in Responses \cup Policies,
         NEW status \in Decided, Delivers(c, response, status)
  PROVE  /\ pending # None /\ pending.id \in Interactions /\ rows[pending.id] = "pending"
         /\ rows' = [rows EXCEPT ![pending.id] = status]
         /\ pending' = None /\ timer' = None
         /\ UNCHANGED <<terminal, runStatus, done>>
         /\ done \notin TerminalStatuses
         /\ \A d \in Deliverer \ {c} : calls'[d] = calls[d]
         /\ calls'[c].id = pending.id /\ calls'[c].response = response
         /\ calls'[c].st \notin {"free", "thrown"}
         /\ calls[c].id = None
         /\ c \in Interactions => c = pending.id
         /\ status = "timed_out" <=> c = pending.id /\ response = "abort"
  <1>1. calls \in [Deliverer -> CallState] /\ pending.id \in Interactions
    BY DEF IInv, TypeOK, Delivers, CallState, Deliverer
  <1>2. calls' = [calls EXCEPT ![c] = [st |-> IF Closed THEN "rejected" ELSE "sent",
                                       id |-> pending.id, response |-> response]]
    BY DEF Delivers, Send
  <1>3. /\ calls'[c].id = pending.id /\ calls'[c].response = response
        /\ calls'[c].st \notin {"free", "thrown"}
        /\ \A d \in Deliverer \ {c} : calls'[d] = calls[d]
    BY <1>1, <1>2
  <1>4. c \in Interactions => c = pending.id
    BY CallsAssumption DEF IInv, Delivers, TimerBelongsToPending
  <1>5. calls[c].id = None
    BY <1>4, CallsAssumption DEF IInv, Delivers, Deliveries, Decided
  <1>6. status = "timed_out" <=> c = pending.id /\ response = "abort"
    <2>1. CASE c \in UserCalls
      BY <1>1, <2>1, CallsAssumption DEF Delivers, Responses
    <2>2. CASE c \in Interactions
      BY <1>4, <2>2, CallsAssumption DEF Delivers, TimedOutStatus
    <2> QED BY <2>1, <2>2 DEF Deliverer
  <1> QED BY <1>1, <1>3, <1>4, <1>5, <1>6
          DEF Delivers, Send, ClearPending, IInv, Settlement, settled, TerminalStatuses

LEMMA PendingInductive ==
  ASSUME IInv, Step
  PROVE  PendingHasOpenRow' /\ TimerBelongsToPending'
  <1> USE DEF PendingHasOpenRow, TimerBelongsToPending
  <1>0. TypeOK
    BY DEF IInv
  <1>1. PendingHasOpenRow /\ TimerBelongsToPending
    BY DEF IInv
  <1>2. ASSUME NEW i \in Interactions, NEW policy \in Policies, AcceptInteraction(i, policy)
        PROVE  PendingHasOpenRow' /\ TimerBelongsToPending'
    <2>1. /\ pending' = [id |-> i, policy |-> policy] /\ rows' = [rows EXCEPT ![i] = "pending"]
          /\ timer' = IF policy = "none" THEN None ELSE i
      BY <1>2, AcceptEffect
    <2>2. rows'[i] = "pending"
      BY <1>0, <2>1 DEF TypeOK
    <2>3. pending'.id = i /\ pending'.policy = policy
      BY <2>1
    <2>4. timer' = IF policy = "none" THEN None ELSE i
      BY <2>1
    <2>5. rows'[pending'.id] = "pending"
      BY <2>2, <2>3
    <2>6. timer' # None => pending' # None /\ pending'.id = timer' /\ pending'.policy # "none"
      <3>1. pending' # None
        BY <1>2, AcceptEffect
      <3> QED BY <2>3, <2>4, <3>1
    <2> QED BY <2>5, <2>6
  <1>3. ASSUME NEW outcome \in {"no_terminal_event", "rejected"} \cup TerminalStatuses,
               SettleUnlessDone(outcome)
        PROVE  PendingHasOpenRow' /\ TimerBelongsToPending'
    BY <1>1, <1>3, SettleEffect
  <1>4. ASSUME NEW c \in Deliverer, NEW response \in Responses \cup Policies,
               NEW status \in Decided, Delivers(c, response, status)
        PROVE  PendingHasOpenRow' /\ TimerBelongsToPending'
    BY <1>4, DeliversEffect
  <1>5. CASE Idles
    BY <1>1, <1>5 DEF Idles
  <1> QED BY <1>2, <1>3, <1>4, <1>5, StepEffect, TerminalEffect, ExecuteEffect

LEMMA SettlementInductive ==
  ASSUME IInv, Step
  PROVE  Settlement'
  <1>1. Settlement
    BY DEF IInv
  <1>2. ASSUME NEW i \in Interactions, NEW policy \in Policies, AcceptInteraction(i, policy)
        PROVE  Settlement'
    BY <1>1, <1>2, AcceptEffect DEF Settlement, settled
  <1>3. ASSUME NEW type \in TerminalTypes, AcceptTerminal(type)
        PROVE  Settlement'
    <2>1. /\ terminal' # None /\ runStatus' = StatusOf(type) /\ StatusOf(type) \in TerminalStatuses
          /\ done \notin TerminalStatuses /\ SettleUnlessDone(StatusOf(type))
      BY <1>3, TerminalEffect
    <2>2. /\ \/ done' = done
             \/ /\ done' = StatusOf(type) /\ timer' = None /\ pending' = None
                /\ \A i \in Interactions : rows'[i] # "pending"
          /\ done' # "open"
      BY <2>1, SettleEffect
    <2> QED BY <2>1, <2>2 DEF Settlement, settled
  <1>4. CASE ExecuteContinues
    BY <1>1, <1>4, ExecuteEffect, SettleEffect DEF Settlement, settled, TerminalStatuses
  <1>5. ASSUME NEW c \in Deliverer, NEW response \in Responses \cup Policies,
               NEW status \in Decided, Delivers(c, response, status)
        PROVE  Settlement'
    BY <1>1, <1>5, DeliversEffect DEF Settlement, settled
  <1>6. CASE Idles
    BY <1>1, <1>6 DEF Idles, Settlement, settled
  <1> QED BY <1>2, <1>3, <1>4, <1>5, <1>6, StepEffect

LEMMA DeliveriesInductive ==
  ASSUME IInv, Step
  PROVE  Deliveries'
  <1>0. TypeOK /\ Deliveries /\ PendingHasOpenRow
    BY DEF IInv
  <1> USE DEF Deliveries
  (* Rows that are not decided stay so or become what one delivery makes them.   *)
  <1>1. ASSUME UNCHANGED calls,
               \A i \in Interactions : rows[i] \in Decided => rows'[i] = rows[i],
               \A i \in Interactions : rows[i] \notin Decided => rows'[i] \notin Decided
        PROVE  Deliveries'
    <2>1. \A c \in Deliverer : calls[c].id # None => calls[c].id \in Interactions
      <3>1. calls \in [Deliverer -> CallState]
        BY <1>0 DEF TypeOK, Deliverer, CallState
      <3> QED BY <3>1 DEF CallState
    <2> QED BY <1>0, <1>1, <2>1
  <1>2. ASSUME NEW i \in Interactions, NEW policy \in Policies, AcceptInteraction(i, policy)
        PROVE  Deliveries'
    <2>1. /\ rows' = [rows EXCEPT ![i] = "pending"] /\ rows[i] = "none" /\ UNCHANGED calls
      BY <1>2, AcceptEffect
    <2>2. \A j \in Interactions : rows'[j] = IF j = i THEN "pending" ELSE rows[j]
      BY <1>0, <2>1 DEF TypeOK
    <2> QED BY <1>1, <2>1, <2>2 DEF Decided
  <1>3. ASSUME NEW outcome \in {"no_terminal_event", "rejected"} \cup TerminalStatuses,
               SettleUnlessDone(outcome), UNCHANGED calls
        PROVE  Deliveries'
    <2>1. \A i \in Interactions : rows[i] \in Decided => rows'[i] = rows[i]
      BY <1>3, SettleEffect DEF Decided
    <2>2. \A i \in Interactions : rows[i] \notin Decided => rows'[i] \notin Decided
      BY <1>3, SettleEffect DEF Decided
    <2> QED BY <1>1, <1>3, <2>1, <2>2
  <1>4. ASSUME NEW c \in Deliverer, NEW response \in Responses \cup Policies,
               NEW status \in Decided, Delivers(c, response, status)
        PROVE  Deliveries'
    <2> DEFINE i == pending.id
    <2>1. /\ i \in Interactions /\ rows[i] = "pending" /\ rows' = [rows EXCEPT ![i] = status]
          /\ \A d \in Deliverer \ {c} : calls'[d] = calls[d]
          /\ calls'[c].id = i /\ calls'[c].response = response
          /\ calls'[c].st \notin {"free", "thrown"}
          /\ calls[c].id = None
          /\ c \in Interactions => c = i
          /\ status = "timed_out" <=> c = i /\ response = "abort"
      BY <1>4, DeliversEffect
    <2>2. \A j \in Interactions : rows'[j] = IF j = i THEN status ELSE rows[j]
      BY <1>0, <2>1 DEF TypeOK
    <2>3. \A d \in Deliverer : calls[d].id # i
      BY <1>0, <2>1, CallsAssumption DEF Decided
    <2>4. i # None
      BY <2>1, CallsAssumption
    <2>5. \A d \in Deliverer : calls[d].id # None => calls[d].id \in Interactions
      <3>1. calls \in [Deliverer -> CallState]
        BY <1>0 DEF TypeOK, Deliverer, CallState
      <3> QED BY <3>1 DEF CallState
    <2> HIDE DEF i
    <2>6. \A d \in Deliverer : calls'[d].id = None <=> calls'[d].st \in {"free", "thrown"}
      BY <1>0, <2>1, <2>4
    <2>7. \A d \in Interactions : calls'[d].id \in {d, None}
      BY <1>0, <2>1 DEF Deliverer
    <2>8. \A d \in Deliverer : calls'[d].id # None => rows'[calls'[d].id] \in Decided
      BY <1>0, <2>1, <2>2, <2>5
    <2>9. \A d, e \in Deliverer : calls'[d].id # None /\ calls'[d].id = calls'[e].id => d = e
      BY <1>0, <2>1, <2>3
    <2>10. \A j \in Interactions : rows'[j] \in Decided => \E d \in Deliverer : calls'[d].id = j
      <3>1. ASSUME NEW j \in Interactions, j # i, rows[j] \in Decided
            PROVE  \E d \in Deliverer : calls'[d].id = j
        <4>1. PICK d \in Deliverer : calls[d].id = j
          BY <1>0, <3>1
        <4>2. d # c
          BY <2>1, <3>1, <4>1, CallsAssumption
        <4> QED BY <2>1, <4>1, <4>2
      <3> QED BY <2>1, <2>2, <3>1
    <2>11. \A d \in Deliverer : calls'[d].id # None =>
              (rows'[calls'[d].id] = "timed_out"
                 <=> d = calls'[d].id /\ calls'[d].response = "abort")
      BY <1>0, <2>1, <2>2, <2>3, <2>5
    <2> QED BY <2>6, <2>7, <2>8, <2>9, <2>10, <2>11
  <1>5. CASE Idles
    <2>1. /\ rows' = rows
          /\ \A c \in Deliverer :
                /\ calls'[c].id = calls[c].id
                /\ calls'[c].response = calls[c].response \/ calls[c].id = None
                /\ calls'[c].st \in {"free", "thrown"} <=> calls[c].st \in {"free", "thrown"}
      BY <1>5 DEF Idles
    <2>2. \A c \in Interactions : c \in Deliverer
      BY DEF Deliverer
    <2>3. /\ \A c \in Deliverer : calls'[c].id = None <=> calls'[c].st \in {"free", "thrown"}
          /\ \A c \in Interactions : calls'[c].id \in {c, None}
          /\ \A c \in Deliverer : calls'[c].id # None => rows'[calls'[c].id] \in Decided
      BY <1>0, <2>1, <2>2
    <2>4. \A c, d \in Deliverer : calls'[c].id # None /\ calls'[c].id = calls'[d].id => c = d
      BY <1>0, <2>1
    <2>5. \A i \in Interactions : rows'[i] \in Decided => \E c \in Deliverer : calls'[c].id = i
      BY <1>0, <2>1
    <2>6. \A c \in Deliverer : calls'[c].id # None =>
             (rows'[calls'[c].id] = "timed_out"
                <=> c = calls'[c].id /\ calls'[c].response = "abort")
      BY <1>0, <2>1
    <2> QED BY <2>3, <2>4, <2>5, <2>6
  <1> QED BY <1>2, <1>3, <1>4, <1>5, StepEffect, TerminalEffect, ExecuteEffect

LEMMA ClaimsInductive ==
  ASSUME IInv, Step
  PROVE  Claims'
  <1>0. TypeOK /\ Claims
    BY DEF IInv
  <1>t. /\ claimed \in BOOLEAN
        /\ \A c \in Deliverer : calls[c] \in CallState
        /\ DOMAIN calls = Deliverer
    BY <1>0 DEF TypeOK, Deliverer, CallState
  (* A status that is not "thrown" is replaced, so what has thrown stays.        *)
  <1>1. ASSUME claimed' = claimed, pending' = None \/ pending' = pending,
               \A c \in Deliverer : calls[c].st = "thrown" => calls'[c].st = "thrown"
        PROVE  Claims'
    BY <1>0, <1>1 DEF Claims
  <1>2. ASSUME claimed' = FALSE PROVE Claims'
    BY <1>2 DEF Claims
  <1>3. ASSUME pending' = None PROVE Claims'
    BY <1>3 DEF Claims
  <1>4. ASSUME NEW c \in Deliverer, calls' = [calls EXCEPT ![c].st = "thrown"] PROVE Claims'
    <2>1. calls'[c] = [calls[c] EXCEPT !.st = "thrown"]
      BY <1>t, <1>4
    <2>2. calls'[c].st = "thrown"
      BY <1>t, <2>1 DEF CallState
    <2> QED BY <2>2 DEF Claims
  <1>5. ASSUME NEW i \in Interactions, NEW policy \in Policies, AcceptInteraction(i, policy)
        PROVE  Claims'
    BY <1>2, <1>5 DEF AcceptInteraction, Unclaim
  <1>6. ASSUME NEW outcome, SettleUnlessDone(outcome), UNCHANGED <<claimed, calls>> PROVE Claims'
    BY <1>1, <1>6 DEF SettleUnlessDone, Settle
  <1>7. ASSUME UNCHANGED <<claimed, pending, calls>> PROVE Claims'
    BY <1>1, <1>7
  <1>8. ASSUME NEW c \in DOMAIN calls, NEW reply \in {"resolved", "rejected"}, CallReply(c, reply)
        PROVE  Claims'
    <2>1. /\ calls[c].st = "sent" /\ calls' = [calls EXCEPT ![c].st = reply]
          /\ UNCHANGED <<claimed, pending>>
      BY <1>8 DEF CallReply
    <2>2. \A d \in Deliverer : calls[d].st = "thrown" => calls'[d].st = "thrown"
      BY <1>t, <2>1
    <2> QED BY <1>1, <2>1, <2>2
  <1>9. CASE Responds
    <2>1. PICK c \in UserCalls, i \in Interactions, response \in Responses :
              Respond(c, i, response)
      BY <1>9 DEF Responds
    <2>2. CASE Send(c, response, "responded")
      BY <1>3, <2>2 DEF Send, ClearPending
    <2>3. CASE calls' = [calls EXCEPT ![c].st = "thrown"]
      BY <1>4, <2>3 DEF Deliverer
    <2> QED BY <1>0, <2>1, <2>2, <2>3, RespondEffect
  <1>10. CASE TimerFires
    <2>1. CASE Send(timer, pending.policy, TimedOutStatus(pending.policy))
      BY <1>3, <2>1 DEF Send, ClearPending
    <2>2. CASE calls' = [calls EXCEPT ![timer].st = "thrown"] /\ timer \in Deliverer
      BY <1>4, <2>2
    <2> QED BY <1>0, <1>7, <1>10, <2>1, <2>2, TimerFiresEffect
  <1>11. ASSUME NEW c \in DOMAIN calls, Continue(c) PROVE Claims'
    <2>1. CASE claimed' = FALSE
      BY <1>2, <2>1
    <2>2. CASE UNCHANGED <<claimed, pending>>
               /\ \/ calls[c].st = "resolved" /\ calls' = [calls EXCEPT ![c].st = "succeeded"]
                  \/ calls[c].st = "rejected" /\ calls' = [calls EXCEPT ![c].st = "failed"]
      <3>1. \A d \in Deliverer : calls[d].st = "thrown" => calls'[d].st = "thrown"
        BY <1>t, <2>2
      <3> QED BY <1>1, <2>2, <3>1
    <2> QED BY <1>11, <2>1, <2>2 DEF Continue, ReleaseOnThrow
  <1>12. CASE Outside
    <2>1. UNCHANGED <<claimed, pending>>
      BY <1>0, <1>12, OutsideEffect DEF OutcomeUnchanged
    <2>2. \A d \in Deliverer : calls[d].st = "thrown" => calls'[d].st = "thrown"
      BY <1>0, <1>12, OutsideEffect, RejectPendingEffect
    <2> QED BY <1>1, <2>1, <2>2
  <1>13. ASSUME NEW i \in Interactions, RepeatInteractionId(i) PROVE Claims'
    BY <1>7, <1>13 DEF RepeatInteractionId
  <1>14. ASSUME NEW type \in TerminalTypes, AcceptTerminal(type) PROVE Claims'
    BY <1>6, <1>14 DEF AcceptTerminal
  <1>15. ASSUME NEW reply \in {"resolved", "rejected"}, ExecuteReply(reply) PROVE Claims'
    BY <1>7, <1>15 DEF ExecuteReply
  <1>16. CASE ExecuteContinues
    BY <1>6, <1>16 DEF ExecuteContinues
  <1> QED BY <1>5, <1>8, <1>9, <1>10, <1>11, <1>12, <1>13, <1>14, <1>15, <1>16
          DEF Step, AgentLine, Continues, Outside

LEMMA Inductive == IInv /\ [Next]_vars => IInv'
  <1>1. IInv /\ UNCHANGED vars => IInv'
    BY DEF vars, process, IInv, TypeOK, PendingHasOpenRow, TimerBelongsToPending, Settlement,
           settled, Deliveries, Claims
  <1>2. IInv /\ Step => IInv'
    BY TypeInductive, PendingInductive, SettlementInductive, DeliveriesInductive, ClaimsInductive
       DEF IInv
  <1> QED BY <1>1, <1>2, NextIsStep

(* IInv holds in every state.                                                    *)
THEOREM Invariance == Spec => []IInv
  <1> QED BY InitIInv, Inductive, PTL DEF Spec

-------------------------------------------------------------------------------
(* The properties.                                                               *)

(* The closure and the interactions table agree on what is pending, whatever is  *)
(* requested, answered, timed out or abandoned.                                  *)
THEOREM PendingIsOpen == Spec => []PendingHasOpenRow
  <1>1. IInv => PendingHasOpenRow
    BY DEF IInv
  <1> QED BY Invariance, <1>1, PTL

(* A timer that is armed is the pending interaction's: every way to lose the     *)
(* interaction disarms it or, as close() does, leaves the interaction pending.   *)
THEOREM NoStaleTimer == Spec => []TimerBelongsToPending
  <1>1. IInv => TimerBelongsToPending
    BY DEF IInv
  <1> QED BY Invariance, <1>1, PTL

(* A run settled by a terminal event keeps the status of its row and nothing     *)
(* unfinished, although lines are read and replies handled afterwards.           *)
THEOREM CleanSettlement == Spec => []TerminalSettlementIsClean
  <1>1. IInv => TerminalSettlementIsClean
    BY DEF IInv, Settlement, TerminalSettlementIsClean
  <1> QED BY Invariance, <1>1, PTL

LEMMA UniqueWinner == IInv => OneWinner
  <1> SUFFICES ASSUME IInv, NEW i \in Interactions
               PROVE  LET winners == {c \in Delivered : calls[c].id = i}
                      IN  /\ Cardinality(winners) = IF rows[i] \in Decided THEN 1 ELSE 0
                          /\ \A c \in winners :
                                rows[i] = "timed_out" <=> c = i /\ calls[c].response = "abort"
    BY DEF OneWinner, Decided
  <1> DEFINE winners == {c \in Delivered : calls[c].id = i}
  <1>1. winners = {c \in Deliverer : calls[c].id = i}
    BY CallsAssumption DEF IInv, TypeOK, Delivered, Deliverer
  <1>2. i # None /\ Deliveries
    BY CallsAssumption DEF IInv
  <1> HIDE DEF winners
  <1>3. CASE rows[i] \in Decided
    <2>1. PICK c \in Deliverer : calls[c].id = i
      BY <1>2, <1>3 DEF Deliveries
    <2>2. winners = {c}
      BY <1>1, <1>2, <2>1 DEF Deliveries
    <2>3. rows[i] = "timed_out" <=> c = i /\ calls[c].response = "abort"
      BY <1>2, <2>1 DEF Deliveries
    <2>4. Cardinality(winners) = 1
      BY <2>2, FS_Singleton
    <2>5. \A d \in winners : rows[i] = "timed_out" <=> d = i /\ calls[d].response = "abort"
      BY <2>2, <2>3
    <2> QED BY <1>3, <2>4, <2>5 DEF winners
  <1>4. CASE rows[i] \notin Decided
    <2>1. winners = {}
      BY <1>1, <1>2, <1>4 DEF Deliveries
    <2>2. Cardinality(winners) = 0
      BY <2>1, FS_EmptySet
    <2> QED BY <1>4, <2>1, <2>2 DEF winners
  <1> QED BY <1>3, <1>4

(* When responses of the user and the timeout race, one delivery is made for an  *)
(* interaction at most, and the row names the winner, for any number of callers. *)
THEOREM SingleWinner == Spec => []OneWinner
  <1> QED BY Invariance, UniqueWinner, PTL

(* When no continuation is left to run, a pending interaction can be claimed: no *)
(* failed attempt, of the user or of the timer, locks it.                        *)
THEOREM ClaimReleased == Spec => []ClaimIsReleased
  <1>1. IInv => ClaimIsReleased
    <2> SUFFICES ASSUME IInv, Quiet, pending # None, claimed PROVE FALSE
      BY DEF ClaimIsReleased
    <2>1. PICK c \in Deliverer : calls[c].st = "thrown"
      BY DEF IInv, Claims
    <2>2. c \in Continuing
      BY <2>1 DEF IInv, TypeOK, Deliverer, Continuing
    <2> QED BY <2>2 DEF Quiet
  <1> QED BY Invariance, <1>1, PTL

LEMMA OutcomeStep ==
  ASSUME IInv, [Next]_vars
  PROVE  \A i \in Interactions : rows[i] \notin {"none", "pending"} => rows'[i] = rows[i]
  <1> DEFINE Final == \A i \in Interactions : rows[i] \notin {"none", "pending"} => rows'[i] = rows[i]
  <1>0. rows \in [Interactions -> {"none", "pending", "responded", "timed_out", "abandoned"}]
    BY DEF IInv, TypeOK
  <1>1. ASSUME NEW i \in Interactions, NEW policy \in Policies, AcceptInteraction(i, policy)
        PROVE  Final
    BY <1>0, <1>1 DEF AcceptInteraction
  <1>2. ASSUME NEW outcome \in {"no_terminal_event", "rejected"} \cup TerminalStatuses,
               SettleUnlessDone(outcome)
        PROVE  Final
    BY <1>2, SettleEffect
  <1>3. ASSUME NEW c \in Deliverer, NEW response \in Responses \cup Policies,
               NEW status \in Decided, Delivers(c, response, status)
        PROVE  Final
    <2>1. rows[pending.id] = "pending" /\ rows' = [rows EXCEPT ![pending.id] = status]
      BY <1>3, DeliversEffect
    <2> QED BY <1>0, <2>1
  <1>4. CASE Idles \/ UNCHANGED vars
    BY <1>4 DEF Idles, vars
  <1> QED BY <1>1, <1>2, <1>3, <1>4, NextIsStep, StepEffect, TerminalEffect, ExecuteEffect

(* No step rewrites the outcome of an interaction.                               *)
THEOREM FinalOutcome == Spec => OutcomeIsFinal
  <1>1. IInv /\ [Next]_vars =>
           [\A i \in Interactions : rows[i] \notin {"none", "pending"} => rows'[i] = rows[i]]_vars
    BY OutcomeStep
  <1> QED BY Invariance, <1>1, PTL DEF Spec, OutcomeIsFinal
===============================================================================
