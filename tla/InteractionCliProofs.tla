------------------------- MODULE InteractionCliProofs --------------------------
(* The safety of the prompt loops for any set of interactions, on that of the    *)
(* execution they share.                                                         *)
EXTENDS InteractionCli, ExecutionProofs

-------------------------------------------------------------------------------
(* The invariant of the execution under the loops.                               *)

(* A step of the loops or of the command that leaves the execution as it is ends *)
(* the chunk at most.                                                            *)
Aside == /\ chunk' \in BOOLEAN
         /\ UNCHANGED <<host, agent, stdout, execute, terminal, runStatus, rows, pending, timer,
                        claimed, done, cancelled, calls>>

LEMMA AsideKeeps == IInv /\ Aside => IInv'
  BY DEF Aside, IInv, TypeOK, PendingHasOpenRow, TimerBelongsToPending, Settlement, settled,
         Deliveries, Claims

(* Every other step is a step of Execution, taken when the command allows it.    *)
LEMMA StepKeeps == IInv /\ Step => IInv'
  BY TypeInductive, PendingInductive, SettlementInductive, DeliveriesInductive, ClaimsInductive
     DEF IInv

-------------------------------------------------------------------------------
(* The inductive invariant of the composition, over that of the execution.       *)

LoopStates == {"none", "asking", "unheard", "next_field", "deferred", "ready", "sent", "retry",
               "give_up", "answered", "failed"}

LoopState == [st : LoopStates, kind : Kinds, timed : BOOLEAN, attempt : Attempts]

LoopTypes == /\ isTTY \in BOOLEAN /\ failed \in BOOLEAN
             /\ seed \in {"none", "valid", "invalid"}
             /\ question \in Interactions \cup {None}
             /\ prompts \in [Interactions -> LoopState]
             /\ cli \in {"waiting", "returned", "threw"}

(* The command returns after it has closed the agent.                            *)
ReturnedIsClosed == cli # "waiting" => agent # "running"

(* While the agent runs, the timer of a pending interaction with a policy stays  *)
(* armed: it does not expire without deciding the interaction.                   *)
PendingIsArmed ==
    pending # None /\ pending.policy # "none" /\ agent = "running" => timer = pending.id

(* A loop begins with the row of its interaction, knows whether the request has  *)
(* a timeout policy, leaves only such a request to the runtime, and answers no   *)
(* other interaction than its own.                                               *)
LoopsFollowRows ==
    /\ \A i \in Interactions : rows[i] = "none" => prompts[i] = NoPrompt
    /\ question # None => prompts[question].st # "none"
    /\ \A i \in Interactions :
          prompts[i].st # "none" /\ pending # None /\ pending.id = i =>
             (prompts[i].timed <=> pending.policy # "none")
    /\ \A i \in Interactions : prompts[i].st = "deferred" => prompts[i].timed

OwnCalls == \A i \in Interactions, a \in Attempts : calls[<<i, a>>].id \in {i, None}

(* Without a terminal nothing is asked, and only the loop that has taken the     *)
(* content of the response file has a response to a request with a policy.       *)
Takes(i) == prompts[i].timed /\ (prompts[i].st = "ready" \/ calls[<<i, "first">>].id = i)

WithoutTerminal ==
    ~ isTTY =>
       /\ question = None
       /\ \A i \in Interactions : prompts[i].st \notin {"asking", "next_field"}
       /\ \A i \in Interactions : Takes(i) => seed = "none"
       /\ \A i, j \in Interactions : Takes(i) /\ Takes(j) => i = j

CInv == /\ IInv /\ LoopTypes /\ ReturnedIsClosed /\ PendingIsArmed
        /\ LoopsFollowRows /\ OwnCalls /\ WithoutTerminal

LEMMA CallsAreUserCalls ==
  ASSUME NEW i \in Interactions, NEW a \in Attempts
  PROVE  /\ <<i, a>> \in UserCalls /\ <<i, a>> \in Deliverer /\ <<i, a>> \notin Interactions
         /\ "first" \in Attempts /\ "again" \in Attempts
  BY CallsAssumption, LoopCallsAssumption DEF LoopCalls, Deliverer, Attempts

LEMMA InitCInv == CliInit => CInv
  <1> SUFFICES ASSUME CliInit PROVE CInv
    OBVIOUS
  <1>1. Init /\ IInv
    BY InitIInv DEF CliInit
  <1>2. NoPrompt \in LoopState /\ NoPrompt.st = "none" /\ NoPrompt.timed = FALSE
    BY DEF NoPrompt, LoopState, LoopStates, Kinds, Attempts
  <1>3. \A i \in Interactions : prompts[i] = NoPrompt
    BY DEF CliInit
  <1>4. LoopTypes
    BY <1>2 DEF CliInit, LoopTypes
  <1>5. ReturnedIsClosed /\ PendingIsArmed
    BY <1>1 DEF CliInit, Init, ReturnedIsClosed, PendingIsArmed
  <1>6. LoopsFollowRows /\ WithoutTerminal
    BY <1>1, <1>2, <1>3 DEF CliInit, Init, LoopsFollowRows, WithoutTerminal, Takes
  <1>7. OwnCalls
    <2>1. ASSUME NEW i \in Interactions, NEW a \in Attempts
          PROVE  calls[<<i, a>>].id = None
      BY <1>1, CallsAreUserCalls, NoCallType DEF Init, Deliverer
    <2> QED BY <2>1 DEF OwnCalls
  <1> QED BY <1>1, <1>4, <1>5, <1>6, <1>7 DEF CInv

-------------------------------------------------------------------------------
(* What a step of a loop does.                                                   *)

(* The loop of i goes on in state q.  A response in hand, a question and the end *)
(* of the loop have their reasons.                                               *)
Becomes(i, q) ==
    /\ q \in LoopState /\ q.st # "none"
    /\ prompts' = [prompts EXCEPT ![i] = q]
    /\ q.st = "deferred" => q.timed
    /\ q.st \in {"asking", "next_field"} => isTTY
    /\ q.st = "ready" /\ q.timed /\ ~ isTTY => seed # "none" /\ seed' = "none"
    /\ seed' \in {seed, "none"}
    /\ question' \in {question, None} \/ (question' = i /\ isTTY)
    /\ isTTY' = isTTY

(* A turn of the prompt keeps what the loop knows of the request.                *)
LEMMA PromptEffect ==
  ASSUME LoopTypes, NEW i \in Interactions, NEW p \in LoopState, Prompt(i, p), isTTY' = isTTY
  PROVE  \E q \in LoopState :
            /\ Becomes(i, q) /\ q.timed = p.timed /\ q.kind = p.kind
            /\ q.st = "give_up" => q.kind = "unsupported" \/ ~ isTTY
  <1> DEFINE q(st) == [p EXCEPT !.st = st]
  <1>1. ASSUME NEW st \in LoopStates
        PROVE  /\ q(st) \in LoopState /\ q(st).st = st
               /\ q(st).timed = p.timed /\ q(st).kind = p.kind
    BY <1>1 DEF LoopState
  <1>2. PICK st \in LoopStates \ {"none"} :
           /\ prompts' = [prompts EXCEPT ![i] = q(st)]
           /\ st = "deferred" => p.timed
           /\ st \in {"asking", "next_field"} => isTTY
           /\ st = "ready" /\ p.timed /\ ~ isTTY => seed # "none" /\ seed' = "none"
           /\ st = "give_up" => p.kind = "unsupported" \/ ~ isTTY
           /\ seed' \in {seed, "none"}
           /\ question' \in {question, None} \/ (question' = i /\ isTTY)
    BY DEF Prompt, MayDefault, Defers, Ask, LoopStates, LoopTypes
  <1>3. /\ q(st) \in LoopState /\ q(st).st = st
        /\ q(st).timed = p.timed /\ q(st).kind = p.kind
    BY <1>1
  <1> HIDE DEF q
  <1>4. Becomes(i, q(st))
    BY <1>2, <1>3 DEF Becomes
  <1> QED BY <1>2, <1>3, <1>4

(* A turn of a loop: what the user enters, and what follows an await.            *)
Turn(i) == UserEnters(i) \/ LoopContinues(i)

Sends(i, q) == \E a \in Attempts : /\ Respond(<<i, a>>, i, "valid")
                                       /\ prompts[i].st = "ready" /\ q.st = "sent"

Reasoned(i, q) ==
    q.st = "give_up" /\ done' = "open" /\ pending' # None /\ pending'.id = i =>
       q.kind = "unsupported" \/ ~ isTTY \/ claimed

(* A turn leaves the execution aside, sends the response in hand or closes the   *)
(* control, and gives up on a pending interaction for a reason only: an error    *)
(* the agent has reported belongs to an interaction that is no longer pending.   *)
LEMMA TurnEffect ==
  ASSUME CInv, NEW i \in Interactions, Turn(i)
  PROVE  /\ prompts[i].st # "none" /\ cli' = cli /\ failed' \in BOOLEAN
         /\ \E q \in LoopState :
               /\ Becomes(i, q) /\ q.timed = prompts[i].timed /\ q.kind = prompts[i].kind
               /\ Reasoned(i, q)
               /\ Aside \/ Sends(i, q) \/ CloseControl
  <1> DEFINE p == prompts[i]
             Effect == \E q \in LoopState :
                          /\ Becomes(i, q) /\ q.timed = p.timed /\ q.kind = p.kind
                          /\ Reasoned(i, q)
                          /\ Aside \/ Sends(i, q) \/ CloseControl
  <1>1. p \in LoopState /\ LoopTypes /\ prompts \in [Interactions -> LoopState] /\ i # None
    BY CallsAssumption DEF CInv, LoopTypes
  <1>2. ASSUME EndsChunk PROVE Aside
    BY <1>2 DEF EndsChunk, Aside
  <1>3. ASSUME NEW st \in LoopStates \ {"none", "deferred", "ready", "give_up"},
               prompts' = [prompts EXCEPT ![i].st = st],
               st \in {"asking", "next_field"} => isTTY,
               seed' = seed, isTTY' = isTTY,
               question' \in {question, None} \/ (question' = i /\ isTTY),
               Aside \/ CloseControl
        PROVE  Effect
    <2> DEFINE q == [p EXCEPT !.st = st]
    <2>1. /\ q \in LoopState /\ q.st = st /\ q.timed = p.timed /\ q.kind = p.kind
          /\ prompts' = [prompts EXCEPT ![i] = q]
      BY <1>1, <1>3 DEF LoopState
    <2> HIDE DEF q
    <2>2. Becomes(i, q) /\ Reasoned(i, q)
      BY <1>3, <2>1 DEF Becomes, Reasoned
    <2> QED BY <1>3, <2>1, <2>2
  <1>4. CASE UserEnters(i)
    <2>1. /\ question = i /\ question' = None /\ UNCHANGED <<isTTY, seed, failed, cli>> /\ Aside
      BY <1>2, <1>4 DEF UserEnters
    <2>2. p.st # "none" /\ isTTY
      BY <1>1, <2>1 DEF CInv, LoopsFollowRows, WithoutTerminal, LoopTypes
    <2>3. PICK st \in {"ready", "retry", "next_field"} : prompts' = [prompts EXCEPT ![i].st = st]
      BY <1>4 DEF UserEnters, CaughtError
    <2>4. CASE st = "ready"
      <3> DEFINE q == [p EXCEPT !.st = "ready"]
      <3>1. /\ q \in LoopState /\ q.st = "ready" /\ q.timed = p.timed /\ q.kind = p.kind
            /\ prompts' = [prompts EXCEPT ![i] = q]
        BY <1>1, <2>3, <2>4 DEF LoopState, LoopStates
      <3> HIDE DEF q
      <3>2. Becomes(i, q) /\ Reasoned(i, q)
        BY <2>1, <2>2, <3>1 DEF Becomes, Reasoned
      <3> QED BY <1>1, <2>1, <2>2, <3>1, <3>2 DEF LoopTypes
    <2>5. CASE st # "ready"
      <3>1. st \in LoopStates \ {"none", "deferred", "ready", "give_up"}
        BY <2>3, <2>5 DEF LoopStates
      <3>2. Effect
        BY <1>3, <2>1, <2>2, <2>3, <3>1
      <3> QED BY <1>1, <2>1, <2>2, <3>2 DEF LoopTypes
    <2> QED BY <2>4, <2>5
  <1>5. CASE NextField(i)
    <2>1. p.st = "next_field" /\ UNCHANGED <<isTTY, seed, failed, cli>> /\ Aside
      BY <1>2, <1>5 DEF NextField
    <2>2. isTTY
      BY <2>1 DEF CInv, WithoutTerminal
    <2>3. \E st \in {"retry", "asking", "unheard"} :
             /\ prompts' = [prompts EXCEPT ![i] = [p EXCEPT !.st = st]]
             /\ question' = IF st = "asking" THEN i ELSE question
      BY <1>5 DEF NextField, Ask
    <2>4. Effect
      <3>1. PICK st \in {"retry", "asking", "unheard"} :
                 /\ prompts' = [prompts EXCEPT ![i] = [p EXCEPT !.st = st]]
                 /\ question' = IF st = "asking" THEN i ELSE question
        BY <2>3
      <3>2. st \in LoopStates \ {"none", "deferred", "ready", "give_up"}
        BY <3>1 DEF LoopStates
      <3> QED BY <1>3, <2>1, <2>2, <3>1, <3>2
    <2> QED BY <1>1, <2>1, <2>4 DEF LoopTypes
  <1>6. CASE CliRespond(i)
    <2>1. p.st = "ready" /\ UNCHANGED <<isTTY, seed, question, failed, cli>>
      BY <1>6 DEF CliRespond
    <2>2. CASE Claimable
      <3>1. PICK a \in Attempts :
                 /\ Respond(<<i, a>>, i, "valid")
                 /\ prompts' = [prompts EXCEPT ![i].st = "sent", ![i].attempt = a]
        BY <1>6, <2>2 DEF CliRespond, Attempts
      <3> DEFINE q == [p EXCEPT !.st = "sent", !.attempt = a]
      <3>2. /\ q \in LoopState /\ q.st = "sent" /\ q.timed = p.timed /\ q.kind = p.kind
            /\ prompts' = [prompts EXCEPT ![i] = q]
        BY <1>1, <3>1 DEF LoopState, LoopStates
      <3> HIDE DEF q
      <3>3. Becomes(i, q) /\ Reasoned(i, q) /\ Sends(i, q)
        BY <2>1, <3>1, <3>2 DEF Becomes, Reasoned, Sends
      <3> QED BY <1>1, <2>1, <3>2, <3>3 DEF LoopTypes
    <2>3. CASE ~ Claimable
      <3>1. prompts' = [prompts EXCEPT ![i].st = "give_up"] /\ Aside
        BY <1>2, <1>6, <2>3 DEF CliRespond
      <3> DEFINE q == [p EXCEPT !.st = "give_up"]
      <3>2. /\ q \in LoopState /\ q.st = "give_up" /\ q.timed = p.timed /\ q.kind = p.kind
            /\ prompts' = [prompts EXCEPT ![i] = q]
        BY <1>1, <3>1 DEF LoopState, LoopStates
      <3> HIDE DEF q
      <3>3. Becomes(i, q)
        BY <2>1, <3>1, <3>2 DEF Becomes
      <3>4. Reasoned(i, q)
        BY <2>3, <3>1 DEF Reasoned, Aside, Claimable, settled
      <3> QED BY <1>1, <2>1, <3>1, <3>2, <3>3, <3>4 DEF LoopTypes
    <2> QED BY <2>2, <2>3
  <1>7. CASE Responded(i)
    <2>1. /\ p.st = "sent" /\ UNCHANGED <<isTTY, seed, question, failed, cli>> /\ Aside
      BY <1>2, <1>7 DEF Responded
    <2>2. PICK st \in {"answered", "retry", "give_up"} :
               /\ prompts' = [prompts EXCEPT ![i].st = st]
               /\ st = "give_up" => calls[<<i, p.attempt>>].st = "failed"
      BY <1>7 DEF Responded, Outstanding, CaughtError
    <2>3. CASE st = "give_up"
      <3> DEFINE q == [p EXCEPT !.st = "give_up"]
                 c == <<i, p.attempt>>
      <3>1. /\ q \in LoopState /\ q.st = "give_up" /\ q.timed = p.timed /\ q.kind = p.kind
            /\ prompts' = [prompts EXCEPT ![i] = q]
        BY <1>1, <2>2, <2>3 DEF LoopState, LoopStates
      <3>2. p.attempt \in Attempts /\ c \in Deliverer
        BY <1>1, CallsAreUserCalls DEF LoopState
      <3>3. calls[c].id \in {i, None} /\ calls[c].st = "failed"
        BY <2>2, <2>3, <3>2 DEF CInv, OwnCalls
      <3> HIDE DEF q, c
      <3>4. rows[i] \in Decided
        BY <3>2, <3>3 DEF CInv, IInv, Deliveries
      <3>5. Reasoned(i, q)
        BY <2>1, <3>4 DEF Reasoned, Aside, CInv, IInv, PendingHasOpenRow, Decided
      <3>6. Becomes(i, q)
        BY <2>1, <3>1 DEF Becomes
      <3> QED BY <1>1, <2>1, <3>1, <3>5, <3>6 DEF LoopTypes
    <2>4. CASE st # "give_up"
      <3>1. /\ st \in LoopStates \ {"none", "deferred", "ready", "give_up"}
            /\ st \notin {"asking", "next_field"}
        BY <2>2, <2>4 DEF LoopStates
      <3>2. Effect
        BY <1>3, <2>1, <2>2, <3>1
      <3> QED BY <1>1, <2>1, <3>2 DEF LoopTypes
    <2> QED BY <2>3, <2>4
  <1>8. CASE Retry(i)
    <2>1. p.st = "retry" /\ UNCHANGED <<isTTY, failed, cli>> /\ Aside /\ Prompt(i, p)
      BY <1>2, <1>8 DEF Retry
    <2>2. PICK q \in LoopState :
            /\ Becomes(i, q) /\ q.timed = p.timed /\ q.kind = p.kind
            /\ q.st = "give_up" => q.kind = "unsupported" \/ ~ isTTY
      BY <1>1, <2>1, PromptEffect
    <2> QED BY <1>1, <2>1, <2>2 DEF LoopTypes, Reasoned
  <1>9. CASE GiveUp(i)
    <2>1. /\ p.st = "give_up" /\ UNCHANGED <<isTTY, seed, question, cli>> /\ failed' = TRUE
          /\ prompts' = [prompts EXCEPT ![i].st = "failed"] /\ CloseControl
      BY <1>9 DEF GiveUp
    <2>2. "failed" \in LoopStates \ {"none", "deferred", "ready", "give_up"}
      BY DEF LoopStates
    <2>3. Effect
      BY <1>3, <2>1, <2>2
    <2> QED BY <1>1, <2>1, <2>3
  <1> QED BY <1>4, <1>5, <1>6, <1>7, <1>8, <1>9 DEF Turn, LoopContinues

-------------------------------------------------------------------------------
(* What a step of the execution does to what the loops rely on.                  *)

(* A row stays, and the pending interaction goes or is superseded.               *)
LEMMA RowsFollow ==
  ASSUME IInv, Step
  PROVE  /\ \A i \in Interactions : rows'[i] = "none" => rows[i] = "none"
         /\ \/ pending' \in {pending, None}
            \/ \E i \in Interactions, policy \in Policies : AcceptInteraction(i, policy)
  <1> DEFINE Follows == /\ \A i \in Interactions : rows'[i] = "none" => rows[i] = "none"
                        /\ pending' \in {pending, None}
  <1>0. rows \in [Interactions -> {"none", "pending", "responded", "timed_out", "abandoned"}]
    BY DEF IInv, TypeOK
  <1>1. ASSUME NEW i \in Interactions, NEW policy \in Policies, AcceptInteraction(i, policy)
        PROVE  \A j \in Interactions : rows'[j] = "none" => rows[j] = "none"
    BY <1>0, <1>1 DEF AcceptInteraction
  <1>2. ASSUME NEW outcome, SettleUnlessDone(outcome) PROVE Follows
    BY <1>0, <1>2 DEF SettleUnlessDone, Settle, Abandon
  <1>3. ASSUME NEW c \in Deliverer, NEW response \in Responses \cup Policies,
               NEW status \in Decided, Delivers(c, response, status)
        PROVE  Follows
    <2>1. rows' = [rows EXCEPT ![pending.id] = status] /\ pending' = None
      BY <1>3, DeliversEffect
    <2> QED BY <1>0, <2>1 DEF Decided
  <1>4. CASE Idles
    BY <1>4 DEF Idles
  <1> QED BY <1>1, <1>2, <1>3, <1>4, StepEffect, TerminalEffect, ExecuteEffect

(* The agent does not start again.                                               *)
LEMMA AgentStaysDown == Step /\ agent' = "running" => agent = "running"
  <1>1. AgentLine => agent' = agent
    BY DEF AgentLine, AcceptInteraction, RepeatInteractionId, AcceptTerminal, ExecuteReply,
           CallReply, process
  <1>2. Responds \/ Cancel \/ Continues \/ TimerFires => agent' = agent
    BY DEF Responds, Respond, Cancel, Continues, ExecuteContinues, Continue, TimerFires, process
  <1>3. (CloseControl \/ AgentExits \/ StdoutEnds \/ ExitTimerFires) /\ agent' = "running"
           => agent = "running"
    BY DEF CloseControl, AgentExits, StdoutEnds, ExitTimerFires
  <1> QED BY <1>1, <1>2, <1>3 DEF Step

(* The steps of the execution that happen under the command: it never cancels,   *)
(* and while the promise is settled and the command has yet to go on, no timer   *)
(* expires.                                                                      *)
OwnStep == \/ AgentLine \/ CloseControl \/ Continues \/ AgentExits \/ StdoutEnds \/ ExitTimerFires
           \/ TimerFires /\ (agent = "running" => ~ settled)

LEMMA OwnStepIsStep == OwnStep \/ Responds => Step
  BY DEF OwnStep, Step

(* A timer that expires while the agent runs and the promise is open decides the *)
(* interaction: nothing else holds the claim then.                               *)
LEMMA ArmedInductive ==
  ASSUME IInv, PendingIsArmed, OwnStep \/ Responds
  PROVE  PendingIsArmed'
  <1> USE DEF PendingIsArmed
  <1>1. ASSUME NEW i \in Interactions, NEW policy \in Policies, AcceptInteraction(i, policy)
        PROVE  PendingIsArmed'
    <2>1. pending' = [id |-> i, policy |-> policy] /\ timer' = IF policy = "none" THEN None ELSE i
      BY <1>1, AcceptEffect
    <2>2. pending'.id = i /\ pending'.policy = policy
      BY <2>1
    <2> QED BY <2>1, <2>2
  <1>2. CASE pending' = None
    BY <1>2
  <1>3. CASE UNCHANGED <<pending, timer>>
    BY <1>3, AgentStaysDown, OwnStepIsStep
  <1>4. CASE TimerFires /\ (agent = "running" => ~ settled)
    <2>1. /\ host = "up" /\ Quiet /\ timer # None /\ agent' = agent
          /\ pending # None /\ pending.id = timer /\ pending.policy # "none"
          /\ rows[pending.id] = "pending" /\ pending.policy \in Policies
      BY <1>4 DEF TimerFires, Task, process, IInv, TimerBelongsToPending, PendingHasOpenRow, TypeOK
    <2>2. claimed = FALSE
      <3>1. claimed => \E c \in Deliverer : calls[c].st = "thrown"
        BY <2>1 DEF IInv, Claims
      <3>2. \A c \in Deliverer : calls[c].st # "thrown"
        BY <2>1 DEF Quiet, Continuing, IInv, TypeOK, Deliverer
      <3> QED BY <3>1, <3>2 DEF IInv, TypeOK
    <2>3. CASE settled
      BY <1>4, <2>1, <2>3
    <2>4. CASE ~ settled
      <3>1. Claimable
        BY <2>1, <2>2, <2>4 DEF Claimable
      <3>2. Deliverable(pending.id, pending.policy)
        BY <2>1 DEF Deliverable, Policies
      <3>3. Send(timer, pending.policy, TimedOutStatus(pending.policy))
        BY <1>4, <2>1, <3>1, <3>2 DEF TimerFires
      <3> QED BY <1>2, <3>3 DEF Send, ClearPending
    <2> QED BY <2>3, <2>4
  <1>5. CASE CloseControl
    BY <1>5 DEF CloseControl
  <1>6. ASSUME NEW outcome, SettleUnlessDone(outcome) PROVE PendingIsArmed'
    BY <1>2, <1>3, <1>6 DEF SettleUnlessDone, Settle
  <1>7. CASE AgentLine
    BY <1>1, <1>3, <1>6, <1>7
       DEF AgentLine, RepeatInteractionId, AcceptTerminal, ExecuteReply, CallReply
  <1>8. CASE Responds
    <2>1. PICK c \in UserCalls, i \in Interactions, response \in Responses :
              Respond(c, i, response)
      BY <1>8 DEF Responds
    <2>2. TypeOK
      BY DEF IInv
    <2> QED BY <1>2, <1>3, <2>1, <2>2, RespondEffect DEF Send, ClearPending
  <1>9. CASE Continues
    BY <1>3, <1>6, <1>9 DEF Continues, ExecuteContinues, Continue
  <1>10. CASE AgentExits \/ StdoutEnds \/ ExitTimerFires
    BY <1>3, <1>10 DEF AgentExits, StdoutEnds, ExitTimerFires, OutcomeUnchanged
  <1> QED BY <1>4, <1>5, <1>7, <1>8, <1>9, <1>10 DEF OwnStep

(* Only a response of the user makes a delivery of the user's, and it makes one. *)
LEMMA OtherCalls ==
  ASSUME IInv, OwnStep
  PROVE  \A c \in UserCalls : calls'[c].id \in {calls[c].id, None}
  <1> DEFINE Others == \A c \in UserCalls : calls'[c].id \in {calls[c].id, None}
  <1>0. /\ TypeOK /\ calls \in [Deliverer -> CallState] /\ DOMAIN calls = Deliverer
        /\ \A c \in UserCalls : c \in Deliverer /\ c \notin Interactions
    BY CallsAssumption DEF IInv, TypeOK, CallState, Deliverer
  <1>1. CASE UNCHANGED calls
    BY <1>1
  <1>2. ASSUME NEW c \in Deliverer, NEW v, calls' = [calls EXCEPT ![c].st = v] PROVE Others
    <2>1. ASSUME NEW d \in UserCalls PROVE calls'[d].id = calls[d].id
      <3>1. CASE d # c
        BY <1>0, <1>2, <3>1
      <3>2. CASE d = c
        <4>1. calls'[d] = [calls[d] EXCEPT !.st = v] /\ calls[d] \in CallState
          BY <1>0, <1>2, <3>2
        <4> QED BY <4>1 DEF CallState
      <3> QED BY <3>1, <3>2
    <2> QED BY <2>1
  <1>3. CASE AgentLine
    <2>1. ASSUME NEW c \in DOMAIN calls, NEW reply \in {"resolved", "rejected"}, CallReply(c, reply)
          PROVE  Others
      BY <1>0, <1>2, <2>1 DEF CallReply
    <2> QED BY <1>1, <1>3, <2>1
            DEF AgentLine, AcceptInteraction, RepeatInteractionId, AcceptTerminal, ExecuteReply
  <1>4. CASE Continues
    <2>1. ASSUME NEW c \in DOMAIN calls, Continue(c) PROVE Others
      <3>1. CASE calls' = [calls EXCEPT ![c] = NoCall]
        <4>1. \A d \in Deliverer : calls'[d] = IF d = c THEN NoCall ELSE calls[d]
          BY <1>0, <3>1
        <4> QED BY <1>0, <4>1, NoCallType
      <3> QED BY <1>0, <1>2, <2>1, <3>1 DEF Continue
    <2> QED BY <1>1, <1>4, <2>1 DEF Continues, ExecuteContinues
  <1>5. CASE TimerFires
    <2>1. timer \in Interactions /\ timer \in Deliverer
      BY <1>0, <1>5, TimerFiresEffect
    <2>2. CASE Send(timer, pending.policy, TimedOutStatus(pending.policy))
      <3>1. \A c \in UserCalls : calls'[c] = calls[c]
        BY <1>0, <2>1, <2>2 DEF Send
      <3> QED BY <3>1
    <2>3. CASE calls' = [calls EXCEPT ![timer].st = "thrown"]
      BY <1>2, <2>1, <2>3
    <2> QED BY <1>0, <1>1, <1>5, <2>2, <2>3, TimerFiresEffect
  <1>6. CASE Outside
    BY <1>0, <1>1, <1>6, OutsideEffect, RejectPendingEffect
  <1> QED BY <1>3, <1>4, <1>5, <1>6 DEF OwnStep, Outside

LEMMA OneResponse ==
  ASSUME IInv, NEW c \in UserCalls, NEW i \in Interactions, NEW response \in Responses,
         Respond(c, i, response)
  PROVE  /\ calls'[c].id \in {i, calls[c].id}
         /\ \A d \in Deliverer \ {c} : calls'[d] = calls[d]
  <1>1. TypeOK /\ calls \in [Deliverer -> CallState] /\ c \in Deliverer
    BY DEF IInv, TypeOK, CallState, Deliverer
  <1>2. CASE Deliverable(i, response) /\ Send(c, response, "responded")
    BY <1>1, <1>2 DEF Deliverable, Send
  <1>3. CASE calls' = [calls EXCEPT ![c].st = "thrown"]
    <2>1. calls'[c] = [calls[c] EXCEPT !.st = "thrown"] /\ calls[c] \in CallState
      BY <1>1, <1>3
    <2> QED BY <1>1, <1>3, <2>1 DEF CallState
  <1> QED BY <1>1, <1>2, <1>3, RespondEffect

-------------------------------------------------------------------------------
(* A step of the composition.                                                    *)

(* An accepted interaction starts a loop, unless one has failed.                 *)
Begins(i, policy, q) ==
    /\ AcceptInteraction(i, policy)
    /\ Becomes(i, q) /\ (q.timed <=> policy # "none") /\ Reasoned(i, q)
    /\ UNCHANGED <<failed, cli>>

(* The execution goes on by itself, or the command returns.                      *)
GoesOn == /\ OwnStep
          /\ UNCHANGED <<isTTY, seed, question, prompts, failed>>
          /\ cli' \in {"waiting", "returned", "threw"}
          /\ cli' = cli \/ CloseControl

LEMMA NextEffect ==
  ASSUME CInv, CliNext
  PROVE  \/ \E i \in Interactions : Turn(i)
         \/ \E i \in Interactions, policy \in Policies, q \in LoopState : Begins(i, policy, q)
         \/ GoesOn
  <1>0. LoopTypes
    BY DEF CInv
  <1>1. ASSUME NEW i \in Interactions, NEW policy \in Policies, NEW kind \in Kinds,
               OnEvent(i, policy, kind)
        PROVE  GoesOn \/ \E q \in LoopState : Begins(i, policy, q)
    <2>1. AcceptInteraction(i, policy) /\ UNCHANGED <<isTTY, failed, cli>>
      BY <1>1 DEF OnEvent
    <2>2. CASE UNCHANGED <<seed, question, prompts>>
      <3>1. OwnStep
        BY <2>1 DEF OwnStep, AgentLine
      <3> QED BY <1>0, <2>1, <2>2, <3>1 DEF GoesOn, LoopTypes
    <2> DEFINE p == [NoPrompt EXCEPT !.kind = kind, !.timed = policy # "none"]
    <2>3. CASE Prompt(i, p)
      <3>1. p \in LoopState /\ (p.timed <=> policy # "none")
        BY DEF NoPrompt, LoopState, LoopStates, Attempts
      <3> HIDE DEF p
      <3>2. PICK q \in LoopState :
                 /\ Becomes(i, q) /\ q.timed = p.timed
                 /\ q.st = "give_up" => q.kind = "unsupported" \/ ~ isTTY
        BY <1>0, <2>1, <2>3, <3>1, PromptEffect
      <3>3. Begins(i, policy, q)
        BY <2>1, <3>1, <3>2 DEF Begins, Reasoned
      <3> QED BY <3>3
    <2> QED BY <1>1, <2>2, <2>3 DEF OnEvent
  <1>2. ASSUME CliLine \/ CliExitTimerFires \/ ProcessEvent \/ RunContinues PROVE GoesOn
    <2>1. UNCHANGED <<isTTY, seed, question, prompts, failed, cli>>
      BY <1>2 DEF CliLine, CliExitTimerFires, ProcessEvent, RunContinues, loopVars
    <2>2. CliLine => AgentLine
      BY DEF CliLine, OtherLine, AgentLine
    <2>3. OwnStep
      BY <1>2, <2>2
         DEF CliExitTimerFires, ProcessEvent, RunContinues, OwnStep
    <2> QED BY <1>0, <2>1, <2>3 DEF GoesOn, LoopTypes
  <1>3. ASSUME CliTimerFires PROVE GoesOn
    <2>1. /\ TimerFires /\ UNCHANGED <<isTTY, seed, question, prompts, failed, cli>>
          /\ cli # "waiting" \/ ~ settled
      BY <1>3 DEF CliTimerFires, loopVars, CliQuiet, CommandWaits
    <2>2. agent = "running" => ~ settled
      BY <2>1 DEF CInv, ReturnedIsClosed
    <2> QED BY <1>0, <2>1, <2>2 DEF GoesOn, OwnStep, LoopTypes
  <1>4. ASSUME CommandReturns PROVE GoesOn
    BY <1>4 DEF CommandReturns, GoesOn, OwnStep
  <1>5. CASE \E i \in Interactions, policy \in Policies, kind \in Kinds :
               OnEvent(i, policy, kind)
    <2>1. PICK i \in Interactions, policy \in Policies, kind \in Kinds :
               OnEvent(i, policy, kind)
      BY <1>5
    <2> QED BY <1>1, <2>1
  <1> QED BY <1>2, <1>3, <1>4, <1>5 DEF CliNext, Turn

LEMMA ExecutionStep ==
  ASSUME CInv, CliNext
  PROVE  Aside \/ OwnStep \/ Responds
  <1>1. ASSUME NEW i \in Interactions, NEW policy \in Policies, AcceptInteraction(i, policy)
        PROVE  OwnStep
    BY <1>1 DEF OwnStep, AgentLine
  <1>2. ASSUME NEW i \in Interactions, NEW q, Sends(i, q) PROVE Responds
    <2>1. \A a \in Attempts : <<i, a>> \in UserCalls
      BY CallsAreUserCalls
    <2>2. "valid" \in Responses
      BY DEF Responses
    <2> QED BY <1>2, <2>1, <2>2 DEF Sends, Responds
  <1>3. CloseControl => OwnStep
    BY DEF OwnStep
  <1>4. ASSUME NEW i \in Interactions, Turn(i) PROVE Aside \/ OwnStep \/ Responds
    <2>1. PICK q \in LoopState : Aside \/ Sends(i, q) \/ CloseControl
      BY <1>4, TurnEffect
    <2> QED BY <1>2, <1>3, <2>1
  <1>5. ASSUME NEW i \in Interactions, NEW policy \in Policies, NEW q \in LoopState,
               Begins(i, policy, q)
        PROVE  OwnStep
    BY <1>1, <1>5 DEF Begins
  <1>6. GoesOn => OwnStep
    BY DEF GoesOn
  <1> QED BY <1>4, <1>5, <1>6, NextEffect

LEMMA ExecutionKeeps ==
  ASSUME CInv, CliNext
  PROVE  /\ IInv' /\ PendingIsArmed'
         /\ \A i \in Interactions : rows'[i] = "none" => rows[i] = "none"
         /\ \/ pending' \in {pending, None}
            \/ \E i \in Interactions, policy \in Policies : AcceptInteraction(i, policy)
         /\ agent' = "running" => agent = "running"
  <1>1. IInv /\ PendingIsArmed
    BY DEF CInv
  <1>2. CASE Aside
    BY <1>1, <1>2, AsideKeeps DEF Aside, PendingIsArmed
  <1>3. CASE OwnStep \/ Responds
    BY <1>1, <1>3, OwnStepIsStep, StepKeeps, ArmedInductive, RowsFollow, AgentStaysDown
  <1> QED BY <1>2, <1>3, ExecutionStep

LEMMA LoopTypesKept ==
  ASSUME CInv, CliNext
  PROVE  LoopTypes' /\ ReturnedIsClosed'
  <1>0. LoopTypes /\ ReturnedIsClosed
    BY DEF CInv
  <1>d. agent' = "running" => agent = "running"
    BY ExecutionKeeps
  <1>1. ASSUME NEW i \in Interactions, NEW q \in LoopState, Becomes(i, q), cli' = cli,
               failed' \in BOOLEAN
        PROVE  LoopTypes' /\ ReturnedIsClosed'
    BY <1>0, <1>d, <1>1 DEF Becomes, LoopTypes, ReturnedIsClosed
  <1>2. ASSUME NEW i \in Interactions, Turn(i) PROVE LoopTypes' /\ ReturnedIsClosed'
    BY <1>1, <1>2, TurnEffect
  <1>3. ASSUME NEW i \in Interactions, NEW policy \in Policies, NEW q \in LoopState,
               Begins(i, policy, q)
        PROVE  LoopTypes' /\ ReturnedIsClosed'
    BY <1>0, <1>1, <1>3 DEF Begins, LoopTypes
  <1>4. ASSUME GoesOn PROVE LoopTypes' /\ ReturnedIsClosed'
    <2>1. CloseControl => agent' # "running"
      BY DEF CloseControl
    <2> QED BY <1>0, <1>d, <1>4, <2>1 DEF GoesOn, LoopTypes, ReturnedIsClosed
  <1> QED BY <1>2, <1>3, <1>4, NextEffect

LEMMA LoopsFollowKept ==
  ASSUME CInv, CliNext
  PROVE  LoopsFollowRows'
  <1>0. /\ LoopsFollowRows /\ LoopTypes /\ NoPrompt.st = "none"
        /\ prompts \in [Interactions -> LoopState]
    BY DEF CInv, LoopTypes, NoPrompt
  <1>e. /\ \A i \in Interactions : rows'[i] = "none" => rows[i] = "none"
        /\ \/ pending' \in {pending, None}
           \/ \E i \in Interactions, policy \in Policies : AcceptInteraction(i, policy)
    BY ExecutionKeeps
  (* A loop goes on, or its interaction is accepted, and the others stay.        *)
  <1>1. ASSUME NEW i \in Interactions, NEW q \in LoopState, Becomes(i, q),
               rows'[i] # "none",
               pending' # None /\ pending'.id = i => (q.timed <=> pending'.policy # "none"),
               \A j \in Interactions \ {i} :
                  prompts[j].st # "none" /\ pending' # None /\ pending'.id = j =>
                     (prompts[j].timed <=> pending'.policy # "none")
        PROVE  LoopsFollowRows'
    <2>1. \A j \in Interactions : prompts'[j] = IF j = i THEN q ELSE prompts[j]
      BY <1>0, <1>1 DEF Becomes
    <2>2. \A j \in Interactions : rows'[j] = "none" => prompts'[j] = NoPrompt
      BY <1>0, <1>1, <1>e, <2>1 DEF LoopsFollowRows
    <2>3. question' # None => prompts'[question'].st # "none"
      BY <1>0, <1>1, <2>1 DEF Becomes, LoopsFollowRows, LoopTypes
    <2>4. \A j \in Interactions :
             prompts'[j].st # "none" /\ pending' # None /\ pending'.id = j =>
                (prompts'[j].timed <=> pending'.policy # "none")
      BY <1>1, <2>1
    <2>5. \A j \in Interactions : prompts'[j].st = "deferred" => prompts'[j].timed
      BY <1>0, <1>1, <2>1 DEF Becomes, LoopsFollowRows
    <2> QED BY <2>2, <2>3, <2>4, <2>5 DEF LoopsFollowRows, NoPrompt
  (* Whatever is accepted is new to the loops.                                   *)
  <1>2. \A j \in Interactions :
           prompts[j].st # "none" /\ pending' # None /\ pending'.id = j =>
              (prompts[j].timed <=> pending'.policy # "none")
    <2>1. CASE pending' \in {pending, None}
      BY <1>0, <2>1 DEF LoopsFollowRows
    <2>2. ASSUME NEW i \in Interactions, NEW policy \in Policies, AcceptInteraction(i, policy)
          PROVE  \A j \in Interactions : pending'.id = j => prompts[j].st = "none"
      <3>1. pending' = [id |-> i, policy |-> policy] /\ rows[i] = "none"
        BY <2>2 DEF AcceptInteraction
      <3>2. pending'.id = i /\ prompts[i].st = "none"
        BY <1>0, <3>1 DEF LoopsFollowRows
      <3> QED BY <3>2
    <2> QED BY <1>e, <2>1, <2>2
  <1>3. ASSUME NEW i \in Interactions, Turn(i) PROVE LoopsFollowRows'
    <2>1. PICK q \in LoopState : Becomes(i, q) /\ q.timed = prompts[i].timed
      BY <1>3, TurnEffect
    <2>2. prompts[i].st # "none"
      BY <1>3, TurnEffect
    <2>3. rows'[i] # "none"
      BY <1>0, <1>e, <2>2 DEF LoopsFollowRows
    <2> QED BY <1>1, <1>2, <2>1, <2>2, <2>3
  <1>4. ASSUME NEW i \in Interactions, NEW policy \in Policies, NEW q \in LoopState,
               Begins(i, policy, q)
        PROVE  LoopsFollowRows'
    <2>1. /\ pending' = [id |-> i, policy |-> policy] /\ rows' = [rows EXCEPT ![i] = "pending"]
          /\ Becomes(i, q) /\ (q.timed <=> policy # "none")
      BY <1>4 DEF Begins, AcceptInteraction
    <2>2. pending'.id = i /\ pending'.policy = policy
      BY <2>1
    <2>3. rows'[i] # "none"
      BY <2>1 DEF CInv, IInv, TypeOK
    <2> QED BY <1>1, <1>2, <2>1, <2>2, <2>3
  <1>5. ASSUME GoesOn PROVE LoopsFollowRows'
    <2>1. UNCHANGED <<prompts, question>>
      BY <1>5 DEF GoesOn
    <2> QED BY <1>0, <1>2, <1>e, <2>1 DEF LoopsFollowRows, NoPrompt
  <1> QED BY <1>3, <1>4, <1>5, NextEffect

LEMMA OwnCallsKept ==
  ASSUME CInv, CliNext
  PROVE  OwnCalls'
  <1>0. OwnCalls /\ IInv
    BY DEF CInv
  <1>1. CASE Aside
    BY <1>0, <1>1 DEF Aside, OwnCalls
  <1>2. CASE OwnStep
    <2>1. ASSUME NEW j \in Interactions, NEW b \in Attempts
          PROVE  calls'[<<j, b>>].id \in {j, None}
      BY <1>0, <1>2, OtherCalls, CallsAreUserCalls DEF OwnCalls
    <2> QED BY <2>1 DEF OwnCalls
  <1>3. ASSUME NEW i \in Interactions, NEW a \in Attempts, Respond(<<i, a>>, i, "valid")
        PROVE  OwnCalls'
    <2> DEFINE c == <<i, a>>
    <2>1. /\ calls'[c].id \in {i, calls[c].id}
          /\ \A d \in Deliverer \ {c} : calls'[d] = calls[d]
      BY <1>0, <1>3, OneResponse, CallsAreUserCalls DEF Responses
    <2>2. ASSUME NEW j \in Interactions, NEW b \in Attempts
          PROVE  calls'[<<j, b>>].id \in {j, None}
      <3>1. CASE <<j, b>> = c
        BY <1>0, <2>1, <3>1 DEF OwnCalls
      <3>2. CASE <<j, b>> # c
        <4>1. calls'[<<j, b>>] = calls[<<j, b>>]
          BY <2>1, <3>2, CallsAreUserCalls
        <4> QED BY <1>0, <4>1 DEF OwnCalls
      <3> QED BY <3>1, <3>2
    <2> QED BY <2>2 DEF OwnCalls
  <1>4. ASSUME NEW i \in Interactions, Turn(i) PROVE OwnCalls'
    <2>1. PICK q \in LoopState : Aside \/ Sends(i, q) \/ CloseControl
      BY <1>4, TurnEffect
    <2> QED BY <1>1, <1>2, <1>3, <2>1 DEF Sends, OwnStep
  <1>5. ASSUME NEW i \in Interactions, NEW policy \in Policies, NEW q \in LoopState,
               Begins(i, policy, q)
        PROVE  OwnCalls'
    BY <1>2, <1>5 DEF Begins, OwnStep, AgentLine
  <1>6. GoesOn => OwnCalls'
    BY <1>2 DEF GoesOn
  <1> QED BY <1>4, <1>5, <1>6, NextEffect

(* Without a terminal the loops that have a response to a timed request stay, or *)
(* one joins them that has taken the content of the response file.               *)
LEMMA TakesStep ==
  ASSUME CInv, CliNext, ~ isTTY
  PROVE  \/ \A j \in Interactions : Takes(j)' => Takes(j)
         \/ /\ seed # "none" /\ seed' = "none"
            /\ \E i \in Interactions : \A j \in Interactions \ {i} : Takes(j)' => Takes(j)
  <1>0. /\ IInv /\ LoopTypes /\ prompts \in [Interactions -> LoopState]
        /\ \A j \in Interactions : <<j, "first">> \in UserCalls /\ <<j, "first">> \in Deliverer
    BY CallsAreUserCalls DEF CInv, LoopTypes, Attempts
  <1>c. ASSUME Aside \/ OwnStep, NEW j \in Interactions, calls'[<<j, "first">>].id = j
        PROVE  calls[<<j, "first">>].id = j
    <2>1. CASE Aside
      BY <1>c, <2>1 DEF Aside
    <2>2. CASE OwnStep
      BY <1>0, <1>c, <2>2, OtherCalls, CallsAssumption
    <2> QED BY <1>c, <2>1, <2>2
  <1>1. ASSUME NEW i \in Interactions, NEW q \in LoopState, Becomes(i, q),
               \A j \in Interactions : calls'[<<j, "first">>].id = j =>
                  calls[<<j, "first">>].id = j \/ (j = i /\ prompts[i].st = "ready"),
               q.timed = prompts[i].timed \/ calls'[<<i, "first">>].id # i
        PROVE  \/ \A j \in Interactions : Takes(j)' => Takes(j)
               \/ /\ seed # "none" /\ seed' = "none"
                  /\ \A j \in Interactions \ {i} : Takes(j)' => Takes(j)
    <2>1. \A j \in Interactions : prompts'[j] = IF j = i THEN q ELSE prompts[j]
      BY <1>0, <1>1 DEF Becomes
    <2>2. \A j \in Interactions \ {i} : Takes(j)' => Takes(j)
      BY <1>1, <2>1 DEF Takes
    <2>3. CASE Takes(i)' /\ q.st = "ready"
      <3>1. q.timed
        BY <2>1, <2>3 DEF Takes
      <3> QED BY <1>1, <2>2, <2>3, <3>1 DEF Becomes
    <2>4. CASE Takes(i)' /\ q.st # "ready"
      <3>1. calls'[<<i, "first">>].id = i /\ q.timed
        BY <2>1, <2>4 DEF Takes
      <3>2. Takes(i)
        BY <1>1, <3>1 DEF Takes
      <3> QED BY <2>2, <3>2
    <2> QED BY <2>2, <2>3, <2>4
  <1>2. ASSUME NEW i \in Interactions, Turn(i)
        PROVE  \/ \A j \in Interactions : Takes(j)' => Takes(j)
               \/ /\ seed # "none" /\ seed' = "none"
                  /\ \A j \in Interactions \ {i} : Takes(j)' => Takes(j)
    <2>1. PICK q \in LoopState : /\ Becomes(i, q) /\ q.timed = prompts[i].timed
                                 /\ Aside \/ Sends(i, q) \/ CloseControl
      BY <1>2, TurnEffect
    <2>2. CASE Aside \/ CloseControl
      <3>1. Aside \/ OwnStep
        BY <2>2 DEF OwnStep
      <3> QED BY <1>1, <1>c, <2>1, <3>1
    <2>3. CASE Sends(i, q)
      <3>1. PICK a \in Attempts : Respond(<<i, a>>, i, "valid") /\ prompts[i].st = "ready"
        BY <2>3 DEF Sends
      <3>2. \A d \in Deliverer \ {<<i, a>>} : calls'[d] = calls[d]
        BY <1>0, <3>1, OneResponse, CallsAreUserCalls DEF Responses
      <3>3. \A j \in Interactions \ {i} : calls'[<<j, "first">>] = calls[<<j, "first">>]
        BY <1>0, <3>2
      <3> QED BY <1>1, <2>1, <3>1, <3>3
    <2> QED BY <2>1, <2>2, <2>3
  <1>3. ASSUME NEW i \in Interactions, NEW policy \in Policies, NEW q \in LoopState,
               Begins(i, policy, q)
        PROVE  \/ \A j \in Interactions : Takes(j)' => Takes(j)
               \/ /\ seed # "none" /\ seed' = "none"
                  /\ \A j \in Interactions \ {i} : Takes(j)' => Takes(j)
    <2>1. AcceptInteraction(i, policy) /\ Becomes(i, q) /\ UNCHANGED calls /\ rows[i] = "none"
      BY <1>3 DEF Begins, AcceptInteraction
    <2>2. calls[<<i, "first">>].id # i
      BY <1>0, <2>1, CallsAssumption DEF IInv, Deliveries, Decided
    <2> QED BY <1>1, <2>1, <2>2
  <1>4. ASSUME GoesOn PROVE \A j \in Interactions : Takes(j)' => Takes(j)
    <2>1. OwnStep /\ UNCHANGED prompts
      BY <1>4 DEF GoesOn
    <2> QED BY <1>c, <2>1 DEF Takes
  <1> QED BY <1>2, <1>3, <1>4, NextEffect

LEMMA WithoutTerminalKept ==
  ASSUME CInv, CliNext
  PROVE  WithoutTerminal'
  <1>0. WithoutTerminal /\ LoopTypes /\ prompts \in [Interactions -> LoopState]
    BY DEF CInv, LoopTypes
  <1>1. /\ isTTY' = isTTY /\ seed' \in {seed, "none"}
        /\ ~ isTTY => question' \in {question, None}
        /\ ~ isTTY => \A i \in Interactions : prompts'[i].st \notin {"asking", "next_field"}
    <2>1. ASSUME NEW i \in Interactions, NEW q \in LoopState, Becomes(i, q)
          PROVE  /\ isTTY' = isTTY /\ seed' \in {seed, "none"}
                 /\ ~ isTTY => question' \in {question, None}
                 /\ ~ isTTY =>
                       \A j \in Interactions : prompts'[j].st \notin {"asking", "next_field"}
      <3>1. \A j \in Interactions : prompts'[j] = IF j = i THEN q ELSE prompts[j]
        BY <1>0, <2>1 DEF Becomes
      <3> QED BY <1>0, <2>1, <3>1 DEF Becomes, WithoutTerminal
    <2>2. ASSUME GoesOn
          PROVE  UNCHANGED <<isTTY, seed, question, prompts>>
      BY <2>2 DEF GoesOn
    <2> QED BY <1>0, <2>1, <2>2, NextEffect, TurnEffect DEF Begins, WithoutTerminal
  <1>2. CASE isTTY
    BY <1>1, <1>2 DEF WithoutTerminal
  <1>3. CASE ~ isTTY
    <2>1. /\ question' = None
          /\ \A i \in Interactions : Takes(i) => seed = "none"
          /\ \A i, j \in Interactions : Takes(i) /\ Takes(j) => i = j
      BY <1>0, <1>1, <1>3 DEF WithoutTerminal
    <2>2. CASE \A j \in Interactions : Takes(j)' => Takes(j)
      BY <1>1, <1>3, <2>1, <2>2 DEF WithoutTerminal
    <2>3. CASE /\ seed # "none" /\ seed' = "none"
               /\ \E i \in Interactions : \A j \in Interactions \ {i} : Takes(j)' => Takes(j)
      <3>1. \A j \in Interactions : ~ Takes(j)
        BY <2>1, <2>3
      <3>2. \A i, j \in Interactions : Takes(i)' /\ Takes(j)' => i = j
        BY <2>3, <3>1
      <3> QED BY <1>1, <1>3, <2>1, <2>3, <3>2 DEF WithoutTerminal
    <2> QED BY <1>3, <2>2, <2>3, TakesStep
  <1> QED BY <1>2, <1>3

LEMMA CInductive == CInv /\ [CliNext]_cliVars => CInv'
  <1> SUFFICES ASSUME CInv, [CliNext]_cliVars PROVE CInv'
    OBVIOUS
  <1>1. CASE CliNext
    BY <1>1, ExecutionKeeps, LoopTypesKept, LoopsFollowKept, OwnCallsKept, WithoutTerminalKept
       DEF CInv
  <1>2. CASE UNCHANGED cliVars
    <2>1. UNCHANGED vars /\ UNCHANGED <<isTTY, seed, question, prompts, failed, cli>>
      BY <1>2 DEF cliVars, loopVars, vars
    <2>2. IInv'
      BY <2>1, Inductive DEF CInv
    <2>3. UNCHANGED <<agent, rows, pending, timer, calls>>
      BY <2>1 DEF vars, process
    <2> QED BY <2>1, <2>2, <2>3
            DEF CInv, LoopTypes, ReturnedIsClosed, PendingIsArmed, LoopsFollowRows, OwnCalls,
                WithoutTerminal, Takes, NoPrompt
  <1> QED BY <1>1, <1>2

(* CInv holds in every state of the composition.                                 *)
THEOREM CompositionInvariance == CliSpec => []CInv
  <1>1. CliInit => CInv
    BY InitCInv
  <1>2. CInv /\ [CliNext]_cliVars => CInv'
    BY CInductive
  <1> QED BY <1>1, <1>2, PTL DEF CliSpec

-------------------------------------------------------------------------------
(* The properties.                                                               *)

(* The loops, the command and the execution under them keep their types.         *)
THEOREM CompositionTypes == CliSpec => []CliTypeOK
  <1>1. CInv => CliTypeOK
    BY DEF CInv, IInv, LoopTypes, LoopState, LoopStates, CliTypeOK
  <1> QED BY CompositionInvariance, <1>1, PTL

(* What a loop without a terminal leaves to the timeout of the runtime is not    *)
(* lost: the timer of that interaction is armed as long as it is pending and the *)
(* agent runs, for any number of interactions.                                   *)
THEOREM DeferralIsSafe == CliSpec => []DeferredHasTimer
  <1>1. CInv => DeferredHasTimer
    BY DEF CInv, LoopsFollowRows, PendingIsArmed, DeferredHasTimer
  <1> QED BY CompositionInvariance, <1>1, PTL

LEMMA AtMostOne ==
  ASSUME NEW S, \A i, j \in S : i = j
  PROVE  Cardinality(S) <= 1
  <1>1. CASE S = {}
    BY <1>1, FS_EmptySet
  <1>2. CASE S # {}
    <2>1. PICK i : i \in S
      BY <1>2
    <2>2. S = {i}
      BY <2>1
    <2>3. Cardinality(S) = 1
      BY <2>2, FS_Singleton
    <2> QED BY <2>3
  <1> QED BY <1>1, <1>2

(* Without a terminal the command answers at most one interaction with a timeout *)
(* policy, however many the agent requests: the response file is read once, and  *)
(* the loop that takes it is the only one that ever has a response for such a    *)
(* request.                                                                      *)
THEOREM TimeoutsAreTheRuntimes == CliSpec => []RuntimeOwnsTimeouts
  <1> DEFINE Answered == {i \in Interactions :
                            prompts[i].timed /\ calls[<<i, "first">>].id = i}
  <1>1. CInv => RuntimeOwnsTimeouts
    <2>1. CInv /\ ~ isTTY => \A i, j \in Answered : i = j
      BY DEF CInv, WithoutTerminal, Takes
    <2>2. CInv /\ ~ isTTY => Cardinality(Answered) <= 1
      <3> HIDE DEF Answered
      <3> QED BY <2>1, AtMostOne
    <2> QED BY <2>2 DEF RuntimeOwnsTimeouts
  <1> QED BY CompositionInvariance, <1>1, PTL

LEMMA GivesUpStep ==
  ASSUME CInv, [CliNext]_cliVars,
         NEW i \in Interactions, prompts'[i].st = "give_up", prompts[i].st # "give_up",
         done' = "open", pending' # None, pending'.id = i
  PROVE  prompts'[i].kind = "unsupported" \/ ~ isTTY \/ claimed
  <1>0. prompts \in [Interactions -> LoopState]
    BY DEF CInv, LoopTypes
  <1>1. ASSUME NEW j \in Interactions, NEW q \in LoopState, Becomes(j, q), Reasoned(j, q)
        PROVE  prompts'[i].kind = "unsupported" \/ ~ isTTY \/ claimed
    <2>1. prompts'[i] = IF i = j THEN q ELSE prompts[i]
      BY <1>0, <1>1 DEF Becomes
    <2> QED BY <1>1, <2>1 DEF Reasoned
  <1>2. ~ UNCHANGED cliVars
    BY DEF cliVars, loopVars
  <1>3. GoesOn => UNCHANGED prompts
    BY DEF GoesOn
  <1>4. \A j \in Interactions :
           Turn(j) => \E q \in LoopState : Becomes(j, q) /\ Reasoned(j, q)
    BY TurnEffect
  <1> QED BY <1>1, <1>2, <1>3, <1>4, NextEffect DEF Begins

(* As long as an interaction can still be answered, its loop does not end the    *)
(* run for an error of an attempt: not even for one the agent reports, which     *)
(* always belongs to an interaction that is decided.                             *)
THEOREM GivingUpHasReason == CliSpec => GivesUpWithReason
  <1>1. CInv /\ [CliNext]_cliVars =>
           [\A i \in Interactions :
               prompts'[i].st = "give_up" /\ prompts[i].st # "give_up"
                   /\ done' = "open" /\ pending' # None /\ pending'.id = i =>
                   \/ prompts'[i].kind = "unsupported"
                   \/ ~ isTTY
                   \/ claimed]_cliVars
    BY GivesUpStep
  <1> QED BY CompositionInvariance, <1>1, PTL DEF CliSpec, GivesUpWithReason
===============================================================================
