---------------------------- MODULE ConformanceProofs --------------------------
(* The safety of the conformance harness for any inputs, manifests and bounds.   *)
EXTENDS Conformance, SequenceTheorems, TLAPS

-------------------------------------------------------------------------------
(* Where the harness is.                                                         *)

Base      == {"start", "refused", "rejected", "health", "discover"}
Before    == Base \cup {"validate", "gate", "probe", "preview", "prepare", "execute"}
Executing == {"sleep", "cancelling", "running"}

(* An agent executes only after the checks of its command, the database is closed  *)
(* with the report, and the agent is closed by then.                             *)
Where == /\ pc \in Before \cup Executing \cup {"reported"}
         /\ pc \in Before => agent = "none"
         /\ db = "closed" <=> pc = "reported"
         /\ AgentIsClosed

(* What the agent does, and what happens to it, leaves the report alone: only the  *)
(* reply to a cancel request makes the harness go on.                            *)
LEMMA AgentStep ==
  ASSUME \/ Agent \/ AgentGone \/ TimerFires \/ UnhandledRejection \/ SpawnFails
  PROVE  /\ UNCHANGED <<options, checks, threw, db, def, asked, mode>>
         /\ agent' = agent \/ (agent # "none" /\ agent' = "gone")
         /\ \/ UNCHANGED <<pc, local, cancel>>
            \/ \E status \in {"cancel_requested", "other"} : CancelReply(status)
  <1>1. CASE Agent
    BY <1>1 DEF Agent, AcceptedEvent, RejectedEvent, AcceptedInteraction, RepeatedInteraction, AcceptedTerminal,
                LateEvent, ExecuteResult, ExecuteError, CancelReply, Goto, report, trace
  <1>2. CASE AgentGone \/ TimerFires \/ UnhandledRejection \/ SpawnFails
    BY <1>2 DEF AgentGone, TimerFires, UnhandledRejection, SpawnFails, report, trace
  <1> QED BY <1>1, <1>2

(* A check before the execution starts none, unless it is the last of them.       *)
LEMMA ChecksStep ==
  ASSUME Checks
  PROVE  /\ pc \in Before
         /\ \/ /\ agent' = agent
               /\ \/ pc' \in Before /\ UNCHANGED db
                  \/ pc' = "reported" /\ db' = "closed"
            \/ agent' = "alive" /\ pc' \in {"sleep", "running"} /\ UNCHANGED db /\ Execute
         /\ UNCHANGED <<options, host, accepted, rejected, asks, responded, done, cancel>>
  <1> USE DEF Before, Base, Goto, Report, Throw, trace
  <1>1. CASE Start \/ Health
    BY <1>1 DEF Start, Health
  <1>2. CASE Discover
    BY <1>2 DEF Discover, Dispatch
  <1>3. CASE Validate \/ Gate \/ Probe
    BY <1>3 DEF Validate, Gate, Probe
  <1>4. CASE Preview \/ Prepare
    BY <1>4 DEF Preview, Prepare
  <1>5. CASE Execute
    BY <1>5 DEF Execute
  <1> QED BY <1>1, <1>2, <1>3, <1>4, <1>5 DEF Checks

LEMMA WhereStep == Where /\ [Next]_vars => Where'
  <1> SUFFICES ASSUME Where, [Next]_vars PROVE Where'
    OBVIOUS
  <1> USE DEF Where, AgentIsClosed, Before, Base, Executing
  <1>1. CASE Checks
    BY <1>1, ChecksStep
  <1>2. CASE Agent \/ AgentGone \/ TimerFires \/ UnhandledRejection \/ SpawnFails
    <2>1. ASSUME UNCHANGED pc PROVE Where'
      <3>1. db' = db /\ (agent' = agent \/ (agent # "none" /\ agent' = "gone"))
        BY <1>2, AgentStep
      <3> QED BY <2>1, <3>1
    <2>2. ASSUME NEW status \in {"cancel_requested", "other"}, CancelReply(status) PROVE Where'
      BY <2>2 DEF CancelReply, Goto
    <2> QED BY <1>2, <2>1, <2>2, AgentStep
  <1>3. CASE SleepEnds
    BY <1>3 DEF SleepEnds, Goto
  <1>4. CASE CancelFails
    BY <1>4 DEF CancelFails, CloseAfterFailedCancel, Close, Report
  <1>5. CASE Finish
    <2>1. pc' = "reported" /\ db' = "closed" /\ agent' # "alive"
      BY <1>5 DEF Finish, Close, Report
    <2> QED BY <2>1
  <1>6. CASE UNCHANGED vars
    BY <1>6 DEF vars, report
  <1> QED BY <1>1, <1>2, <1>3, <1>4, <1>5, <1>6 DEF Next

LEMMA WhereAlways == Spec => []Where
  <1>1. Init => Where
    BY DEF Init, Where, AgentIsClosed, Before, Base, Executing
  <1> QED BY <1>1, WhereStep, PTL DEF Spec

(* No agent runs on when the report is returned: every path of run.ts that leaves  *)
(* an execution closes its control.                                              *)
THEOREM AgentClosed == Spec => []AgentIsClosed
  <1>1. Where => AgentIsClosed
    BY DEF Where
  <1> QED BY <1>1, WhereAlways, PTL

-------------------------------------------------------------------------------
(* The seeded response.                                                          *)

AskType == [policy : {"none", "abort", "answer"}, marked : BOOLEAN, timed : BOOLEAN,
            status : {"pending", "responded", "timed_out", "abandoned"}]

(* The one answer is there until the first accepted request, which takes it.       *)
Answered ==
    /\ options \in Inputs
    /\ asks \in Seq(AskType)
    /\ pc \in Before => asks = <<>>
    /\ pc = "execute" => (Mode \in Interactive => options.response # "none")
    /\ mode \in Interactive => options.response # "none"
    /\ asks = <<>> => ~ responded
    /\ mode \in Interactive /\ done = "open" /\ Len(asks) = 1 =>
          options.response = "invalid" \/ asks[1].status # "pending"

(* An update of a field keeps the type of a row of the interactions table.          *)
LEMMA AskUpdates ==
  ASSUME NEW e \in AskType
  PROVE  /\ \A v \in {"pending", "responded", "timed_out", "abandoned"} : [e EXCEPT !.status = v] \in AskType
         /\ \A v \in BOOLEAN : [e EXCEPT !.timed = v] \in AskType
  BY DEF AskType

LEMMA AbandonedType ==
  ASSUME asks \in Seq(AskType)
  PROVE  Abandoned \in Seq(AskType) /\ Len(Abandoned) = Len(asks)
  <1>1. \A i \in 1..Len(asks) : asks[i] \in AskType
    OBVIOUS
  <1>2. \A i \in 1..Len(asks) : [asks[i] EXCEPT !.status = "abandoned"] \in AskType
    BY <1>1, AskUpdates
  <1>3. Abandoned = [i \in 1..Len(asks) |-> IF asks[i].status = "pending"
                                            THEN [asks[i] EXCEPT !.status = "abandoned"] ELSE asks[i]]
    BY DEF Abandoned
  <1>4. Abandoned \in [1..Len(asks) -> AskType]
    BY <1>1, <1>2, <1>3
  <1>5. Len(asks) \in Nat
    OBVIOUS
  <1> HIDE DEF Abandoned
  <1>6. Abandoned \in Seq(AskType)
    BY <1>4, <1>5, SeqDef
  <1> QED BY <1>4, <1>5, <1>6, LenProperties

(* A step that keeps what the property speaks of, or settles the promise.           *)
LEMMA AnsweredKept ==
  ASSUME Answered, UNCHANGED <<options, mode, responded, def>>, asks' \in Seq(AskType),
         Len(asks') = Len(asks), pc' = pc \/ pc' \in Executing \cup {"reported"},
         \/ done' # "open"
         \/ UNCHANGED <<asks, done>>
  PROVE  Answered'
  <1>1. asks' = <<>> <=> asks = <<>>
    BY DEF Answered
  <1>2. Mode' = Mode
    BY DEF Mode, isProbe
  <1> QED BY <1>1, <1>2 DEF Answered, Executing, Before, Base

LEMMA AnsweredChecks ==
  ASSUME Answered, Checks
  PROVE  Answered'
  <1>0. UNCHANGED <<options, asks, responded, done>>
    BY ChecksStep
  <1>1. CASE Start \/ Health \/ Discover \/ Validate \/ Gate \/ Probe \/ Preview
    <2>1. mode' = mode /\ pc' # "execute"
      BY <1>1 DEF Start, Health, Discover, Dispatch, Validate, Gate, Probe, Preview, Goto, Report, Throw
    <2>2. pc \in Before
      BY ChecksStep
    <2> QED BY <1>0, <2>1, <2>2 DEF Answered
  <1>2. CASE Prepare
    <2>1. mode' = mode /\ def' = def /\ pc \in Before
      BY <1>2 DEF Prepare, Before
    <2>2. Mode' = Mode
      BY <1>0, <2>1 DEF Mode, isProbe
    <2>3. pc' = "execute" => (Mode \in Interactive => options.response # "none")
      BY <1>2 DEF Prepare, Goto, Report, Throw
    <2> QED BY <1>0, <2>1, <2>2, <2>3 DEF Answered
  <1>3. CASE Execute
    <2>1. mode' = Mode /\ pc = "execute" /\ pc' \in {"reported", "sleep", "running"}
      BY <1>3 DEF Execute, Goto, Report
    <2>2. asks = <<>>
      BY <2>1 DEF Answered, Before
    <2> QED BY <1>0, <2>1, <2>2 DEF Answered
  <1> QED BY <1>1, <1>2, <1>3 DEF Checks

LEMMA AnsweredAsk ==
  ASSUME Answered, NEW policy \in {"none", "abort", "answer"}, NEW marked \in BOOLEAN,
         NEW clear, NEW here, AcceptedInteraction(policy, marked, clear, here), Where
  PROVE  Answered'
  <1> DEFINE a == [policy |-> policy, marked |-> marked, timed |-> FALSE,
                   status |-> IF Answers /\ options.response = "valid" THEN "responded" ELSE "pending"]
  <1>1. a \in AskType
    BY DEF AskType
  <1>2. /\ asks' = Append(asks, a) /\ UNCHANGED <<options, mode, done, def, pc>>
        /\ agent # "none"
      BY DEF AcceptedInteraction, report, Line
  <1>3. asks' \in Seq(AskType) /\ Len(asks') = Len(asks) + 1
    BY <1>1, <1>2 DEF Answered
  <1>4. pc \notin Before
    BY <1>2 DEF Where
  <1>5. ASSUME mode \in Interactive, done = "open", Len(asks') = 1
        PROVE  options.response = "invalid" \/ asks'[1].status # "pending"
    <2>1. asks = <<>>
      BY <1>3, <1>5 DEF Answered
    <2>2. Answers
      BY <1>5, <2>1 DEF Answers, Answered
    <2>3. asks'[1] = a
      BY <1>2, <2>1
    <2>4. options.response \in {"valid", "invalid"}
      BY <1>5, ConformanceAssumption DEF Answered, Input
    <2> QED BY <2>2, <2>3, <2>4
  <1>6. asks' # <<>>
    BY <1>3 DEF Answered
  <1> HIDE DEF a
  <1> QED BY <1>2, <1>3, <1>4, <1>5, <1>6 DEF Answered, Before

LEMMA AnsweredTimer ==
  ASSUME Answered, TimerFires
  PROVE  Answered'
  <1> DEFINE n == Len(asks)
             v == IF Last.policy = "abort" THEN "timed_out" ELSE "responded"
             e == [asks[n] EXCEPT !.timed = TRUE]
             d == [e EXCEPT !.status = v]
  <1>1. /\ asks \in Seq(AskType) /\ asks # <<>>
        /\ UNCHANGED <<options, pc, def, mode, responded, done>>
    BY DEF Answered, TimerFires, Armed, report
  <1>2. n \in 1..Len(asks) /\ asks[n] \in AskType
    BY <1>1
  <1>3. e \in AskType
    BY <1>2, AskUpdates
  <1>4. d \in AskType /\ d.status = v
    BY <1>3, AskUpdates DEF AskType
  <1>5. asks' = [asks EXCEPT ![n] = d]
    BY <1>1, <1>2 DEF TimerFires
  <1> HIDE DEF d
  <1>6. asks' \in Seq(AskType) /\ Len(asks') = Len(asks) /\ asks'[n] = d
    BY <1>1, <1>2, <1>4, <1>5
  <1>7. asks' # <<>> /\ (Len(asks') = 1 => asks'[1].status # "pending")
    BY <1>1, <1>2, <1>4, <1>6
  <1>8. Mode' = Mode
    BY <1>1 DEF Mode, isProbe
  <1> QED BY <1>1, <1>6, <1>7, <1>8 DEF Answered

LEMMA Marked == Marks \subseteq BOOLEAN /\ Policies \subseteq {"none", "abort", "answer"}
  BY DEF Marks, Policies

LEMMA AnsweredStep == Where /\ Answered /\ [Next]_vars => Answered'
  <1> SUFFICES ASSUME Where, Answered, [Next]_vars PROVE Answered'
    OBVIOUS
  <1>0. asks \in Seq(AskType) /\ Abandoned \in Seq(AskType) /\ Len(Abandoned) = Len(asks)
    BY AbandonedType DEF Answered
  <1>1. CASE UNCHANGED <<options, mode, responded, def, asks, done>>
             /\ (pc' = pc \/ pc' \in Executing \cup {"reported"})
    BY <1>0, <1>1, AnsweredKept
  <1>2. ASSUME UNCHANGED <<options, mode, responded, def, pc>>,
               \/ UNCHANGED <<asks, done>>
               \/ asks' = Abandoned /\ done' # "open"
        PROVE  Answered'
    BY <1>0, <1>2, AnsweredKept
  <1>3. CASE Agent
    <2>1. ASSUME \/ \E type, here : AcceptedEvent(type, here) \/ RejectedEvent(type, here)
                 \/ \E here : RepeatedInteraction(here)
                 \/ LateEvent
                 \/ \E status \in {"cancel_requested", "other"} : CancelReply(status)
          PROVE  UNCHANGED <<options, mode, responded, def, asks, done>>
                 /\ (pc' = pc \/ pc' \in Executing)
      BY <2>1 DEF AcceptedEvent, RejectedEvent, RejectedMayAnswer, RepeatedInteraction, LateEvent,
                  CancelReply, Goto, report, trace, Executing
    <2>2. ASSUME NEW type \in TerminalTypes, NEW here, AcceptedTerminal(type, here) PROVE Answered'
      BY <1>2, <2>2 DEF AcceptedTerminal, StatusOf, TerminalTypes, report
    <2>3. CASE ExecuteResult \/ ExecuteError
      BY <1>2, <2>3 DEF ExecuteResult, ExecuteError, RejectDone, report
    <2> QED BY <1>1, <1>3, <2>1, <2>2, <2>3, AnsweredAsk, Marked DEF Agent
  <1>4. CASE AgentGone
    BY <1>2, <1>4 DEF AgentGone, RejectDone, report
  <1>5. CASE UnhandledRejection \/ SpawnFails \/ SleepEnds \/ CancelFails \/ Finish
    <2>1. UNCHANGED <<options, mode, responded, def, asks, done>>
          /\ (pc' = pc \/ pc' \in Executing \cup {"reported"})
      BY <1>5 DEF UnhandledRejection, SpawnFails, SleepEnds, CancelFails, Finish, Goto, Report, report,
                  trace, Executing
    <2> QED BY <1>1, <2>1
  <1>6. CASE UNCHANGED vars
    BY <1>1, <1>6 DEF vars, report, trace
  <1> QED BY <1>3, <1>4, <1>5, <1>6, AnsweredChecks, AnsweredTimer DEF Next

LEMMA AnsweredAlways == Spec => []Answered
  <1>1. Init => Answered
    BY DEF Init, Answered, Interactive, Before, Base
  <1> QED BY <1>1, AnsweredStep, WhereAlways, PTL DEF Spec

(* A rejected request does not use up the one answer of the harness: it waits for   *)
(* a pending interaction only if its response was refused or it was asked twice.  *)
THEOREM AnswerGiven == Spec => []AnswerIsGiven
  <1>1. Answered => AnswerIsGiven
    <2> SUFFICES ASSUME Answered, asks # <<>> PROVE AnswerIsGiven
      BY DEF AnswerIsGiven
    <2>1. Len(asks) = 1 \/ Len(asks) > 1
      <3>1. asks \in Seq(AskType)
        BY DEF Answered
      <3>2. Len(asks) \in Nat \ {0}
        BY <3>1, EmptySeq, Zenon
      <3>3. \A n \in Nat \ {0} : n = 1 \/ n > 1
        OBVIOUS
      <3> QED BY <3>2, <3>3, Zenon
    <2> QED BY <2>1 DEF Answered, AnswerIsGiven, Last
  <1> QED BY <1>1, AnsweredAlways, PTL

-------------------------------------------------------------------------------
(* How a run is recorded.                                                        *)

(* A terminal event settles the promise, there is one of them, and success is the    *)
(* promise's only with its event.  A rejection that nobody awaits yet is that of a    *)
(* run without one.  A request that has been accepted is in the table.               *)
Settled ==
    /\ pc \in Before => done = "open" /\ accepted = {}
    /\ done = "open" => NoTerminal
    /\ pc \in {"sleep", "cancelling"} /\ done = "rejected" => NoTerminal
    /\ \A s, t \in Types(accepted) \cap TerminalTypes : s = t
    /\ done = "succeeded" => "action.succeeded" \in Types(accepted)
    /\ "interaction" \in Types(accepted) => DOMAIN asks # {}

LEMMA TypesAdd ==
  ASSUME NEW events, NEW type, NEW here
  PROVE  Types(events \cup {Event(type, here)}) = Types(events) \cup {type}
  <1>1. Event(type, here).type = type
    BY DEF Event
  <1>2. ASSUME NEW t \in Types(events \cup {Event(type, here)}) PROVE t \in Types(events) \cup {type}
    BY <1>1 DEF Types
  <1>3. ASSUME NEW t \in Types(events) \cup {type} PROVE t \in Types(events \cup {Event(type, here)})
    <2>1. CASE t \in Types(events)
      BY <2>1 DEF Types
    <2>2. CASE t = type
      <3>1. Event(type, here) \in events \cup {Event(type, here)}
        OBVIOUS
      <3> QED BY <1>1, <2>2, <3>1, Zenon DEF Types
    <2> QED BY <2>1, <2>2
  <1> QED BY <1>2, <1>3

LEMMA SettledTerminal ==
  ASSUME Where, Settled, NEW type \in TerminalTypes, NEW here, AcceptedTerminal(type, here)
  PROVE  Settled'
  <1>1. /\ Types(accepted)' = Types(accepted) \cup {type}
        /\ NoTerminal /\ pc' = pc /\ pc \notin Before
    BY TypesAdd DEF AcceptedTerminal, report, Line, Where
  <1>2. Types(accepted)' \cap TerminalTypes = {type}
    BY <1>1 DEF NoTerminal
  <1>3. StatusOf(type) \in {"succeeded", "failed", "cancelled"}
        /\ (StatusOf(type) = "succeeded" <=> type = "action.succeeded")
    BY DEF StatusOf, TerminalTypes
  <1>4. done' # "open" /\ (done' = "succeeded" => "action.succeeded" \in Types(accepted)')
    BY <1>1, <1>3 DEF AcceptedTerminal, Settled
  <1>5. ~ (pc \in {"sleep", "cancelling"} /\ done' = "rejected")
    BY <1>3 DEF AcceptedTerminal, Line, Due
  <1>6. DOMAIN asks' = DOMAIN asks
    BY DEF AcceptedTerminal, Abandoned
  <1>7. "interaction" \in Types(accepted)' => DOMAIN asks' # {}
    BY <1>1, <1>6 DEF Settled, TerminalTypes
  <1> QED BY <1>1, <1>2, <1>4, <1>5, <1>7 DEF Settled

(* An accepted event that is no terminal one.                                        *)
LEMMA SettledMore ==
  ASSUME Settled, NoTerminal, NEW more, more \cap TerminalTypes = {},
         Types(accepted)' = Types(accepted) \cup more,
         pc \notin Before, UNCHANGED <<pc, done>>,
         "interaction" \in Types(accepted)' => DOMAIN asks' # {}
  PROVE  Settled'
  <1>1. Types(accepted)' \cap TerminalTypes = {}
    BY DEF NoTerminal
  <1>2. NoTerminal'
    BY <1>1 DEF NoTerminal
  <1> QED BY <1>1, <1>2 DEF Settled

LEMMA SettledAgent ==
  ASSUME Where, Answered, Settled, Agent
  PROVE  Settled'
  <1>1. ASSUME NEW type \in {"log"} \cup Leaks, NEW here, AcceptedEvent(type, here) PROVE Settled'
    <2>1. /\ Types(accepted)' = Types(accepted) \cup {type}
          /\ NoTerminal /\ UNCHANGED <<pc, done, asks>> /\ pc \notin Before
      BY <1>1, TypesAdd DEF AcceptedEvent, report, Line, Where
    <2>2. {type} \cap TerminalTypes = {} /\ type # "interaction"
      BY DEF Leaks, TerminalTypes
    <2> QED BY <2>1, <2>2, SettledMore DEF Settled
  <1>2. ASSUME NEW policy, NEW marked, NEW clear, NEW here, AcceptedInteraction(policy, marked, clear, here)
        PROVE  Settled'
    <2> DEFINE more == {"interaction"} \cup IF clear THEN {"leak"} ELSE {}
    <2>1. Types(accepted)' = Types(accepted) \cup more
      <3>1. Types(accepted \cup {Event("interaction", here)}) = Types(accepted) \cup {"interaction"}
        BY TypesAdd
      <3>2. Types(accepted \cup {Event("interaction", here)} \cup {Event("leak", here)})
            = Types(accepted) \cup {"interaction"} \cup {"leak"}
        BY <3>1, TypesAdd
      <3>3. Types(accepted)' = Types(accepted')
        BY DEF Types
      <3>4. CASE clear
        BY <1>2, <3>2, <3>3, <3>4 DEF AcceptedInteraction
      <3>5. CASE ~ clear
        <4>1. accepted' = accepted \cup {Event("interaction", here)}
          BY <1>2, <3>5 DEF AcceptedInteraction
        <4> QED BY <3>1, <3>3, <3>5, <4>1
      <3> QED BY <3>4, <3>5
    <2>2. NoTerminal /\ UNCHANGED <<pc, done>> /\ pc \notin Before
      BY <1>2 DEF AcceptedInteraction, report, Line, Where
    <2>3. more \cap TerminalTypes = {}
      BY DEF TerminalTypes
    <2>4. PICK a : asks' = Append(asks, a)
      BY <1>2 DEF AcceptedInteraction
    <2>5. DOMAIN asks' # {}
      BY <2>4 DEF Answered
    <2> HIDE DEF more
    <2> QED BY <2>1, <2>2, <2>3, <2>5, SettledMore
  <1>3. ASSUME NEW here, RepeatedInteraction(here) PROVE Settled'
    <2>1. /\ Types(accepted)' = Types(accepted) \cup {"interaction"}
          /\ NoTerminal /\ UNCHANGED <<pc, done, asks>> /\ pc \notin Before
      BY <1>3, TypesAdd DEF RepeatedInteraction, report, Line, Where
    <2>2. {"interaction"} \cap TerminalTypes = {}
      BY DEF TerminalTypes
    <2>3. DOMAIN asks # {}
      <3>1. asks \in Seq(AskType) /\ asks # <<>>
        BY <1>3 DEF Answered, RepeatedInteraction
      <3>2. Len(asks) \in Nat \ {0} /\ DOMAIN asks = 1..Len(asks)
        BY <3>1, EmptySeq
      <3> QED BY <3>2
    <2> QED BY <2>1, <2>2, <2>3, SettledMore
  <1>4. ASSUME NEW type, NEW here, RejectedEvent(type, here) PROVE Settled'
    BY <1>4 DEF RejectedEvent, report, Settled, NoTerminal
  <1>5. CASE LateEvent
    BY <1>5 DEF LateEvent, report, trace, Settled, NoTerminal
  <1>6. CASE ExecuteResult
    BY <1>6 DEF ExecuteResult, report, Abandoned, Settled, NoTerminal, Line, Where
  <1>7. CASE ExecuteError
    BY <1>7 DEF ExecuteError, RejectDone, report, Abandoned, Settled, NoTerminal, Line, Where
  <1>8. ASSUME NEW status, CancelReply(status) PROVE Settled'
    BY <1>8 DEF CancelReply, Goto, trace, Settled, NoTerminal, Before, Base
  <1> QED BY <1>1, <1>2, <1>3, <1>4, <1>5, <1>6, <1>7, <1>8, SettledTerminal DEF Agent

LEMMA SettledStep == Where /\ Answered /\ Settled /\ [Next]_vars => Settled'
  <1> SUFFICES ASSUME Where, Answered, Settled, [Next]_vars PROVE Settled'
    OBVIOUS
  <1>1. CASE Checks
    BY <1>1, ChecksStep DEF Settled, NoTerminal, Types
  <1>2. CASE AgentGone
    BY <1>2 DEF AgentGone, RejectDone, report, Abandoned, Settled, NoTerminal, Where
  <1>3. CASE TimerFires
    BY <1>3 DEF TimerFires, report, Settled, NoTerminal
  <1>4. CASE UnhandledRejection \/ SpawnFails \/ UNCHANGED vars
    BY <1>4 DEF UnhandledRejection, SpawnFails, vars, report, trace, Settled, NoTerminal
  <1>5. CASE SleepEnds
    BY <1>5 DEF SleepEnds, Goto, trace, Settled, NoTerminal, Before, Base
  <1>6. CASE CancelFails \/ Finish
    <2>1. pc' = "reported" /\ UNCHANGED trace
      BY <1>6 DEF CancelFails, Finish, Report
    <2> QED BY <2>1 DEF trace, Settled, NoTerminal, Before, Base
  <1> QED BY <1>1, <1>2, <1>3, <1>4, <1>5, <1>6, SettledAgent DEF Next

LEMMA SettledAlways == Spec => []Settled
  <1>1. Init => Settled
    BY DEF Init, Settled, NoTerminal, Types
  <1> QED BY <1>1, SettledStep, WhereAlways, AnsweredAlways, PTL DEF Spec

(* The harness crashes before its report only while the run has not ended.           *)
LEMMA EndedStep == Where /\ Settled /\ EndedRunIsReported /\ [Next]_vars => EndedRunIsReported'
  <1> SUFFICES ASSUME Where, Settled, EndedRunIsReported, [Next]_vars,
                      host' = "crashed", agent' # "none", pc' # "reported"
               PROVE  NoTerminal'
    BY DEF EndedRunIsReported
  <1>1. CASE Checks
    BY <1>1, ChecksStep DEF Settled, NoTerminal, Types
  <1>2. CASE UnhandledRejection
    BY <1>2 DEF UnhandledRejection, Unawaited, Settled, trace, NoTerminal
  <1>3. CASE SpawnFails
    BY <1>3 DEF SpawnFails, Where, Before, Base
  <1>4. ASSUME NEW here, RepeatedInteraction(here) PROVE NoTerminal'
    BY <1>4, TypesAdd DEF RepeatedInteraction, NoTerminal, TerminalTypes
  <1>5. CASE LateEvent
    BY <1>5 DEF LateEvent, report, Where
  <1>6. CASE ExecuteError \/ AgentGone
    BY <1>6 DEF ExecuteError, AgentGone, RejectDone, Line, Task, report, Where
  <1>7. CASE CancelFails \/ Finish
    BY <1>7 DEF CancelFails, Finish, Report
  <1>8. CASE \/ \E type, here : AcceptedEvent(type, here) \/ RejectedEvent(type, here) \/ AcceptedTerminal(type, here)
             \/ \E policy, marked, clear, here : AcceptedInteraction(policy, marked, clear, here)
             \/ ExecuteResult \/ TimerFires \/ SleepEnds
             \/ \E status : CancelReply(status)
    BY <1>8 DEF AcceptedEvent, RejectedEvent, AcceptedTerminal, AcceptedInteraction, ExecuteResult, TimerFires,
                SleepEnds, CancelReply, Line, Task
  <1>9. CASE UNCHANGED vars
    BY <1>9 DEF vars, report, trace, EndedRunIsReported, NoTerminal
  <1> QED BY <1>1, <1>2, <1>3, <1>4, <1>5, <1>6, <1>7, <1>8, <1>9 DEF Next, Agent

(* An agent that has ended its run cannot keep the harness from its report, by what it *)
(* sends, the failure of its request or its exit, whenever the harness awaits it.      *)
THEOREM EndedReported == Spec => []EndedRunIsReported
  <1>1. Init => EndedRunIsReported
    BY DEF Init, EndedRunIsReported
  <1> QED BY <1>1, EndedStep, WhereAlways, SettledAlways, PTL DEF Spec

-------------------------------------------------------------------------------
(* Approvals.                                                                    *)

(* What has been asked and approved when the harness comes to a check.            *)
Cleared ==
    /\ pc \in Base => asked \subseteq {"agent.health"}
    /\ pc \in (Before \ Base) \cup Executing => options.command # "none"
    /\ pc = "gate" => isProbe
    /\ pc = "preview" => ~ isProbe
    /\ pc = "probe" => options.okPreview
    /\ pc = "prepare" => (isProbe => options.okPreview)
    /\ pc \in {"execute"} \cup Executing => options.approve

LEMMA ClearedStep == Where /\ Cleared /\ NothingRunsUnapproved /\ [Next]_vars
                       => Cleared' /\ NothingRunsUnapproved'
  <1> SUFFICES ASSUME Where, Cleared, NothingRunsUnapproved, [Next]_vars
               PROVE  Cleared' /\ NothingRunsUnapproved'
    OBVIOUS
  <1> USE DEF Cleared, NothingRunsUnapproved, Before, Base, Executing, isProbe
  <1>1. CASE Start \/ Health
    BY <1>1 DEF Start, Health, Goto, Throw, Ask
  <1>2. CASE Discover
    <2>1. asked' = asked \cup {"agent.discover"} /\ options' = options
      BY <1>2 DEF Discover, Ask
    <2>2. pc' = "reported" \/ (pc' = "validate" /\ options.command # "none")
      BY <1>2 DEF Discover, Dispatch, Report, Throw
    <2>3. asked \subseteq {"agent.health"}
      BY <1>2 DEF Discover
    <2> QED BY <2>1, <2>2, <2>3
  <1>3. CASE Validate
    BY <1>3 DEF Validate, Goto, Report, Ask
  <1>4. CASE Gate
    <2>1. /\ asked' = asked \cup IF def.guarded THEN {} ELSE {"agent.preview"}
          /\ options' = options /\ def' = def
      BY <1>4 DEF Gate, Ask
    <2>2. pc' = "reported" \/ (pc' = "probe" /\ options.okPreview)
      BY <1>4 DEF Gate, Goto, Report, Throw, MayProbe
    <2> QED BY <1>4, <2>1, <2>2 DEF Gate
  <1>5. CASE Probe
    BY <1>5 DEF Probe, Goto, Report, Throw, Ask
  <1>6. CASE Preview
    BY <1>6 DEF Preview, Goto, Report, Throw, Ask
  <1>7. CASE Prepare
    <2>1. /\ asked' = asked \cup ({"agent.validate", "agent.plan"} \cup IF isProbe THEN {} ELSE {"agent.preview"})
          /\ options' = options /\ def' = def
      BY <1>7 DEF Prepare, Ask
    <2>2. pc' = "reported" \/ (pc' = "execute" /\ options.approve)
      BY <1>7 DEF Prepare, Goto, Report, Throw
    <2> QED BY <1>7, <2>1, <2>2 DEF Prepare
  <1>8. CASE Execute
    <2>1. /\ asked' = asked \/ asked' = asked \cup {"agent.execute"}
          /\ options' = options /\ def' = def /\ pc' \in {"reported", "sleep", "running"}
      BY <1>8 DEF Execute, Ask, Goto, Report
    <2> QED BY <1>8, <2>1 DEF Execute
  <1>9. CASE Agent \/ AgentGone \/ TimerFires \/ UnhandledRejection \/ SpawnFails
    <2>1. options' = options /\ def' = def /\ asked' = asked
      BY <1>9, AgentStep
    <2>2. pc' = pc \/ (pc = "cancelling" /\ pc' = "running")
      BY <1>9, AgentStep DEF CancelReply, Goto
    <2> QED BY <2>1, <2>2
  <1>10. CASE SleepEnds
    BY <1>10 DEF SleepEnds, Goto, Ask
  <1>11. CASE CancelFails \/ Finish
    <2>1. options' = options /\ def' = def /\ asked' = asked /\ pc' = "reported"
      BY <1>11 DEF CancelFails, Finish, Report
    <2> QED BY <2>1
  <1>12. CASE UNCHANGED vars
    BY <1>12 DEF vars, report
  <1> QED BY <1>1, <1>2, <1>3, <1>4, <1>5, <1>6, <1>7, <1>8, <1>9, <1>10, <1>11, <1>12 DEF Next, Checks

(* The flags of runAgentConformance bound what agents are asked, on every path.    *)
THEOREM NothingUnapproved == Spec => []NothingRunsUnapproved
  <1>1. Init => Cleared /\ NothingRunsUnapproved
    BY DEF Init, Cleared, NothingRunsUnapproved, Base, Before, Executing, NoDef, isProbe
  <1> QED BY <1>1, ClearedStep, WhereAlways, PTL DEF Spec

-------------------------------------------------------------------------------
(* The report.                                                                   *)

(* What a row that has not failed says.                                           *)
LEMMA RowPassed ==
  ASSUME NEW rows, NEW id, NEW ok \in BOOLEAN, NoFailure(rows), Row(id, ok) \in rows
  PROVE  ok
  BY DEF NoFailure, Row

(* The promise of a report that passes has settled, and the acknowledgement of a     *)
(* cancel is among the rows.                                                     *)
Recorded ==
    /\ Passed /\ agent # "none" => done # "open"
    /\ pc = "running" /\ mode = "cancel" =>
          Row("cancel.agent_response", cancel = "cancel_requested") \in local

(* The status of a run that has accepted a terminal event.                         *)
LEMMA StatusOfLog ==
  ASSUME Settled, NEW type \in TerminalTypes, type \in Types(accepted)
  PROVE  RunStatus = StatusOf(type)
  <1>1. (CHOOSE t \in TerminalTypes : t \in Types(accepted)) = type
    BY DEF Settled
  <1> QED BY <1>1 DEF RunStatus, NoTerminal

LEMMA StatusSucceeded ==
  ASSUME Settled, "action.succeeded" \in Types(accepted)
  PROVE  RunStatus = "succeeded"
  BY StatusOfLog DEF TerminalTypes, StatusOf

(* What the rows of interactive checks say when they have passed.                    *)
LEMMA InteractiveIsTrue ==
  ASSUME Settled, NEW rows, InteractiveRows \subseteq rows, NoFailure(rows)
  PROVE  RunStatus = "succeeded" /\ asks # <<>>
  <1>1. /\ Row("interaction.required_event", "interaction" \in Types(accepted)) \in rows
        /\ Row("interaction.terminal_state", done = "succeeded") \in rows
    BY DEF InteractiveRows
  <1>2. ("interaction" \in Types(accepted)) \in BOOLEAN /\ (done = "succeeded") \in BOOLEAN
    OBVIOUS
  <1>3. "interaction" \in Types(accepted) /\ done = "succeeded"
    BY <1>1, <1>2, RowPassed, Zenon
  <1> QED BY <1>3, StatusSucceeded DEF Settled

(* A report that passes comes from an execution whose rows have all passed.         *)
LEMMA FinishIsTrue ==
  ASSUME Settled, Recorded, Finish, Passed'
  PROVE  PassedReportIsTrue' /\ done' # "open"
  <1>1. /\ UNCHANGED <<options, accepted, rejected, asks, done, cancel, mode>>
        /\ pc = "running" /\ done # "open" /\ NoFailure(checks')
    BY DEF Finish, trace, Passed, NoFailure
  <1>2. done # "rejected"
    <2>1. ASSUME done = "rejected" PROVE Row("command.execute", FALSE) \in checks'
      BY <2>1 DEF Finish, Report
    <2> QED BY <1>1, <2>1, RowPassed
  <1>3. PICK proof \in BOOLEAN, ordered \in BOOLEAN :
            checks' = checks \cup (local \cup {Row("command.execute", TRUE)} \cup Rows(proof, ordered))
    BY <1>2 DEF Finish, Report
  <1>4. NoFailure(local) /\ NoFailure(Rows(proof, ordered))
    BY <1>1, <1>3 DEF NoFailure
  <1>5. ASSUME mode = "execute"
        PROVE  RunStatus = "succeeded" /\ Filed(rejected) = {} /\ Filed(accepted) = accepted
    <2>1. NoFailure(ExecuteRows(ordered, proof))
      BY <1>4, <1>5 DEF Rows
    <2>2. /\ Row("execution.no_rejected", NoRejected) \in ExecuteRows(ordered, proof)
          /\ Row("execution.replay", ReplayMatches) \in ExecuteRows(ordered, proof)
          /\ Row("execution.diff_artifact_blocks", proof /\ Event("action.succeeded", TRUE) \in accepted)
                \in ExecuteRows(ordered, proof)
      BY DEF ExecuteRows
    <2>3. NoRejected /\ ReplayMatches
      <3>1. NoRejected \in BOOLEAN /\ ReplayMatches \in BOOLEAN
        BY DEF NoRejected, ReplayMatches
      <3> QED BY <2>1, <2>2, <3>1, RowPassed, Zenon
    <2>4. Event("action.succeeded", TRUE) \in accepted
      <3>1. (proof /\ Event("action.succeeded", TRUE) \in accepted) \in BOOLEAN
        OBVIOUS
      <3> QED BY <2>1, <2>2, <3>1, RowPassed, Zenon
    <2>5. "action.succeeded" \in Types(accepted)
      BY <2>4 DEF Types, Event
    <2> QED BY <2>3, <2>5, StatusSucceeded DEF NoRejected, ReplayMatches
  <1>6. ASSUME mode = "cancel"
        PROVE  /\ cancel = "cancel_requested" /\ RunStatus = "cancelled" /\ done = "cancelled"
               /\ Filed(rejected) = {} /\ Filed(accepted) = accepted
    <2>1. NoFailure(CancelRows)
      BY <1>4, <1>6 DEF Rows
    <2>2. /\ Row("cancel.terminal_state", done = "cancelled") \in CancelRows
          /\ Row("cancel.no_rejected", NoRejected) \in CancelRows
          /\ Row("cancel.history_status", RunStatus = "cancelled") \in CancelRows
          /\ Row("cancel.replay", ReplayMatches) \in CancelRows
      BY DEF CancelRows
    <2>3. done = "cancelled" /\ NoRejected /\ RunStatus = "cancelled" /\ ReplayMatches
      <3>1. /\ NoRejected \in BOOLEAN /\ ReplayMatches \in BOOLEAN
            /\ (done = "cancelled") \in BOOLEAN /\ (RunStatus = "cancelled") \in BOOLEAN
        BY DEF NoRejected, ReplayMatches
      <3> QED BY <2>1, <2>2, <3>1, RowPassed, Zenon
    <2>4. cancel = "cancel_requested"
      BY <1>1, <1>4, <1>6, RowPassed DEF Recorded
    <2> QED BY <2>3, <2>4 DEF NoRejected, ReplayMatches
  <1>7. ASSUME mode = "choice" PROVE RunStatus = "succeeded" /\ asks # <<>>
    <2>1. Rows(proof, ordered) = InteractiveRows
      BY <1>7 DEF Rows
    <2> QED BY <1>4, <2>1, InteractiveIsTrue
  <1>8. ASSUME mode = "redaction"
        PROVE  RunStatus = "succeeded" /\ asks # <<>> /\ asks[1].marked /\ SecretAbsent
    <2> DEFINE answer == proof /\ asks # <<>> /\ asks[1].marked
    <2>1. NoFailure(RedactionRows(proof))
      BY <1>4, <1>8 DEF Rows
    <2>2. /\ InteractiveRows \subseteq RedactionRows(proof)
          /\ Row("interaction.redaction_default", answer) \in RedactionRows(proof)
          /\ Row("interaction.redaction_secret_absent", SecretAbsent) \in RedactionRows(proof)
      BY DEF RedactionRows
    <2>3. RunStatus = "succeeded" /\ asks # <<>>
      BY <2>1, <2>2, InteractiveIsTrue
    <2>4. SecretAbsent
      <3>1. SecretAbsent \in BOOLEAN
        BY DEF SecretAbsent
      <3> QED BY <2>1, <2>2, <3>1, RowPassed, Zenon
    <2>5. answer
      <3>1. answer \in BOOLEAN
        OBVIOUS
      <3> HIDE DEF answer
      <3> QED BY <2>1, <2>2, <3>1, RowPassed, Zenon
    <2> QED BY <2>3, <2>4, <2>5
  <1>9. ASSUME mode = "timeout"
        PROVE  /\ asks # <<>> /\ asks[1].timed
               /\ Expected \in Types(rejected) \/ RunStatus = StatusOf(Expected)
    <2> DEFINE timed == asks # <<>> /\ asks[1].timed
    <2>1. NoFailure(TimeoutRows)
      BY <1>4, <1>9 DEF Rows
    <2>2. /\ Row("interaction.timeout_trace", timed) \in TimeoutRows
          /\ Row("interaction.timeout_terminal", Expected \in handled) \in TimeoutRows
      BY DEF TimeoutRows
    <2>3. timed
      <3>1. timed \in BOOLEAN
        OBVIOUS
      <3> HIDE DEF timed
      <3> QED BY <2>1, <2>2, <3>1, RowPassed, Zenon
    <2>4. Expected \in handled
      <3>1. (Expected \in handled) \in BOOLEAN
        OBVIOUS
      <3> QED BY <2>1, <2>2, <3>1, RowPassed, Zenon
    <2>5. Expected \in Types(accepted) \/ Expected \in Types(rejected)
      BY <2>4 DEF handled, Types
    <2>6. Expected \in TerminalTypes
      BY DEF Expected, TerminalTypes
    <2> QED BY <2>3, <2>5, <2>6, StatusOfLog
  <1>10. /\ RunStatus' = RunStatus /\ Expected' = Expected /\ (SecretAbsent <=> SecretAbsent')
    BY <1>1 DEF RunStatus, NoTerminal, Expected, SecretAbsent
  <1>11. PassedReportIsTrue'
    BY <1>1, <1>5, <1>6, <1>7, <1>8, <1>9, <1>10 DEF PassedReportIsTrue, Interactive
  <1> QED BY <1>1, <1>11

(* After the report the database is closed and the promise has settled: nothing the  *)
(* report speaks of changes.                                                     *)
LEMMA ReportedStays ==
  ASSUME Where, Recorded, [Next]_vars, pc = "reported", Passed, agent # "none"
  PROVE  UNCHANGED <<options, accepted, rejected, asks, done, cancel, mode>>
  <1>1. db = "closed" /\ done # "open"
    BY DEF Where, Recorded
  <1>2. CASE Agent
    BY <1>1, <1>2 DEF Agent, AcceptedEvent, RejectedEvent, AcceptedInteraction, RepeatedInteraction,
                      AcceptedTerminal, LateEvent, ExecuteResult, ExecuteError, RejectDone, CancelReply, trace
  <1>3. CASE AgentGone
    BY <1>1, <1>3 DEF AgentGone, RejectDone
  <1>4. CASE TimerFires
    BY <1>1, <1>4 DEF TimerFires, Armed
  <1>5. CASE UnhandledRejection \/ SpawnFails \/ UNCHANGED vars
    BY <1>5 DEF UnhandledRejection, SpawnFails, trace, vars
  <1>6. CASE Checks \/ SleepEnds \/ CancelFails \/ Finish
    BY <1>6, ChecksStep DEF SleepEnds, CancelFails, Finish, Before, Base
  <1> QED BY <1>2, <1>3, <1>4, <1>5, <1>6 DEF Next

LEMMA AckRowStep ==
  ASSUME Where, Recorded, [Next]_vars, pc' = "running", mode' = "cancel"
  PROVE  Row("cancel.agent_response", cancel' = "cancel_requested") \in local'
  <1>1. CASE Checks
    <2>1. Execute /\ pc' = "running"
      BY <1>1, ChecksStep DEF Before, Base
    <2>2. mode' = Mode /\ pc' = IF Mode = "cancel" THEN "sleep" ELSE "running"
      BY <2>1 DEF Execute, Goto, Report
    <2> QED BY <2>2
  <1>2. CASE Agent \/ AgentGone \/ TimerFires \/ UnhandledRejection \/ SpawnFails
    <2>1. ASSUME NEW status \in {"cancel_requested", "other"}, CancelReply(status)
          PROVE  Row("cancel.agent_response", cancel' = "cancel_requested") \in local'
      BY <2>1 DEF CancelReply, Goto, AckRow
    <2>2. ASSUME UNCHANGED <<pc, local, cancel>>
          PROVE  Row("cancel.agent_response", cancel' = "cancel_requested") \in local'
      <3>1. mode = "cancel"
        BY <1>2, AgentStep
      <3> QED BY <2>2, <3>1 DEF Recorded
    <2> QED BY <1>2, <2>1, <2>2, AgentStep
  <1>3. CASE SleepEnds \/ CancelFails \/ Finish
    BY <1>3 DEF SleepEnds, CancelFails, Finish, Goto, Report
  <1>4. CASE UNCHANGED vars
    BY <1>4 DEF vars, report, Recorded
  <1> QED BY <1>1, <1>2, <1>3, <1>4 DEF Next

(* Nothing but an execution that has been watched to its end gives a report that     *)
(* passes while there is an executing agent.                                     *)
LEMMA ReportStep ==
  ASSUME Where, Settled, Recorded, PassedReportIsTrue, [Next]_vars, Passed', agent' # "none"
  PROVE  PassedReportIsTrue' /\ done' # "open"
  <1>1. CASE Finish
    BY <1>1, FinishIsTrue
  <1>2. CASE CancelFails
    <2>1. Row("cancel.agent_response", FALSE) \in checks'
      BY <1>2 DEF CancelFails, Report
    <2>2. NoFailure(checks')
      BY DEF Passed, NoFailure
    <2> QED BY <2>1, <2>2, RowPassed
  <1>3. CASE Checks \/ SleepEnds
    BY <1>3, ChecksStep DEF SleepEnds, Goto, Passed, Where
  <1>4. CASE Agent \/ AgentGone \/ TimerFires \/ UnhandledRejection \/ SpawnFails \/ UNCHANGED vars
    <2>1. pc = "reported" /\ checks' = checks /\ agent # "none"
      <3>1. CASE UNCHANGED vars
        BY <3>1 DEF vars, report, Passed
      <3>2. CASE Agent \/ AgentGone \/ TimerFires \/ UnhandledRejection \/ SpawnFails
        BY <3>2, AgentStep DEF Passed, CancelReply, Goto
      <3> QED BY <1>4, <3>1, <3>2
    <2>2. Passed
      BY <2>1 DEF Passed, NoFailure
    <2>3. UNCHANGED <<options, accepted, rejected, asks, done, cancel, mode>>
      BY <2>1, <2>2, ReportedStays
    <2>4. RunStatus' = RunStatus /\ Expected' = Expected /\ (SecretAbsent <=> SecretAbsent')
      BY <2>3 DEF RunStatus, NoTerminal, Expected, SecretAbsent
    <2> QED BY <2>1, <2>2, <2>3, <2>4 DEF PassedReportIsTrue, Recorded
  <1> QED BY <1>1, <1>2, <1>3, <1>4 DEF Next

(* A report that passes tells the truth about the execution, whatever the agent      *)
(* sent and in whichever order reply, events, exit and cancel came.              *)
THEOREM ReportTrue == Spec => []PassedReportIsTrue
  <1>1. Init => Recorded /\ PassedReportIsTrue
    BY DEF Init, Recorded, PassedReportIsTrue, Passed
  <1>2. Where /\ Settled /\ Recorded /\ PassedReportIsTrue /\ [Next]_vars => Recorded' /\ PassedReportIsTrue'
    <2> SUFFICES ASSUME Where, Settled, Recorded, PassedReportIsTrue, [Next]_vars
                 PROVE  Recorded' /\ PassedReportIsTrue'
      OBVIOUS
    <2>1. Recorded'
      BY ReportStep, AckRowStep DEF Recorded
    <2>2. PassedReportIsTrue'
      BY ReportStep DEF PassedReportIsTrue
    <2> QED BY <2>1, <2>2
  <1> QED BY <1>1, <1>2, WhereAlways, SettledAlways, PTL DEF Spec

-------------------------------------------------------------------------------
(* Types.                                                                        *)

RowsTyped(rows) == \A r \in rows : r.status \in {"passed", "failed", "skipped"}

(* What the checks and the report keep: the rows, and where they come from.         *)
ReportTyped ==
    /\ RowsTyped(checks) /\ RowsTyped(local)
    /\ threw \in BOOLEAN
    /\ def \in Def /\ asked \subseteq Requests
    /\ mode \in {"none", "execute", "cancel"} \cup (Interactive \cup {"timeout"})
    /\ db \in {"open", "closed"} /\ host \in {"up", "crashed"}

(* What the executing agent leaves in the trace.                                  *)
TraceTyped ==
    /\ agent \in {"none", "alive", "killed", "gone"}
    /\ accepted \subseteq [type : TerminalTypes \cup {"log", "leak", "interaction"}, here : BOOLEAN]
    /\ rejected \subseteq [type : TerminalTypes \cup {"leak", "malformed", "interaction"}, here : BOOLEAN]
    /\ responded \in BOOLEAN
    /\ done \in TerminalStatuses \cup {"open", "rejected"}
    /\ cancel \in {"none", "cancel_requested", "other"}

LEMMA RowTyped ==
  /\ \A id, ok : Row(id, ok).status \in {"passed", "failed"}
  /\ \A id : Skipped(id).status = "skipped"
  BY DEF Row, Skipped

LEMMA RowsJoined ==
  /\ RowsTyped({})
  /\ \A id, ok : RowsTyped({Row(id, ok)})
  /\ \A rows, more : RowsTyped(rows) /\ RowsTyped(more) => RowsTyped(rows \cup more)
  BY RowTyped DEF RowsTyped

(* Every row of an execution is one of Row.                                        *)
LEMMA RowsOfExecution ==
  ASSUME NEW proof, NEW ordered
  PROVE  RowsTyped(Rows(proof, ordered))
  <1>1. RowsTyped(InteractiveRows)
    BY RowTyped DEF InteractiveRows, RowsTyped
  <1>2. RowsTyped(RedactionRows(proof))
    <2> DEFINE response == proof /\ asks # <<>> /\ asks[1].marked /\ asks[1].status = "responded"
               default == proof /\ asks # <<>> /\ asks[1].marked
               live == proof /\ Event("action.succeeded", TRUE) \in accepted
               own == {Row("interaction.redaction_trace_row", asks # <<>>),
                       Row("interaction.redaction_response", response),
                       Row("interaction.redaction_default", default),
                       Row("interaction.redaction_secret_absent", SecretAbsent),
                       Row("interaction.redaction_agent_live", live)}
    <2>1. RedactionRows(proof) = InteractiveRows \cup own
      BY DEF RedactionRows
    <2> HIDE DEF response, default, live
    <2>2. RowsTyped(own)
      BY RowTyped DEF RowsTyped
    <2> QED BY <1>1, <2>1, <2>2, RowsJoined
  <1>3. RowsTyped(CancelRows)
    BY RowTyped DEF CancelRows, RowsTyped
  <1>4. RowsTyped(TimeoutRows)
    BY RowTyped DEF TimeoutRows, RowsTyped
  <1>5. RowsTyped(ExecuteRows(ordered, proof))
    <2> DEFINE order == handled # {} /\ (ordered \/ Types(rejected) \subseteq {"malformed"})
               terminal == "action.succeeded" \in handled
               blocks == proof /\ Event("action.succeeded", TRUE) \in accepted
               own == {Row("execution.event_order", order), Row("execution.event_schema", proof),
                       Row("execution.terminal_event", terminal), Row("execution.no_rejected", NoRejected),
                       Row("execution.trace", Filed(accepted) # {}), Row("execution.replay", ReplayMatches),
                       Row("execution.diff_artifact_blocks", blocks)}
    <2>1. ExecuteRows(ordered, proof) = own
      BY DEF ExecuteRows
    <2> HIDE DEF order, terminal, blocks
    <2>2. RowsTyped(own)
      BY RowTyped DEF RowsTyped
    <2> QED BY <2>1, <2>2
  <1> QED BY <1>1, <1>2, <1>3, <1>4, <1>5 DEF Rows

(* The three ways to go on keep the rows typed.                                    *)
GoesOn == \/ \E label, rows : RowsTyped(rows) /\ Goto(label, rows)
          \/ \E rows : RowsTyped(rows) /\ Report(rows)
          \/ \E rows : RowsTyped(rows) /\ Throw(rows)

LEMMA GoingOn ==
  ASSUME ReportTyped, GoesOn
  PROVE  /\ RowsTyped(checks') /\ RowsTyped(local')
         /\ threw' \in BOOLEAN /\ db' \in {"open", "closed"}
  <1>1. ASSUME NEW label, NEW rows, RowsTyped(rows), Goto(label, rows)
        PROVE  /\ RowsTyped(checks') /\ RowsTyped(local')
               /\ threw' \in BOOLEAN /\ db' \in {"open", "closed"}
    BY <1>1, RowsJoined DEF Goto, ReportTyped
  <1>2. ASSUME NEW rows, RowsTyped(rows), Report(rows) \/ Throw(rows)
        PROVE  /\ RowsTyped(checks') /\ RowsTyped(local')
               /\ threw' \in BOOLEAN /\ db' \in {"open", "closed"}
    BY <1>2, RowsJoined DEF Report, Throw, ReportTyped
  <1> QED BY <1>1, <1>2 DEF GoesOn

(* Each check of a command goes on with rows of its own.                           *)
LEMMA ChecksGoOn ==
  ASSUME ReportTyped, Start \/ Health \/ Validate \/ Gate \/ Probe \/ Preview \/ Prepare
  PROVE  GoesOn
  <1>0. RowsTyped(local)
    BY DEF ReportTyped
  <1>1. CASE Start
    BY <1>1, RowsJoined DEF Start, GoesOn
  <1>2. CASE Health
    BY <1>2, RowsJoined DEF Health, GoesOn
  <1>3. CASE Validate
    BY <1>0, <1>3, RowsJoined DEF Validate, GoesOn
  <1>4. CASE Gate
    <2> DEFINE row == Row("command.preview_approval_gate", def.guarded)
               last == local \cup {row, Skipped("command.probe_preview"),
                                   Skipped("command.prepare_action"), Skipped("command.execute")}
    <2>1. RowsTyped({row})
      BY RowsJoined
    <2>2. RowsTyped(last)
      BY <1>0, RowTyped DEF RowsTyped
    <2>3. Throw({}) \/ Goto("probe", {row}) \/ Report(last)
      BY <1>4 DEF Gate
    <2> HIDE DEF row, last
    <2> QED BY <2>1, <2>2, <2>3, RowsJoined DEF GoesOn
  <1>5. CASE Probe
    BY <1>0, <1>5, RowsJoined DEF Probe, GoesOn
  <1>6. CASE Preview
    <2>1. \/ Report(local \cup {Row("command.static_preview", FALSE)})
          \/ Goto("prepare", {Row("command.static_preview", TRUE)})
          \/ Throw({})
      BY <1>6 DEF Preview
    <2> QED BY <1>0, <2>1, RowsJoined DEF GoesOn
  <1>7. CASE Prepare
    <2> DEFINE row == Row("command.approval_material", TRUE)
               skipped == local \cup {row} \cup {Skipped("command.execute")}
               refused == local \cup {row} \cup {Row("interaction.response_required", FALSE),
                                                  Skipped("command.execute")}
    <2>1. RowsTyped({row})
      BY RowsJoined
    <2>2. RowsTyped(skipped) /\ RowsTyped(refused)
      BY <1>0, RowTyped DEF RowsTyped
    <2>3. Throw({}) \/ Report(skipped) \/ Report(refused) \/ Goto("execute", {row})
      BY <1>7 DEF Prepare
    <2> HIDE DEF row, skipped, refused
    <2> QED BY <2>1, <2>2, <2>3, RowsJoined DEF GoesOn
  <1> QED BY <1>1, <1>2, <1>3, <1>4, <1>5, <1>6, <1>7

LEMMA DiscoverTyped ==
  ASSUME ReportTyped, Discover
  PROVE  /\ RowsTyped(checks') /\ RowsTyped(local')
         /\ threw' \in BOOLEAN /\ db' \in {"open", "closed"}
  <1>1. CASE Throw({})
    BY <1>1, GoingOn, RowsJoined DEF GoesOn
  <1>2. ASSUME NEW d \in Defs, NEW sound \in BOOLEAN,
               Dispatch(local \cup {Row("agent.discover", TRUE), Row("manifest", sound /\ PolicyOk(d))}, d, sound)
        PROVE  /\ RowsTyped(checks') /\ RowsTyped(local')
               /\ threw' \in BOOLEAN /\ db' \in {"open", "closed"}
    <2> DEFINE base == local \cup {Row("agent.discover", TRUE), Row("manifest", sound /\ PolicyOk(d))}
    <2>1. RowsTyped(base)
      BY RowTyped DEF RowsTyped, ReportTyped
    <2>2. Dispatch(base, d, sound)
      BY <1>2
    <2> HIDE DEF base
    <2>3. RowsTyped({Skipped("command.mode")})
      BY RowTyped DEF RowsTyped
    <2>4. \A flag : RowsTyped(base \cup IF flag THEN {Skipped("command.mode")} ELSE {})
      BY <2>1, <2>3, RowsJoined
    <2>5. \/ GoesOn
          \/ checks' = base /\ local' = {Row("command.args_schema", TRUE)} /\ UNCHANGED <<threw, db>>
      BY <2>1, <2>2, <2>4, RowsJoined DEF Dispatch, GoesOn
    <2> QED BY <2>1, <2>5, GoingOn, RowsJoined DEF ReportTyped
  <1> QED BY <1>1, <1>2 DEF Discover

LEMMA ReportTypedChecks ==
  ASSUME ReportTyped, options \in Inputs, Checks
  PROVE  ReportTyped'
  <1>1. CASE Start \/ Health \/ Validate \/ Gate \/ Probe \/ Preview \/ Prepare
    <2>1. /\ RowsTyped(checks') /\ RowsTyped(local')
          /\ threw' \in BOOLEAN /\ db' \in {"open", "closed"}
      BY <1>1, ChecksGoOn, GoingOn
    <2>2. UNCHANGED <<def, mode, host>>
      BY <1>1 DEF Start, Health, Validate, Gate, Probe, Preview, Prepare
    <2>3. asked' \subseteq Requests
      BY <1>1 DEF Start, Health, Validate, Gate, Probe, Preview, Prepare, Ask, Requests, ReportTyped
    <2> QED BY <2>1, <2>2, <2>3 DEF ReportTyped
  <1>2. CASE Discover
    <2>1. UNCHANGED <<mode, host>> /\ asked' \subseteq Requests
      BY <1>2 DEF Discover, Ask, Requests, ReportTyped
    <2>2. def' = def \/ def' \in Defs
      BY <1>2 DEF Discover
    <2> QED BY <1>2, <2>1, <2>2, DiscoverTyped, ConformanceAssumption DEF ReportTyped
  <1>3. CASE Execute
    <2>1. mode' \in {"none", "execute", "cancel"} \cup (Interactive \cup {"timeout"})
      BY <1>3, ConformanceAssumption DEF Execute, Mode, Input, Interactive
    <2>2. GoesOn
      BY <1>3, RowsJoined DEF Execute, GoesOn, ReportTyped
    <2>3. UNCHANGED <<def, host>> /\ asked' \subseteq Requests
      BY <1>3 DEF Execute, Ask, Requests, ReportTyped
    <2> QED BY <2>1, <2>2, <2>3, GoingOn DEF ReportTyped
  <1> QED BY <1>1, <1>2, <1>3 DEF Checks

LEMMA ReportTypedStep ==
  ASSUME ReportTyped, options \in Inputs, [Next]_vars
  PROVE  ReportTyped'
  <1> USE DEF ReportTyped
  <1>1. CASE Agent \/ AgentGone \/ TimerFires \/ UnhandledRejection \/ SpawnFails
    <2>1. UNCHANGED <<checks, threw, db, def, asked, mode>>
      BY <1>1, AgentStep
    <2>2. host' \in {"up", "crashed"}
      BY <1>1 DEF Agent, AcceptedEvent, RejectedEvent, AcceptedInteraction, RepeatedInteraction,
                  AcceptedTerminal, LateEvent, ExecuteResult, ExecuteError, RejectDone, CancelReply,
                  AgentGone, TimerFires, UnhandledRejection, SpawnFails
    <2>3. RowsTyped(local')
      <3>1. ASSUME NEW status, CancelReply(status) PROVE RowsTyped(local')
        BY <3>1, RowTyped DEF CancelReply, Goto, AckRow, RowsTyped
      <3> QED BY <1>1, <3>1, AgentStep
    <2> QED BY <2>1, <2>2, <2>3
  <1>2. CASE SleepEnds
    BY <1>2 DEF SleepEnds, Ask, Goto, Requests, RowsTyped
  <1>3. CASE CancelFails
    BY <1>3, RowTyped DEF CancelFails, Report, RowsTyped
  <1>4. CASE Finish
    <2>1. RowsTyped(checks') /\ RowsTyped(local')
      <3>1. RowsTyped(local \cup {Row("command.execute", FALSE)})
        BY RowsJoined
      <3>2. \A proof, ordered : RowsTyped(local \cup {Row("command.execute", TRUE)} \cup Rows(proof, ordered))
        BY RowsJoined, RowsOfExecution
      <3>3. GoesOn
        BY <1>4, <3>1, <3>2 DEF Finish, GoesOn
      <3> QED BY <3>3, GoingOn
    <2>2. UNCHANGED <<threw, def, asked, mode, host>> /\ db' = "closed"
      BY <1>4 DEF Finish, Report
    <2> QED BY <2>1, <2>2
  <1>5. CASE UNCHANGED vars
    BY <1>5 DEF vars, report
  <1> QED BY <1>1, <1>2, <1>3, <1>4, <1>5, ReportTypedChecks DEF Next

LEMMA TraceTypedStep ==
  ASSUME TraceTyped, [Next]_vars
  PROVE  TraceTyped'
  <1> USE DEF TraceTyped, TerminalTypes, TerminalStatuses
  <1>1. CASE Checks
    BY <1>1, ChecksStep
  <1>2. CASE Agent
    <2>1. ASSUME NEW type \in {"log"} \cup Leaks, NEW here \in BOOLEAN, AcceptedEvent(type, here)
          PROVE  TraceTyped'
      BY <2>1 DEF AcceptedEvent, Leaks, Event
    <2>2. ASSUME NEW type \in TerminalTypes \cup {"interaction", "malformed"} \cup Leaks, NEW here \in BOOLEAN,
                 RejectedEvent(type, here)
          PROVE  TraceTyped'
      BY <2>2 DEF RejectedEvent, RejectedMayAnswer, Leaks, Event
    <2>3. ASSUME NEW policy, NEW marked, NEW clear, NEW here \in BOOLEAN,
                 AcceptedInteraction(policy, marked, clear, here)
          PROVE  TraceTyped'
      <3>1. responded' \in BOOLEAN
        BY <2>3 DEF AcceptedInteraction
      <3> QED BY <2>3, <3>1 DEF AcceptedInteraction, Event
    <2>4. ASSUME NEW type \in TerminalTypes, NEW here \in BOOLEAN, AcceptedTerminal(type, here) PROVE TraceTyped'
      BY <2>4 DEF AcceptedTerminal, StatusOf, Event
    <2>7. ASSUME NEW here \in BOOLEAN, RepeatedInteraction(here) PROVE TraceTyped'
      BY <2>7 DEF RepeatedInteraction, Event
    <2>5. CASE LateEvent \/ ExecuteResult \/ ExecuteError
      BY <2>5 DEF LateEvent, ExecuteResult, ExecuteError, RejectDone, trace
    <2>6. ASSUME NEW status \in {"cancel_requested", "other"}, CancelReply(status) PROVE TraceTyped'
      BY <2>6 DEF CancelReply, trace
    <2> QED BY <1>2, <2>1, <2>2, <2>3, <2>4, <2>5, <2>6, <2>7 DEF Agent
  <1>3. CASE AgentGone \/ TimerFires
    BY <1>3 DEF AgentGone, TimerFires, RejectDone
  <1>4. CASE UnhandledRejection \/ SpawnFails \/ SleepEnds
    BY <1>4 DEF UnhandledRejection, SpawnFails, SleepEnds, trace
  <1>5. CASE CancelFails \/ Finish
    BY <1>5 DEF CancelFails, Finish, CloseAfterFailedCancel, Close, trace
  <1>6. CASE UNCHANGED vars
    BY <1>6 DEF vars, trace
  <1> QED BY <1>1, <1>2, <1>3, <1>4, <1>5, <1>6 DEF Next

(* Every variable of the harness holds a value of its type.                        *)
THEOREM TypeCorrect == Spec => []TypeOK
  <1>1. Init => ReportTyped /\ TraceTyped
    <2>2. Init => ReportTyped
      <3>1. NoDef \in Def
        BY DEF NoDef, Def
      <3>2. RowsTyped({})
        BY RowsJoined
      <3> QED BY <3>1, <3>2 DEF Init, ReportTyped
    <2>3. Init => TraceTyped
      BY DEF Init, TraceTyped
    <2> QED BY <2>2, <2>3
  <1>2. Answered /\ ReportTyped /\ [Next]_vars => ReportTyped'
    BY ReportTypedStep DEF Answered
  <1>3. TraceTyped /\ [Next]_vars => TraceTyped'
    BY TraceTypedStep
  <1>4. Where /\ Answered /\ ReportTyped /\ TraceTyped => TypeOK
    <2> SUFFICES ASSUME Where, Answered, ReportTyped, TraceTyped PROVE TypeOK
      OBVIOUS
    <2>1. \A i \in DOMAIN asks : asks[i].status \in {"pending", "responded", "timed_out", "abandoned"}
      <3>1. \A i \in 1..Len(asks) : asks[i] \in AskType
        BY DEF Answered
      <3>2. DOMAIN asks = 1..Len(asks)
        BY DEF Answered
      <3> QED BY <3>1, <3>2 DEF AskType
    <2> QED BY <2>1 DEF Where, Answered, ReportTyped, TraceTyped, RowsTyped, TypeOK, Before, Base, Executing
  <1> QED BY <1>1, <1>2, <1>3, <1>4, AnsweredAlways, WhereAlways, PTL DEF Spec
===============================================================================
