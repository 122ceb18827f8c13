---------------------------- MODULE AgentSdkProofs -----------------------------
(* The safety of the Python SDK's server for any number of executes, of          *)
(* interactions and of responses, and any preemption of its threads.             *)
EXTENDS AgentSdk, TLAPS

-------------------------------------------------------------------------------
(* Types.                                                                        *)

ExecutePoint  == [at : {"busy?", "reset", "start"}, execute : Executes]
ResponsePoint == [at : {"alive?", "helper?", "deliver"}, id : Ids, answer : Answers]
MainType      == {Idle} \cup ExecutePoint \cup ResponsePoint

At(w, point) == [at |-> point, execute |-> w]

(* The operand goes along with the main thread, and tells its points apart.      *)
LEMMA PointFacts ==
  ASSUME NEW w \in Executes, NEW p \in {"busy?", "reset", "start"},
         NEW q \in {"busy?", "reset", "start"}
  PROVE  /\ [At(w, p) EXCEPT !.at = q] = At(w, q)
         /\ At(w, p) \in ExecutePoint
         /\ At(w, p) # Idle
         /\ At(w, p).at = p /\ At(w, p).execute = w
         /\ \A m \in ResponsePoint : At(w, p) # m
         /\ \A v \in Executes : At(v, q) = At(w, p) => v = w /\ q = p
  <1>1. [At(w, p) EXCEPT !.at = q] = At(w, q)
    BY DEF At
  <1>2. At(w, p).at = p /\ At(w, p).execute = w /\ At(w, p) \in ExecutePoint
    BY DEF At, ExecutePoint
  <1>3. At(w, p) # Idle
    <2>1. Idle.at = "idle"
      BY DEF Idle
    <2> QED BY <1>2, <2>1
  <1>4. \A m \in ResponsePoint : At(w, p) # m
    <2>1. \A m \in ResponsePoint : m.at \in {"alive?", "helper?", "deliver"}
      BY DEF ResponsePoint
    <2> QED BY <1>2, <2>1
  <1>5. \A v \in Executes : At(v, q) = At(w, p) => v = w /\ q = p
    <2>1. \A v \in Executes : At(v, q).at = q /\ At(v, q).execute = v
      BY DEF At
    <2> QED BY <1>2, <2>1
  <1> QED BY <1>1, <1>2, <1>3, <1>4, <1>5

LEMMA ResponseFacts ==
  ASSUME NEW m \in ResponsePoint
  PROVE  /\ m.id \in Ids /\ m.answer \in Answers
         /\ m # Idle /\ m.at \in {"alive?", "helper?", "deliver"}
         /\ \A q \in {"alive?", "helper?", "deliver"} : [m EXCEPT !.at = q] \in ResponsePoint
  BY DEF ResponsePoint, Idle

(* The main thread is at the point its program counter names.                    *)
LEMMA AtPoint ==
  ASSUME main \in MainType, main.at \in {"alive?", "helper?", "deliver"}
  PROVE  main \in ResponsePoint
  <1>1. Idle.at = "idle"
    BY DEF Idle
  <1>2. \A m \in ExecutePoint : m.at \in {"busy?", "reset", "start"}
    BY DEF ExecutePoint
  <1> QED BY <1>1, <1>2 DEF MainType

LEMMA InitType == Init => TypeOK
  <1> SUFFICES ASSUME Init PROVE TypeOK
    OBVIOUS
  <1>1. main \in {Idle} \cup [at : {"busy?", "reset", "start"}, execute : Executes]
                     \cup [at : {"alive?", "helper?", "deliver"}, id : Ids, answer : Answers]
    BY DEF Init
  <1> QED BY <1>1 DEF Init, TypeOK

(* What the main thread does next is always a point of its program.              *)
LEMMA MainStep ==
  ASSUME TypeOK, Next
  PROVE  main' \in MainType
  <1>0. main \in MainType
    BY DEF TypeOK, MainType, ExecutePoint, ResponsePoint
  <1>i. Idle \in MainType
    BY DEF MainType
  <1>1. ASSUME NEW w \in Executes, NEW p \in {"busy?", "reset", "start"}
        PROVE  At(w, p) \in MainType
    BY PointFacts DEF MainType
  <1>2. ASSUME NEW w \in Executes, ReadExecute(w) PROVE main' \in MainType
    BY <1>1, <1>2 DEF ReadExecute, Goto, At
  <1>3. ASSUME NEW w \in Executes, RefuseExecute(w) \/ StartThread(w) PROVE main' \in MainType
    BY <1>i, <1>3 DEF RefuseExecute, StartWhileBusy, StartThread, Goto, Crashes
  <1>4. ASSUME NEW w \in Executes, ResetCancel(w) PROVE main' \in MainType
    <2>1. main = At(w, "reset") /\ main' = [main EXCEPT !.at = "start"]
      BY <1>4 DEF ResetCancel, Goto, At
    <2> QED BY <1>1, <2>1, PointFacts
  <1>5. ASSUME NEW i \in Ids, NEW a \in Answers, ReadResponse(i, a) PROVE main' \in MainType
    BY <1>5 DEF ReadResponse, Goto, MainType, ResponsePoint
  <1>6. CASE StillAlive \/ HelperReady
    <2>1. main \in ResponsePoint
      BY <1>0, <1>6, AtPoint DEF StillAlive, HelperReady
    <2>2. main' \in {Idle, [main EXCEPT !.at = "helper?"], [main EXCEPT !.at = "deliver"]}
      BY <1>6 DEF StillAlive, HelperReady, Goto, Crashes
    <2> QED BY <1>i, <2>1, <2>2, ResponseFacts DEF MainType
  <1>7. CASE Deliver
    BY <1>i, <1>7 DEF Deliver, Goto, Crashes
  <1>8. CASE ReadCancel \/ StdinEnds
    BY <1>0, <1>8 DEF ReadCancel, StdinEnds, mainVars
  <1>9. ASSUME NEW w \in Executes, Adapter(w) \/ Sdk(w) PROVE main' \in MainType
    BY <1>0, <1>9 DEF Adapter, Sdk, Terminal, Ask, FailsEarly, Begin, EmitRequest, WakeAnswered,
       WakeTimedOut, WakeCancelled, Reply, ClearThread, ClearHelper, mainVars
  <1> QED BY <1>2, <1>3, <1>4, <1>5, <1>6, <1>7, <1>8, <1>9 DEF Next, Requests, Handles

WorkerType == Active \cup {"new", "refused", "replied", "clearing", "over"}

GotType == {"unused", "open", "answered", "timed_out", "cancelled"}

(* Every step of a thread moves one execute from one program point to another.   *)
LEMMA StepEffect ==
  ASSUME TypeOK, NEW w \in Executes, NEW from, NEW to \in WorkerType, Step(w, from, to)
  PROVE  /\ worker[w] = from
         /\ worker' \in [Executes -> WorkerType]
         /\ \A v \in Executes : worker'[v] = IF v = w THEN to ELSE worker[v]
  BY DEF Step, TypeOK, WorkerType

LEMMA WorkersStep ==
  ASSUME TypeOK, Next
  PROVE  worker' \in [Executes -> WorkerType]
  <1> USE DEF WorkerType, Active
  <1>0. worker \in [Executes -> WorkerType]
    BY DEF TypeOK
  <1>1. ASSUME NEW w \in Executes, RefuseExecute(w) \/ StartThread(w)
        PROVE  worker' \in [Executes -> WorkerType]
    BY <1>0, <1>1 DEF RefuseExecute, StartWhileBusy, StartThread
  <1>2. ASSUME NEW w \in Executes, Adapter(w) \/ Sdk(w)
        PROVE  worker' \in [Executes -> WorkerType]
    BY <1>0, <1>2 DEF Adapter, Sdk, Terminal, Ask, FailsEarly, Begin, EmitRequest, WakeAnswered,
       WakeTimedOut, WakeCancelled, Reply, ClearThread, ClearHelper, Step
  <1>3. CASE UNCHANGED worker
    BY <1>0, <1>3
  <1> QED BY <1>1, <1>2, <1>3 DEF Next, Requests, Handles, ReadExecute, ResetCancel, ReadResponse,
                StillAlive, HelperReady, Deliver, ReadCancel, StdinEnds

(* A response that its helper takes becomes its answer, is acknowledged, and     *)
(* clears the pending id; any other changes nothing.                             *)
LEMMA RespondEffect ==
  ASSUME TypeOK, NEW h \in Executes, NEW i \in Ids, NEW a \in Answers, Respond(h, i, a)
  PROVE  \/ UNCHANGED lock
         \/ /\ pending[h] = i
            /\ answer' = [answer EXCEPT ![h] = IF a = "null" THEN "none" ELSE a]
            /\ pending' = [pending EXCEPT ![h] = None]
            /\ acks' = [acks EXCEPT ![i] = @ + 1]
            /\ answer'[h] \in {"none", "value", "abort"}
            /\ answer'[h] = "none" => a = "null"
  BY AnswersAssumption DEF Respond, TypeOK

LEMMA LockStep ==
  ASSUME TypeOK, Next
  PROVE  /\ pending' \in [Executes -> Ids \cup {None}]
         /\ answer' \in [Executes -> {"none", "value", "abort"}]
         /\ acks' \in [Ids -> Nat]
  <1> DEFINE Locked == /\ pending' \in [Executes -> Ids \cup {None}]
                       /\ answer' \in [Executes -> {"none", "value", "abort"}]
                       /\ acks' \in [Ids -> Nat]
  <1>0. /\ pending \in [Executes -> Ids \cup {None}]
        /\ answer \in [Executes -> {"none", "value", "abort"}]
        /\ acks \in [Ids -> Nat]
    BY DEF TypeOK
  <1>1. ASSUME UNCHANGED lock PROVE Locked
    BY <1>0, <1>1 DEF lock
  <1>2. ASSUME Deliver PROVE Locked
    <2>1. CASE helper = None
      BY <1>1, <1>2, <2>1 DEF Deliver
    <2>2. CASE helper # None
      <3>1. main.id \in Ids /\ main.answer \in Answers
        <4>1. main \in MainType
          BY DEF TypeOK, MainType, ExecutePoint, ResponsePoint
        <4> QED BY <1>2, <4>1, AtPoint, ResponseFacts DEF Deliver
      <3>2. helper \in Executes /\ Respond(helper, main.id, main.answer)
        BY <1>2, <2>2 DEF Deliver, TypeOK
      <3> HIDE DEF Locked
      <3>3. CASE UNCHANGED lock
        BY <1>1, <3>3
      <3>4. CASE /\ answer' = [answer EXCEPT ![helper] = IF main.answer = "null" THEN "none"
                                                          ELSE main.answer]
                 /\ pending' = [pending EXCEPT ![helper] = None]
                 /\ acks' = [acks EXCEPT ![main.id] = @ + 1]
        <4>1. (IF main.answer = "null" THEN "none" ELSE main.answer) \in {"none", "value", "abort"}
          BY <3>1, AnswersAssumption
        <4> QED BY <1>0, <3>1, <3>2, <3>4, <4>1 DEF Locked
      <3> QED BY <3>1, <3>2, <3>3, <3>4, RespondEffect
    <2> QED BY <2>1, <2>2
  <1>3. ASSUME NEW w \in Executes, NEW i \in Ids, Ask(w, i) PROVE Locked
    BY <1>0, <1>3 DEF Ask
  <1>4. ASSUME NEW w \in Executes, WakeCancelled(w) PROVE Locked
    BY <1>0, <1>4 DEF WakeCancelled
  <1>5. UNCHANGED lock \/ Deliver \/ (\E w \in Executes, i \in Ids : Ask(w, i))
        \/ (\E w \in Executes : WakeCancelled(w))
    BY DEF Next, Requests, Handles, Adapter, Sdk, ReadExecute, RefuseExecute, ResetCancel,
           StartThread, ReadResponse, StillAlive, HelperReady, ReadCancel, StdinEnds, Terminal,
           FailsEarly, Begin, EmitRequest, WakeAnswered, WakeTimedOut, Reply, ClearThread, ClearHelper
  <1> QED BY <1>1, <1>2, <1>3, <1>4, <1>5

LEMMA GotStep ==
  ASSUME TypeOK, Next
  PROVE  asked' \in [Executes -> Ids \cup {None}] /\ got' \in [Ids -> GotType]
  <1> USE DEF GotType
  <1>0. asked \in [Executes -> Ids \cup {None}] /\ got \in [Ids -> GotType]
    BY DEF TypeOK
  <1>1. CASE UNCHANGED <<asked, got>>
    BY <1>0, <1>1
  <1>2. ASSUME NEW w \in Executes, NEW i \in Ids, Ask(w, i)
        PROVE  asked' \in [Executes -> Ids \cup {None}] /\ got' \in [Ids -> GotType]
    BY <1>0, <1>2 DEF Ask
  <1>3. ASSUME NEW w \in Executes, WakeAnswered(w) \/ WakeTimedOut(w) \/ WakeCancelled(w)
        PROVE  asked' \in [Executes -> Ids \cup {None}] /\ got' \in [Ids -> GotType]
    BY <1>0, <1>3 DEF WakeAnswered, WakeTimedOut, WakeCancelled, Returns
  <1>4. \/ UNCHANGED <<asked, got>> \/ \E w \in Executes, i \in Ids : Ask(w, i)
        \/ \E w \in Executes : WakeAnswered(w) \/ WakeTimedOut(w) \/ WakeCancelled(w)
    BY DEF Next, Requests, Handles, Adapter, Sdk, ReadExecute, RefuseExecute, ResetCancel,
           StartThread, ReadResponse, StillAlive, HelperReady, Deliver, ReadCancel, StdinEnds,
           Terminal, FailsEarly, Begin, EmitRequest, Reply, ClearThread, ClearHelper
  <1> QED BY <1>1, <1>2, <1>3, <1>4

LEMMA SharedStep ==
  ASSUME TypeOK, Next
  PROVE  /\ server' \in {"up", "ended", "crashed in execute", "crashed in respond"}
         /\ thread' \in Executes \cup {None} /\ helper' \in Executes \cup {None}
         /\ cancel' \in BOOLEAN
  <1> DEFINE Shared == /\ server' \in {"up", "ended", "crashed in execute", "crashed in respond"}
                       /\ thread' \in Executes \cup {None} /\ helper' \in Executes \cup {None}
                       /\ cancel' \in BOOLEAN
  <1>1. ASSUME Requests PROVE Shared
    BY <1>1 DEF Requests, ReadExecute, ReadResponse, ReadCancel, StdinEnds, Goto, shared, mainVars,
                TypeOK
  <1>2. ASSUME Handles PROVE Shared
    BY <1>2 DEF Handles, RefuseExecute, StartWhileBusy, ResetCancel, StartThread, StillAlive,
                HelperReady, Deliver, Crashes, shared, TypeOK
  <1>3. ASSUME NEW w \in Executes, Adapter(w) \/ Sdk(w) PROVE Shared
    BY <1>3 DEF Adapter, Sdk, Terminal, Ask, FailsEarly, Begin, EmitRequest, WakeAnswered,
       WakeTimedOut, WakeCancelled, Reply, ClearThread, ClearHelper, mainVars, shared, TypeOK
  <1> QED BY <1>1, <1>2, <1>3 DEF Next

LEMMA TypeInductive ==
  ASSUME TypeOK, Next
  PROVE  TypeOK'
  <1>1. main' \in {Idle} \cup [at : {"busy?", "reset", "start"}, execute : Executes]
                    \cup [at : {"alive?", "helper?", "deliver"}, id : Ids, answer : Answers]
    BY MainStep DEF MainType, ExecutePoint, ResponsePoint
  <1>2. worker' \in [Executes -> Active \cup {"new", "refused", "replied", "clearing", "over"}]
    BY WorkersStep DEF WorkerType
  <1>3. got' \in [Ids -> {"unused", "open", "answered", "timed_out", "cancelled"}]
        /\ asked' \in [Executes -> Ids \cup {None}]
    BY GotStep DEF GotType
  <1>4. /\ pending' \in [Executes -> Ids \cup {None}]
        /\ answer' \in [Executes -> {"none", "value", "abort"}]
        /\ acks' \in [Ids -> Nat]
    BY LockStep
  <1>5. /\ server' \in {"up", "ended", "crashed in execute", "crashed in respond"}
        /\ thread' \in Executes \cup {None} /\ helper' \in Executes \cup {None}
        /\ cancel' \in BOOLEAN
    BY SharedStep
  <1> QED BY <1>1, <1>2, <1>3, <1>4, <1>5 DEF TypeOK

(* The attributes of the server and of its helpers keep their types.             *)
THEOREM TypeCorrect == Spec => []TypeOK
  <1>1. TypeOK /\ UNCHANGED vars => TypeOK'
    BY DEF TypeOK, vars, mainVars, shared, lock
  <1>2. TypeOK /\ [Next]_vars => TypeOK'
    BY <1>1, TypeInductive
  <1> QED BY InitType, <1>2, PTL DEF Spec

-------------------------------------------------------------------------------
(* The inductive invariant.                                                      *)

(* Program points from the start of an execute's thread to the first write of    *)
(* its finally block.                                                            *)
Holding == Active \cup {"replied"}

(* The server's attribute names the thread until that write, which is why        *)
(* nothing else is started; the main thread goes from its check to the start of  *)
(* a thread while it names none.                                                 *)
Threads ==
    /\ \A w \in Executes : worker[w] \in Holding => thread = w
    /\ \A w \in Executes : main = At(w, "busy?") => worker[w] = "new"
    /\ \A w \in Executes :
          main = At(w, "reset") \/ main = At(w, "start") => thread = None /\ worker[w] = "new"

Asking == {"asking", "waiting"}

(* The pending id of a helper is the id its adapter waits for, until it is       *)
(* answered; no two executes wait for one id.                                    *)
Exchange(w) ==
    /\ asked[w] \in Ids /\ got[asked[w]] = "open"
    /\ \/ pending[w] = asked[w] /\ acks[asked[w]] = 0 /\ answer[w] = "none"
       \/ /\ pending[w] = None /\ acks[asked[w]] = 1
          /\ answer[w] # "none" \/ "null" \in Answers

Exchanges ==
    /\ \A w \in Executes : worker[w] \in Asking => Exchange(w)
    /\ \A w \in Executes : worker[w] \notin Asking => pending[w] = None
    /\ \A w \in Executes : asked[w] # None => got[asked[w]] # "unused"
    /\ \A w, v \in Executes : asked[w] # None /\ asked[w] = asked[v] => w = v

(* What has become of an id, and whether a response for it was acknowledged.     *)
Outcome(i) ==
    /\ got[i] = "unused" => acks[i] = 0
    /\ got[i] = "open" => \E w \in Executes : worker[w] \in Asking /\ asked[w] = i
    /\ got[i] \in {"answered", "timed_out"} => acks[i] = 1
    /\ got[i] = "cancelled" => acks[i] = 0 \/ (acks[i] = 1 /\ "null" \in Answers)

Outcomes == \A i \in Ids : Outcome(i)

IInv == TypeOK /\ Threads /\ Exchanges /\ Outcomes

LEMMA InitIInv == Init => IInv
  <1> SUFFICES ASSUME Init PROVE IInv
    OBVIOUS
  <1>1. \A w \in Executes : main # At(w, "busy?") /\ main # At(w, "reset") /\ main # At(w, "start")
    BY PointFacts DEF Init
  <1>2. Threads
    BY <1>1 DEF Init, Threads, Holding, Active
  <1>3. Exchanges /\ Outcomes
    BY DEF Init, Exchanges, Outcomes, Outcome, Asking
  <1> QED BY InitType, <1>2, <1>3 DEF IInv

(* The steps of an execute's thread, by what they mean for the invariant: they   *)
(* keep it between the same points, or are one of five.                          *)
Moves(w) == /\ UNCHANGED <<main, thread, cancel, lock, asked, got>>
            /\ \E from, to \in WorkerType :
                  /\ Step(w, from, to)
                  /\ to \in Holding => from \in Holding
                  /\ to \in Asking <=> from \in Asking
                  /\ to \in Active => from \in Active
                  /\ to # "new" /\ from # "new"

Wakes(w) == WakeAnswered(w) \/ WakeTimedOut(w) \/ WakeCancelled(w)

LEMMA ThreadSteps ==
  ASSUME NEW w \in Executes, Adapter(w) \/ Sdk(w)
  PROVE  Moves(w) \/ (\E i \in Ids : Ask(w, i)) \/ Wakes(w) \/ ClearThread(w)
  BY DEF Adapter, Sdk, Terminal, FailsEarly, Begin, EmitRequest, Reply, ClearHelper, Moves, Wakes,
         WorkerType, Active, Holding, Asking, mainVars, shared, lock

LEMMA ThreadsInductive ==
  ASSUME IInv, Next
  PROVE  Threads'
  <1>0. TypeOK /\ Threads
    BY DEF IInv
  <1>t. worker \in [Executes -> WorkerType]
    BY <1>0 DEF TypeOK, WorkerType
  <1> USE DEF Threads
  <1>1. CASE UNCHANGED <<main, worker, thread>>
    BY <1>0, <1>1
  (* At no point between its check and a start.                                  *)
  <1>2. ASSUME \A w \in Executes : main' # At(w, "busy?") /\ main' # At(w, "reset")
                                   /\ main' # At(w, "start"),
               UNCHANGED <<worker, thread>>
        PROVE  Threads'
    BY <1>0, <1>2
  <1>3. ASSUME NEW w \in Executes, ReadExecute(w) PROVE Threads'
    <2>1. /\ worker[w] = "new" /\ UNCHANGED <<worker, thread>>
          /\ \/ thread = None /\ main' = At(w, "reset")
             \/ thread # None /\ main' = At(w, "busy?")
      BY <1>3 DEF ReadExecute, Goto, At, shared
    <2>2. \A v \in Executes : /\ main' = At(v, "busy?") => v = w
                              /\ main' = At(v, "reset") => v = w /\ thread = None
                              /\ main' # At(v, "start")
      BY <2>1, PointFacts
    <2> QED BY <1>0, <2>1, <2>2
  <1>4. ASSUME NEW w \in Executes, RefuseExecute(w) PROVE Threads'
    <2>1. /\ main = At(w, "busy?") /\ main' = Idle /\ UNCHANGED thread
          /\ worker' = worker \/ worker' = [worker EXCEPT ![w] = "refused"]
      BY <1>4 DEF RefuseExecute, StartWhileBusy, Goto, Crashes, At, shared
    <2>2. \A v \in Executes : worker'[v] = worker[v] \/ worker'[v] = "refused"
      BY <1>t, <2>1
    <2>3. \A v \in Executes : Idle # At(v, "busy?") /\ Idle # At(v, "reset") /\ Idle # At(v, "start")
      BY PointFacts
    <2> QED BY <1>0, <2>1, <2>2, <2>3 DEF Holding, Active
  <1>5. ASSUME NEW w \in Executes, ResetCancel(w) PROVE Threads'
    <2>1. main = At(w, "reset") /\ main' = At(w, "start") /\ UNCHANGED <<worker, thread>>
      BY <1>5, PointFacts DEF ResetCancel, Goto, At
    <2>2. \A v \in Executes : /\ main' # At(v, "busy?") /\ main' # At(v, "reset")
                              /\ main' = At(v, "start") => v = w
      BY <2>1, PointFacts
    <2> QED BY <1>0, <2>1, <2>2
  <1>6. ASSUME NEW w \in Executes, StartThread(w) PROVE Threads'
    <2>1. /\ main = At(w, "start") /\ main' = Idle
          /\ thread' = w /\ worker' = [worker EXCEPT ![w] = "starting"]
      BY <1>6 DEF StartThread, Goto, At
    <2>2. \A v \in Executes : worker[v] \notin Holding
      BY <1>0, <2>1, NoneAssumption
    <2>3. \A v \in Executes : v # w => worker'[v] = worker[v]
      BY <1>t, <2>1
    <2>4. \A v \in Executes : Idle # At(v, "busy?") /\ Idle # At(v, "reset") /\ Idle # At(v, "start")
      BY PointFacts
    <2> QED BY <2>1, <2>2, <2>3, <2>4
  <1>7. ASSUME NEW i \in Ids, NEW a \in Answers, ReadResponse(i, a) PROVE Threads'
    <2>1. main' \in ResponsePoint /\ UNCHANGED <<worker, thread>>
      BY <1>7 DEF ReadResponse, Goto, ResponsePoint, shared
    <2> QED BY <1>2, <2>1, PointFacts
  <1>8. CASE StillAlive \/ HelperReady \/ Deliver
    <2>1. main \in MainType
      BY <1>0 DEF TypeOK, MainType, ExecutePoint, ResponsePoint
    <2>2. main \in ResponsePoint
      BY <1>8, <2>1, AtPoint DEF StillAlive, HelperReady, Deliver
    <2>3. /\ UNCHANGED <<worker, thread>>
          /\ main' \in {Idle, [main EXCEPT !.at = "helper?"], [main EXCEPT !.at = "deliver"]}
      BY <1>8 DEF StillAlive, HelperReady, Deliver, Goto, Crashes, shared
    <2>4. main' = Idle \/ main' \in ResponsePoint
      BY <2>2, <2>3, ResponseFacts
    <2> QED BY <1>2, <2>3, <2>4, PointFacts
  <1>9. ASSUME NEW w \in Executes, NEW from, NEW to \in WorkerType, Step(w, from, to),
               to \in Holding => from \in Holding, to # "new", from # "new",
               UNCHANGED <<main, thread>>
        PROVE  Threads'
    <2>1. /\ worker[w] = from
          /\ \A v \in Executes : worker'[v] = IF v = w THEN to ELSE worker[v]
      BY <1>0, <1>9, StepEffect
    <2> QED BY <1>0, <1>9, <2>1
  <1>10. ASSUME NEW w \in Executes, Moves(w) PROVE Threads'
    BY <1>9, <1>10 DEF Moves
  <1>11. ASSUME NEW w \in Executes, NEW i \in Ids, Ask(w, i) PROVE Threads'
    BY <1>9, <1>11 DEF Ask, mainVars, shared, WorkerType, Holding, Active
  <1>12. ASSUME NEW w \in Executes, Wakes(w) PROVE Threads'
    <2>1. /\ Step(w, "waiting", "body") \/ Step(w, "waiting", "terminal")
          /\ UNCHANGED <<main, thread>>
      BY <1>12 DEF Wakes, WakeAnswered, WakeTimedOut, WakeCancelled, mainVars, shared
    <2> QED BY <1>9, <2>1 DEF WorkerType, Holding, Active
  <1>13. ASSUME NEW w \in Executes, ClearThread(w) PROVE Threads'
    <2>1. /\ worker[w] = "replied" /\ thread' = None /\ main' = main
          /\ \A v \in Executes : worker'[v] = IF v = w THEN "clearing" ELSE worker[v]
      BY <1>0, <1>13, StepEffect DEF ClearThread, mainVars, WorkerType
    <2>2. \A v \in Executes : worker'[v] \notin Holding
      BY <1>0, <2>1 DEF Holding, Active
    <2> QED BY <1>0, <2>1, <2>2
  <1> QED BY <1>1, <1>3, <1>4, <1>5, <1>6, <1>7, <1>8, <1>10, <1>11, <1>12, <1>13, ThreadSteps
          DEF Next, Requests, Handles, ReadCancel, StdinEnds, mainVars, shared

Interaction == Exchanges /\ Outcomes

(* What leaves the helpers alone and moves no execute into or out of a request   *)
(* keeps the invariant.                                                          *)
LEMMA Elsewhere ==
  ASSUME Interaction, UNCHANGED <<lock, asked, got>>,
         \A w \in Executes : worker'[w] \in Asking <=> worker[w] \in Asking
  PROVE  Interaction'
  <1>1. /\ pending' = pending /\ answer' = answer /\ acks' = acks
        /\ asked' = asked /\ got' = got
    BY DEF lock
  <1>2. Exchanges'
    BY <1>1 DEF Interaction, Exchanges, Exchange
  <1>3. Outcomes'
    BY <1>1 DEF Interaction, Outcomes, Outcome
  <1> QED BY <1>2, <1>3 DEF Interaction

LEMMA ElsewhereSteps ==
  ASSUME IInv, Next
  PROVE  \/ /\ UNCHANGED <<lock, asked, got>>
            /\ \A w \in Executes : worker'[w] \in Asking <=> worker[w] \in Asking
         \/ Deliver
         \/ \E w \in Executes : Wakes(w) \/ \E i \in Ids : Ask(w, i)
  <1> DEFINE Else == /\ UNCHANGED <<lock, asked, got>>
                     /\ \A w \in Executes : worker'[w] \in Asking <=> worker[w] \in Asking
  <1>0. TypeOK /\ Threads /\ worker \in [Executes -> WorkerType]
    BY DEF IInv, TypeOK, WorkerType
  <1>1. CASE Requests \/ StillAlive \/ HelperReady \/ \E w \in Executes : ResetCancel(w)
    BY <1>1 DEF Requests, StillAlive, HelperReady, ResetCancel, ReadExecute, ReadResponse, ReadCancel,
                StdinEnds
  <1>2. ASSUME NEW w \in Executes, RefuseExecute(w) \/ StartThread(w) PROVE Else
    <2>1. worker[w] = "new"
      BY <1>0, <1>2 DEF RefuseExecute, StartWhileBusy, StartThread, Threads, At
    <2>2. /\ UNCHANGED <<lock, asked, got>>
          /\ \A v \in Executes : \/ worker'[v] = worker[v]
                                 \/ v = w /\ worker'[v] \in {"refused", "starting"}
      BY <1>0, <1>2 DEF RefuseExecute, StartWhileBusy, StartThread
    <2> QED BY <2>1, <2>2 DEF Asking
  <1>3. ASSUME NEW w \in Executes, NEW from, NEW to \in WorkerType, Step(w, from, to),
               to \in Asking <=> from \in Asking, UNCHANGED <<lock, asked, got>>
        PROVE  Else
    BY <1>0, <1>3, StepEffect
  <1>4. ASSUME NEW w \in Executes, Moves(w) \/ ClearThread(w) PROVE Else
    <2>1. CASE Moves(w)
      BY <1>3, <2>1 DEF Moves, lock
    <2>2. CASE ClearThread(w)
      BY <1>3, <2>2 DEF ClearThread, WorkerType, Asking
    <2> QED BY <1>4, <2>1, <2>2
  <1> QED BY <1>1, <1>2, <1>4, ThreadSteps DEF Next, Handles

LEMMA AskInductive ==
  ASSUME IInv, NEW w \in Executes, NEW i \in Ids, Ask(w, i)
  PROVE  Interaction'
  <1>0. TypeOK /\ Exchanges /\ Outcomes /\ i # None
    BY NoneAssumption DEF IInv
  <1>1. /\ got[i] = "unused" /\ pending[w] = None /\ worker[w] = "body"
        /\ acks' = acks
        /\ \A v \in Executes : /\ worker'[v] = IF v = w THEN "asking" ELSE worker[v]
                               /\ pending'[v] = IF v = w THEN i ELSE pending[v]
                               /\ answer'[v] = IF v = w THEN "none" ELSE answer[v]
                               /\ asked'[v] = IF v = w THEN i ELSE asked[v]
        /\ \A j \in Ids : got'[j] = IF j = i THEN "open" ELSE got[j]
    BY <1>0 DEF Ask, Step, TypeOK
  <1>2. \A v \in Executes : asked[v] # i
    BY <1>0, <1>1 DEF Exchanges
  <1>3. acks[i] = 0
    BY <1>0, <1>1 DEF Outcomes, Outcome
  <1>4. \A v \in Executes : asked[v] \in Ids \cup {None}
    BY <1>0 DEF TypeOK
  <1>5. ASSUME NEW v \in Executes, worker'[v] \in Asking PROVE Exchange(v)'
    <2>1. CASE v = w
      BY <1>1, <1>3, <2>1 DEF Exchange
    <2>2. CASE v # w
      <3>1. Exchange(v)
        BY <1>0, <1>1, <1>5, <2>2 DEF Exchanges
      <3> QED BY <1>1, <1>2, <2>2, <3>1 DEF Exchange
    <2> QED BY <2>1, <2>2
  <1>6. Exchanges'
    BY <1>0, <1>1, <1>2, <1>4, <1>5 DEF Exchanges, Asking
  <1>7. ASSUME NEW j \in Ids PROVE Outcome(j)'
    <2>1. Outcome(j)
      BY <1>0 DEF Outcomes
    <2>2. CASE j = i
      BY <1>1, <2>2 DEF Outcome, Asking
    <2>3. CASE j # i
      <3>1. \A v \in Executes : worker[v] \in Asking => v # w
        BY <1>1 DEF Asking
      <3> QED BY <1>1, <2>1, <2>3, <3>1 DEF Outcome
    <2> QED BY <2>2, <2>3
  <1> QED BY <1>6, <1>7 DEF Interaction, Outcomes

LEMMA WakesInductive ==
  ASSUME IInv, NEW w \in Executes, Wakes(w)
  PROVE  Interaction'
  <1> DEFINE i == asked[w]
  <1>0. TypeOK /\ Exchanges /\ Outcomes
    BY DEF IInv
  <1>1. worker[w] = "waiting" /\ Exchange(w)
    BY <1>0 DEF Wakes, WakeAnswered, WakeTimedOut, WakeCancelled, Step, Exchanges, Asking
  <1>2. PICK to \in {"body", "terminal"}, outcome \in {"answered", "timed_out", "cancelled"} :
           /\ Step(w, "waiting", to) /\ Returns(w, outcome)
           /\ asked' = asked /\ acks' = acks /\ answer' = answer
           /\ \/ /\ answer[w] # "none" /\ outcome # "cancelled" /\ pending' = pending
              \/ /\ answer[w] = "none" /\ outcome = "cancelled"
                 /\ pending' = [pending EXCEPT ![w] = None]
    BY DEF Wakes, WakeAnswered, WakeTimedOut, WakeCancelled, SeesCancel, lock
  <1>3. i \in Ids /\ got[i] = "open"
    BY <1>1 DEF Exchange
  <1> HIDE DEF i
  <1>4. /\ \A v \in Executes : worker'[v] = IF v = w THEN to ELSE worker[v]
        /\ \A j \in Ids : got'[j] = IF j = i THEN outcome ELSE got[j]
    BY <1>0, <1>2 DEF Step, Returns, TypeOK, i
  <1>5. /\ pending'[w] = None
        /\ \A v \in Executes \ {w} : pending'[v] = pending[v]
    BY <1>0, <1>1, <1>2 DEF Exchange, TypeOK
  <1>6. /\ outcome # "cancelled" => acks[i] = 1
        /\ outcome = "cancelled" => acks[i] = 0 \/ (acks[i] = 1 /\ "null" \in Answers)
    BY <1>1, <1>2 DEF Exchange, i
  <1>7. \A v \in Executes : v # w => asked[v] # i
    BY <1>0, <1>3, NoneAssumption DEF Exchanges, i
  <1>8. ASSUME NEW v \in Executes, worker'[v] \in Asking PROVE Exchange(v)'
    <2>1. v # w
      BY <1>2, <1>4, <1>8 DEF Asking
    <2>2. Exchange(v)
      BY <1>0, <1>4, <1>8, <2>1 DEF Exchanges
    <2> QED BY <1>2, <1>4, <1>5, <1>7, <2>1, <2>2 DEF Exchange
  <1>9. Exchanges'
    <2>1. \A v \in Executes : worker'[v] \notin Asking => pending'[v] = None
      BY <1>0, <1>4, <1>5 DEF Exchanges
    <2>2. \A v \in Executes : asked'[v] # None => got'[asked'[v]] # "unused"
      <3>1. \A v \in Executes : asked[v] \in Ids \cup {None}
        BY <1>0 DEF TypeOK
      <3> QED BY <1>0, <1>2, <1>4, <3>1 DEF Exchanges
    <2>3. \A v, u \in Executes : asked'[v] # None /\ asked'[v] = asked'[u] => v = u
      BY <1>0, <1>2 DEF Exchanges
    <2> QED BY <1>8, <2>1, <2>2, <2>3 DEF Exchanges
  <1>10. ASSUME NEW j \in Ids PROVE Outcome(j)'
    <2>1. Outcome(j)
      BY <1>0 DEF Outcomes
    <2>2. CASE j = i
      BY <1>2, <1>4, <1>6, <2>2 DEF Outcome
    <2>3. CASE j # i
      <3>1. \A v \in Executes : asked[v] = j => v # w
        BY <2>3 DEF i
      <3> QED BY <1>2, <1>4, <2>1, <2>3, <3>1 DEF Outcome
    <2> QED BY <2>2, <2>3
  <1> QED BY <1>9, <1>10 DEF Interaction, Outcomes

LEMMA DeliverInductive ==
  ASSUME IInv, Deliver
  PROVE  Interaction'
  <1>0. TypeOK /\ Exchanges /\ Outcomes /\ Interaction
    BY DEF IInv, Interaction
  <1>1. worker' = worker /\ asked' = asked /\ got' = got
    BY DEF Deliver
  <1>2. CASE UNCHANGED lock
    BY <1>0, <1>1, <1>2, Elsewhere
  <1>3. CASE ~ UNCHANGED lock
    <2> DEFINE h == helper
               i == main.id
    <2>1. main.id \in Ids /\ main.answer \in Answers
      <3>1. main \in MainType
        BY <1>0 DEF TypeOK, MainType, ExecutePoint, ResponsePoint
      <3> QED BY <3>1, AtPoint, ResponseFacts DEF Deliver
    <2>2. h \in Executes /\ Respond(h, i, main.answer)
      BY <1>0, <1>3 DEF Deliver, TypeOK
    <2>3. /\ pending[h] = i
          /\ answer' = [answer EXCEPT ![h] = IF main.answer = "null" THEN "none" ELSE main.answer]
          /\ pending' = [pending EXCEPT ![h] = None]
          /\ acks' = [acks EXCEPT ![i] = @ + 1]
          /\ answer'[h] = "none" => main.answer = "null"
      BY <1>0, <1>3, <2>1, <2>2, RespondEffect
    <2>4. i \in Ids /\ i # None
      BY <2>1, NoneAssumption
    <2>5. answer'[h] # "none" \/ "null" \in Answers
      BY <2>1, <2>3
    <2> HIDE DEF h, i
    <2>6. /\ \A v \in Executes : /\ pending'[v] = IF v = h THEN None ELSE pending[v]
                                 /\ v # h => answer'[v] = answer[v]
          /\ \A j \in Ids : acks'[j] = IF j = i THEN acks[j] + 1 ELSE acks[j]
      BY <1>0, <2>2, <2>3, <2>4 DEF TypeOK
    <2>7. /\ worker[h] \in Asking /\ asked[h] = i /\ got[i] = "open" /\ acks[i] = 0
      BY <1>0, <2>2, <2>3, <2>4 DEF Exchanges, Exchange
    <2>8. \A v \in Executes : v # h => asked[v] # i
      BY <1>0, <2>2, <2>4, <2>7 DEF Exchanges
    <2>9. ASSUME NEW v \in Executes, worker'[v] \in Asking PROVE Exchange(v)'
      <3>1. Exchange(v)
        BY <1>0, <1>1, <2>9 DEF Exchanges
      <3>2. CASE v = h
        BY <1>1, <2>4, <2>5, <2>6, <2>7, <3>2 DEF Exchange
      <3>3. CASE v # h
        BY <1>1, <2>6, <2>8, <3>1, <3>3 DEF Exchange
      <3> QED BY <3>2, <3>3
    <2>10. Exchanges'
      BY <1>0, <1>1, <2>6, <2>9 DEF Exchanges
    <2>11. ASSUME NEW j \in Ids PROVE Outcome(j)'
      <3>1. Outcome(j)
        BY <1>0 DEF Outcomes
      <3>2. CASE j = i
        BY <1>1, <2>2, <2>7, <3>1, <3>2 DEF Outcome
      <3>3. CASE j # i
        BY <1>1, <2>6, <3>1, <3>3 DEF Outcome
      <3> QED BY <3>2, <3>3
    <2> QED BY <2>10, <2>11 DEF Interaction, Outcomes
  <1> QED BY <1>2, <1>3

LEMMA Inductive == IInv /\ [Next]_vars => IInv'
  <1>1. ASSUME IInv, UNCHANGED vars PROVE IInv'
    <2>1. TypeOK'
      BY <1>1 DEF vars, mainVars, shared, lock, IInv, TypeOK
    <2>2. Threads'
      <3>1. Threads /\ UNCHANGED <<main, worker, thread>>
        BY <1>1 DEF vars, mainVars, shared, IInv
      <3> QED BY <3>1 DEF Threads
    <2>3. Interaction'
      <3>1. Interaction /\ UNCHANGED <<lock, worker, asked, got>>
        BY <1>1 DEF vars, lock, IInv, Interaction
      <3> QED BY <3>1, Elsewhere
    <2> QED BY <2>1, <2>2, <2>3 DEF IInv, Interaction
  <1>2. ASSUME IInv, Next PROVE IInv'
    <2>1. Interaction'
      BY <1>2, Elsewhere, ElsewhereSteps, AskInductive, WakesInductive, DeliverInductive
         DEF IInv, Interaction
    <2> QED BY <1>2, <2>1, TypeInductive, ThreadsInductive DEF IInv, Interaction
  <1> QED BY <1>1, <1>2

THEOREM Invariance == Spec => []IInv
  <1> QED BY InitIInv, Inductive, PTL DEF Spec

-------------------------------------------------------------------------------
(* The properties.                                                               *)

(* Whatever the host sends while an execute ends, no second thread runs an       *)
(* adapter beside the first.                                                     *)
THEOREM SingleExecute == Spec => []OneExecuteAtATime
  <1>1. IInv => OneExecuteAtATime
    BY DEF IInv, Threads, Holding, OneExecuteAtATime
  <1> QED BY Invariance, <1>1, PTL

(* The helper takes each request of its adapter, however the last one ended.     *)
THEOREM NeverBusy == Spec => []NextRequestIsNotBusy
  <1>1. IInv => NextRequestIsNotBusy
    BY DEF IInv, Exchanges, Asking, NextRequestIsNotBusy
  <1> QED BY Invariance, <1>1, PTL

(* A response is acknowledged once at most, and by the time its request returns  *)
(* or fails with it; null responses included.                                    *)
AckIsUnique ==
    \A i \in Ids : /\ acks[i] <= 1
                   /\ got[i] \in {"answered", "timed_out"} => acks[i] = 1
                   /\ got[i] = "unused" => acks[i] = 0

LEMMA AckBound ==
  ASSUME IInv, NEW i \in Ids
  PROVE  acks[i] \in {0, 1}
  <1>1. got[i] \in GotType /\ Outcome(i) /\ Exchanges
    BY DEF IInv, TypeOK, GotType, Outcomes
  <1>2. CASE got[i] = "open"
    <2>1. PICK w \in Executes : worker[w] \in Asking /\ asked[w] = i
      BY <1>1, <1>2 DEF Outcome
    <2> QED BY <1>1, <2>1 DEF Exchanges, Exchange
  <1> QED BY <1>1, <1>2 DEF Outcome, GotType

THEOREM AckedOnce == Spec => []AckIsUnique
  <1>1. ASSUME IInv, NEW i \in Ids
        PROVE  /\ acks[i] <= 1
               /\ got[i] \in {"answered", "timed_out"} => acks[i] = 1
               /\ got[i] = "unused" => acks[i] = 0
    BY <1>1, AckBound DEF IInv, Outcomes, Outcome
  <1>2. IInv => AckIsUnique
    BY <1>1 DEF AckIsUnique
  <1> QED BY Invariance, <1>2, PTL

(* If no response is null, which the helper cannot tell from no response, then   *)
(* the reply to the host and the outcome of the request agree: a request that a  *)
(* cancel ended has no acknowledged response.                                    *)
THEOREM AckDelivered ==
  ASSUME "null" \notin Answers
  PROVE  Spec => []AckIsDelivered
  <1>1. ASSUME IInv, NEW i \in Ids
        PROVE  /\ acks[i] <= 1
               /\ got[i] \in {"answered", "timed_out"} => acks[i] = 1
               /\ got[i] \in {"unused", "cancelled"} => acks[i] = 0
    BY <1>1, AckBound DEF IInv, Outcomes, Outcome
  <1>2. IInv => AckIsDelivered
    BY <1>1 DEF AckIsDelivered
  <1> QED BY Invariance, <1>2, PTL

(* The flag is reset only between executes: the cancel of a running execute is   *)
(* seen by it.                                                                   *)
THEOREM CancelKept == Spec => CancelIsNotLost
  <1>1. IInv /\ [Next]_vars =>
           [cancel /\ ~ cancel' => \A w \in Executes : worker[w] \notin Active]_vars
    <2> SUFFICES ASSUME IInv, Next, cancel, ~ cancel', NEW w \in Executes
                 PROVE  worker[w] \notin Active
      OBVIOUS
    <2>1. PICK v \in Executes : ResetCancel(v)
      BY DEF Next, Requests, Handles, Adapter, Sdk, ReadExecute, RefuseExecute, StartThread,
         ReadResponse, StillAlive, HelperReady, Deliver, ReadCancel, StdinEnds, Terminal, Ask,
         FailsEarly, Begin, EmitRequest, WakeAnswered, WakeTimedOut, WakeCancelled, Reply,
         ClearThread, ClearHelper, shared
    <2>2. thread = None
      BY <2>1 DEF ResetCancel, IInv, Threads, At
    <2> QED BY <2>2, NoneAssumption DEF IInv, Threads, Holding
  <1> QED BY Invariance, <1>1, PTL DEF Spec, CancelIsNotLost
===============================================================================
