------------------------------- MODULE AgentSdk -------------------------------
(***************************************************************************)
(* The Python SDK's JSON-RPC server: the main thread, which reads requests *)
(* from stdin, the daemon thread of each agent.execute, and the            *)
(* InteractionHelper through which a blocked adapter gets its answer.      *)
(*                                                                         *)
(* The threads share _execute_thread, _interaction and the cancel flag     *)
(* without a lock, and may be preempted between any two reads or writes of *)
(* them: every action does one such access, or one critical section of the *)
(* helper's lock.  Lines written to stdout are atomic (_stdout_lock).      *)
(*                                                                         *)
(* The host is arbitrary: when the main thread is ready it may read any    *)
(* request.  The adapter is arbitrary too, with two limits: it calls the   *)
(* helper from the thread that runs it, and lets AgentCancelled through.   *)
(***************************************************************************)
EXTENDS Naturals, FiniteSets

CONSTANTS Executes,   \* agent.execute requests
          Ids,        \* interaction ids, each used once: the runtime refuses a second use
          Answers,    \* kinds of responses the host sends
          None        \* no execute, no interaction

ASSUME AnswersAssumption == Answers \subseteq {"value", "abort", "null"}
ASSUME NoneAssumption    == None \notin Executes \cup Ids

VARIABLES server,   \* "up", "ended" (stdin closed), or where an exception ended the main thread
          main,     \* the main thread: program point and operand
          worker,   \* execute -> program point of its thread
          thread,   \* _execute_thread
          helper,   \* _interaction, named by the execute that made it
          cancel,   \* cancel_flag.requested
          pending,  \* execute -> _pending_id of its helper
          answer,   \* execute -> _response or _error of its helper, "none" when both are None
          asked,    \* execute -> the interaction its adapter asked for last
          acks,     \* interaction -> number of {"ok": true} replies for it
          got       \* interaction -> what request() made of it

mainVars == <<server, main>>
shared   == <<thread, helper, cancel>>
lock     == <<pending, answer, acks>>
vars == <<server, main, worker, thread, helper, cancel, pending, answer, asked, acks, got>>

Idle == [at |-> "idle"]

\* Program points at which an execute's thread still runs the adapter or has its
\* terminal event or its reply to write.
Active == {"starting", "body", "asking", "waiting", "terminal"}

Init == /\ server = "up" /\ main = Idle
        /\ worker = [w \in Executes |-> "new"]
        /\ thread = None /\ helper = None /\ cancel = FALSE
        /\ pending = [w \in Executes |-> None]
        /\ answer = [w \in Executes |-> "none"]
        /\ asked = [w \in Executes |-> None]
        /\ acks = [i \in Ids |-> 0]
        /\ got = [i \in Ids |-> "unused"]

-------------------------------------------------------------------------------
(* The main thread: agent.execute.                                         *)

Goto(step)      == main' = step
Crashes(where)  == server' = where /\ main' = Idle

ReadExecute_ResetsFirst(w) ==
    /\ main = Idle /\ worker[w] = "new"
    /\ Goto([at |-> IF thread = None THEN "reset" ELSE "busy?", execute |-> w])
    /\ cancel' = FALSE
    /\ UNCHANGED <<server, worker, thread, helper, lock, asked, got>>

\* _execute_busy reads _execute_thread, and reads it again to ask whether it is alive.
\* (A thread that is still in the attribute is alive.)
ReadExecute(w) ==
    /\ main = Idle /\ worker[w] = "new"
    /\ Goto([at |-> IF thread = None THEN "reset" ELSE "busy?", execute |-> w])
    /\ UNCHANGED <<server, worker, shared, lock, asked, got>>

StartWhileBusy_Always(w) ==
    /\ main = [at |-> "busy?", execute |-> w]
    /\ Goto([main EXCEPT !.at = "reset"])
    /\ UNCHANGED <<server, worker>>

StartWhileBusy(w) ==
    /\ main = [at |-> "busy?", execute |-> w]
    /\ IF thread = None THEN Crashes("crashed in execute") /\ UNCHANGED worker
       ELSE /\ worker' = [worker EXCEPT ![w] = "refused"]
            /\ Goto(Idle)
            /\ UNCHANGED server

RefuseExecute(w) == StartWhileBusy(w) /\ UNCHANGED <<shared, lock, asked, got>>

ResetCancel(w) ==
    /\ main = [at |-> "reset", execute |-> w]
    /\ cancel' = FALSE
    /\ Goto([main EXCEPT !.at = "start"])
    /\ UNCHANGED <<server, worker, thread, helper, lock, asked, got>>

StartThread(w) ==
    /\ main = [at |-> "start", execute |-> w]
    /\ thread' = w
    /\ worker' = [worker EXCEPT ![w] = "starting"]
    /\ Goto(Idle)
    /\ UNCHANGED <<server, helper, cancel, lock, asked, got>>

-------------------------------------------------------------------------------
(* The main thread: action.respond_interaction, agent.cancel, end of stdin. *)

\* Without an execute in progress the answer is an error, which changes nothing.
ReadResponse(i, a) ==
    /\ main = Idle /\ thread # None
    /\ Goto([at |-> "alive?", id |-> i, answer |-> a])
    /\ UNCHANGED <<server, worker, shared, lock, asked, got>>

StillAlive ==
    /\ main.at = "alive?"
    /\ IF thread = None THEN Crashes("crashed in respond")
                        ELSE Goto([main EXCEPT !.at = "helper?"]) /\ UNCHANGED server
    /\ UNCHANGED <<worker, shared, lock, asked, got>>

\* "interaction.unavailable" when there is no helper.
HelperReady ==
    /\ main.at = "helper?"
    /\ Goto(IF helper = None THEN Idle ELSE [main EXCEPT !.at = "deliver"])
    /\ UNCHANGED <<server, worker, shared, lock, asked, got>>

Respond_KeepsPending(h, i, a) ==
    IF pending[h] = i /\ acks[i] < 2
    THEN /\ answer' = [answer EXCEPT ![h] = IF a = "null" THEN "none" ELSE a]
         /\ acks' = [acks EXCEPT ![i] = @ + 1]
         /\ UNCHANGED pending
    ELSE UNCHANGED lock

Respond_AbortIgnored(h, i, a) ==
    IF pending[h] = i
    THEN /\ answer' = [answer EXCEPT ![h] = IF a = "value" THEN a ELSE "none"]
         /\ pending' = [pending EXCEPT ![h] = None]
         /\ acks' = [acks EXCEPT ![i] = @ + 1]
    ELSE UNCHANGED lock

\* InteractionHelper.respond of the helper h, under its lock.  No pending id and
\* another pending id are errors.  A null response is None, like no response.
Respond(h, i, a) ==
    IF pending[h] = i
    THEN /\ answer' = [answer EXCEPT ![h] = IF a = "null" THEN "none" ELSE a]
         /\ pending' = [pending EXCEPT ![h] = None]
         /\ acks' = [acks EXCEPT ![i] = @ + 1]
    ELSE UNCHANGED lock

\* _interaction is read a second time, and nothing but AgentError is caught.
Deliver ==
    /\ main.at = "deliver"
    /\ IF helper = None
       THEN Crashes("crashed in respond") /\ UNCHANGED lock
       ELSE Respond(helper, main.id, main.answer) /\ Goto(Idle) /\ UNCHANGED server
    /\ UNCHANGED <<worker, shared, asked, got>>

ReadCancel ==
    /\ main = Idle
    /\ cancel' = TRUE
    /\ UNCHANGED <<mainVars, worker, thread, helper, lock, asked, got>>

\* run() returns and the daemon threads go with the process.
StdinEnds ==
    /\ main = Idle
    /\ server' = "ended"
    /\ UNCHANGED <<main, worker, shared, lock, asked, got>>

-------------------------------------------------------------------------------
(* The thread of an execute.                                               *)

Step(w, from, to) == worker[w] = from /\ worker' = [worker EXCEPT ![w] = to]

\* The manifest or the parameters are unusable: an error reply, no event.
FailsEarly(w) ==
    /\ Step(w, "starting", "terminal")
    /\ UNCHANGED <<mainVars, shared, lock, asked, got>>

Begin(w) ==
    /\ Step(w, "starting", "body")
    /\ helper' = w
    /\ UNCHANGED <<mainVars, thread, cancel, lock, asked, got>>

\* request(): the pending id is set under the lock, the event is emitted after it.
\* NextRequestIsNotBusy says that its check for another pending id never fails.
Ask(w, i) ==
    /\ got[i] = "unused" /\ pending[w] = None
    /\ Step(w, "body", "asking")
    /\ pending' = [pending EXCEPT ![w] = i]
    /\ answer' = [answer EXCEPT ![w] = "none"]
    /\ asked' = [asked EXCEPT ![w] = i]
    /\ got' = [got EXCEPT ![i] = "open"]
    /\ UNCHANGED <<mainVars, shared, acks>>

EmitRequest(w) ==
    /\ Step(w, "asking", "waiting")
    /\ UNCHANGED <<mainVars, shared, lock, asked, got>>

Returns(w, outcome) == got' = [got EXCEPT ![asked[w]] = outcome]

\* The loop of request() under the lock: an answer ends it before a cancel does.
WakeAnswered(w) ==
    /\ answer[w] = "value"
    /\ Step(w, "waiting", "body")
    /\ Returns(w, "answered")
    /\ UNCHANGED <<mainVars, shared, lock, asked>>

\* The adapter catches the interaction.timeout error or fails with it.
WakeTimedOut(w) ==
    /\ answer[w] = "abort"
    /\ Step(w, "waiting", "body") \/ Step(w, "waiting", "terminal")
    /\ Returns(w, "timed_out")
    /\ UNCHANGED <<mainVars, shared, lock, asked>>

SeesCancel_First(w) == cancel
SeesCancel_Not(w) == FALSE
SeesCancel(w) == answer[w] = "none" /\ cancel

WakeCancelled(w) ==
    /\ SeesCancel(w)
    /\ Step(w, "waiting", "terminal")
    /\ pending' = [pending EXCEPT ![w] = None]
    /\ Returns(w, "cancelled")
    /\ UNCHANGED <<mainVars, shared, answer, acks, asked>>

\* execute() returns, raises, or finds the flag set at a checkpoint: one terminal
\* event, whose type nothing here depends on.
Terminal(w) ==
    /\ Step(w, "body", "terminal")
    /\ UNCHANGED <<mainVars, shared, lock, asked, got>>

Reply(w) ==
    /\ Step(w, "terminal", "replied")
    /\ UNCHANGED <<mainVars, shared, lock, asked, got>>

\* The finally block, two writes after the reply.
ClearThread(w) ==
    /\ Step(w, "replied", "clearing")
    /\ thread' = None
    /\ UNCHANGED <<mainVars, helper, cancel, lock, asked, got>>

ClearHelper(w) ==
    /\ Step(w, "clearing", "over")
    /\ helper' = None
    /\ UNCHANGED <<mainVars, thread, cancel, lock, asked, got>>

Requests == \/ \E w \in Executes : ReadExecute(w)
            \/ \E i \in Ids, a \in Answers : ReadResponse(i, a)
            \/ ReadCancel
            \/ StdinEnds

Handles == \/ \E w \in Executes : RefuseExecute(w) \/ ResetCancel(w) \/ StartThread(w)
           \/ StillAlive
           \/ HelperReady
           \/ Deliver

Adapter(w) == Terminal(w) \/ \E i \in Ids : Ask(w, i)

Sdk(w) == \/ FailsEarly(w) \/ Begin(w) \/ EmitRequest(w)
          \/ WakeAnswered(w) \/ WakeTimedOut(w) \/ WakeCancelled(w)
          \/ Reply(w) \/ ClearThread(w) \/ ClearHelper(w)

Next == /\ server = "up"
        /\ \/ Requests
           \/ Handles
           \/ \E w \in Executes : Adapter(w) \/ Sdk(w)

Spec == Init /\ [][Next]_vars

\* The interpreter schedules both threads; the wait of the loop has a timeout of
\* 50 ms.  The host and the adapter owe nothing.
FairSpec == /\ Spec
            /\ WF_vars(server = "up" /\ Handles)
            /\ \A w \in Executes : WF_vars(server = "up" /\ Sdk(w))

-------------------------------------------------------------------------------
(* Properties.                                                             *)

\* The attributes of the server and of its helpers have their types.
TypeOK ==
    /\ server \in {"up", "ended", "crashed in execute", "crashed in respond"}
    /\ main \in {Idle} \cup [at : {"busy?", "reset", "start"}, execute : Executes]
                      \cup [at : {"alive?", "helper?", "deliver"}, id : Ids, answer : Answers]
    /\ worker \in [Executes -> Active \cup {"new", "refused", "replied", "clearing", "over"}]
    /\ thread \in Executes \cup {None}
    /\ helper \in Executes \cup {None}
    /\ cancel \in BOOLEAN
    /\ pending \in [Executes -> Ids \cup {None}]
    /\ answer \in [Executes -> {"none", "value", "abort"}]
    /\ asked \in [Executes -> Ids \cup {None}]
    /\ acks \in [Ids -> Nat]
    /\ got \in [Ids -> {"unused", "open", "answered", "timed_out", "cancelled"}]

\* A response acknowledged with ok is the one its request returns or fails with, and
\* is acknowledged once: a cancel, a duplicate or a response to another id in the
\* same moment never makes the two threads disagree.
AckIsDelivered ==
    \A i \in Ids : /\ acks[i] <= 1
                   /\ got[i] \in {"answered", "timed_out"} => acks[i] = 1
                   /\ got[i] \in {"unused", "cancelled"} => acks[i] = 0

\* "Permit one active execute at a time": the threads of two executes never both run
\* their adapter, although the first clears its attributes only after its reply.
OneExecuteAtATime ==
    \A w, v \in Executes : worker[w] \in Active /\ worker[v] \in Active => w = v

\* However the last interaction ended, the helper takes the adapter's next request:
\* it never answers interaction.busy.
NextRequestIsNotBusy == \A w \in Executes : worker[w] = "body" => pending[w] = None

\* A cancel request for the running execute is not lost: the flag is only reset while
\* no thread runs an adapter.
CancelIsNotLost ==
    [][cancel /\ ~ cancel' => \A w \in Executes : worker[w] \notin Active]_vars

\* An acknowledged response unblocks the adapter that waits for it.
AckUnblocks ==
    \A i \in Ids : acks[i] = 1 ~> got[i] \in {"answered", "timed_out"} \/ server # "up"

\* A cancel unblocks an adapter that waits for a response.
CancelUnblocks ==
    \A w \in Executes : cancel /\ worker[w] = "waiting" ~> worker[w] # "waiting" \/ server # "up"

-------------------------------------------------------------------------------
(* What the repository says of the SDK and the code does not do.           *)

\* docs/planning/v1h: "return AgentError for unknown, stale, or duplicate responses",
\* v1f: "reject or fail overlapping execute requests deterministically": a request that
\* meets the end of an execute gets an answer and does not end the main thread.
RequestsGetAnswers == server \notin {"crashed in execute", "crashed in respond"}
===============================================================================
