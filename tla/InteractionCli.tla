----------------------------- MODULE InteractionCli ----------------------------
(***************************************************************************)
(* agentctl run --approve: the prompt loops of the command line around one *)
(* execution.  Every accepted interaction starts a loop of its own, which  *)
(* gets a response from the --interaction-response file, the default of    *)
(* the request or the terminal, hands it to respondInteraction and starts  *)
(* again after an error, unless the error is one of those that end the     *)
(* run.  The loops share the response file, the terminal and the control   *)
(* object of the execution.                                                *)
(*                                                                         *)
(* The module extends that of the execution and composes its actions with  *)
(* those of the loops; what is of the composition and not of the execution *)
(* alone has the prefix Cli.  Only the loops call respondInteraction, and  *)
(* they never call cancel.                                                 *)
(***************************************************************************)
EXTENDS Execution

VARIABLES isTTY,       \* is stdin a terminal?
          seed,        \* the response file: "none" (or consumed), "valid", "invalid"
          question,    \* the interaction whose question readline shows, or None
          prompts,     \* interaction id -> its prompt loop
          failed,      \* interactionFailure is set
          cli          \* "waiting" for control.done, "returned" or "threw"

\* A loop calls respondInteraction again only after its first call has failed.
Attempts == {"first", "again"}

LoopCalls == Interactions \X Attempts

\* The calls of the execution's user are those of the loops.
ASSUME LoopCallsAssumption == UserCalls = LoopCalls

loopVars == <<isTTY, seed, question, prompts, failed, cli>>
cliVars == <<vars, loopVars>>

\* A request that cannot be asked for, one without and one with a usable default.
Kinds == {"unsupported", "plain", "defaulted"}

NoPrompt == [st |-> "none", kind |-> "plain", timed |-> FALSE, attempt |-> "first"]

CliInit == /\ Init
           /\ isTTY \in BOOLEAN
           /\ seed \in {"none", "valid", "invalid"}
           /\ question = None
           /\ prompts = [i \in Interactions |-> NoPrompt]
           /\ failed = FALSE
           /\ cli = "waiting"

-------------------------------------------------------------------------------
(* Getting a response.                                                     *)

\* readline shows one question.  A second one while the first is open is never
\* resolved, and after close() it throws.
Ask(i, p) ==
    LET st == IF cli # "waiting" THEN "retry"
              ELSE IF question = None THEN "asking" ELSE "unheard"
    IN  /\ prompts' = [prompts EXCEPT ![i] = [p EXCEPT !.st = st]]
        /\ question' = IF st = "asking" THEN i ELSE question

MayDefault_Always(p) == p.kind = "defaulted"
MayDefault(p) == p.kind = "defaulted" /\ ~ p.timed

Defers_Always(p) == ~ isTTY
Defers(p) == ~ isTTY /\ p.timed

\* promptInteractionResponse up to its first await: "ready" has a response in hand,
\* "retry" and "give_up" have thrown an error of either kind.
Prompt(i, p) ==
    LET Becomes(st) == prompts' = [prompts EXCEPT ![i] = [p EXCEPT !.st = st]]
    IN  IF p.kind = "unsupported"
        THEN Becomes("give_up") /\ UNCHANGED <<seed, question>>
        ELSE IF seed # "none"
        THEN /\ Becomes(IF seed = "valid" THEN "ready" ELSE "retry")
             /\ seed' = "none"
             /\ UNCHANGED question
        ELSE /\ UNCHANGED seed
             /\ \/ MayDefault(p) /\ Becomes("ready") /\ UNCHANGED question
                \/ ~ MayDefault(p) /\ Defers(p) /\ Becomes("deferred") /\ UNCHANGED question
                \/ /\ ~ MayDefault(p) /\ ~ Defers(p) /\ ~ isTTY
                   /\ Becomes("give_up") /\ UNCHANGED question
                \/ ~ MayDefault(p) /\ isTTY /\ Ask(i, p)

-------------------------------------------------------------------------------
(* The event loop: continuations of the loops and of the command run before *)
(* the next task, as those of the execution do.                             *)

Outstanding(i) == calls[<<i, prompts[i].attempt>>].st

Waits(i) == \/ prompts[i].st \in {"none", "asking", "unheard", "deferred", "answered", "failed"}
            \/ prompts[i].st = "sent" /\ Outstanding(i) \notin {"succeeded", "failed", "free"}

CommandWaits == cli # "waiting" \/ ~ settled

CliQuiet == Quiet /\ CommandWaits /\ \A i \in Interactions : Waits(i)

EndsChunk == /\ chunk' = FALSE
             /\ UNCHANGED <<host, agent, stdout, execute, terminal, runStatus, rows, pending,
                            timer, claimed, done, cancelled, calls>>

\* An error other than those of GiveUp: it is shown and the loop starts again.
CaughtError_Fatal == "give_up"
CaughtError == "retry"

\* The listener of executePreparedWithControl starts a loop, unless one has failed.
OnEvent(i, policy, kind) ==
    /\ CliQuiet \/ chunk
    /\ AcceptInteraction(i, policy)
    /\ IF failed THEN UNCHANGED <<seed, question, prompts>>
                 ELSE Prompt(i, [NoPrompt EXCEPT !.kind = kind, !.timed = policy # "none"])
    /\ UNCHANGED <<isTTY, failed, cli>>

\* The user enters a line: the last one of a response that fits, one that does not
\* or, in a form, one after which the next field is asked for.
UserEnters(i) ==
    /\ host = "up" /\ CliQuiet /\ cli = "waiting"
    /\ question = i
    /\ question' = None
    /\ \E st \in {"ready", CaughtError, "next_field"} :
           prompts' = [prompts EXCEPT ![i].st = st]
    /\ EndsChunk
    /\ UNCHANGED <<isTTY, seed, failed, cli>>

NextField(i) ==
    /\ host = "up" /\ prompts[i].st = "next_field"
    /\ Ask(i, prompts[i])
    /\ EndsChunk
    /\ UNCHANGED <<isTTY, seed, failed, cli>>

\* respond.  "Cannot respond: run already terminal" and "No pending interaction" end
\* the run.
CliRespond(i) ==
    /\ host = "up" /\ prompts[i].st = "ready"
    /\ LET attempt == IF calls[<<i, "first">>].st = "free" THEN "first" ELSE "again"
       IN  IF Claimable
           THEN /\ Respond(<<i, attempt>>, i, "valid")
                /\ chunk' = FALSE
                /\ prompts' = [prompts EXCEPT ![i].st = "sent", ![i].attempt = attempt]
           ELSE /\ prompts' = [prompts EXCEPT ![i].st = "give_up"]
                /\ EndsChunk
    /\ UNCHANGED <<isTTY, seed, question, failed, cli>>

\* After the await of respond.  The text of an agent's error is the agent's: one that
\* contains either of the two messages ends the run.
Responded(i) ==
    /\ host = "up" /\ prompts[i].st = "sent"
    /\ \E st \in CASE Outstanding(i) = "succeeded" -> {"answered"}
                   [] Outstanding(i) = "failed"    -> {CaughtError, "give_up"}
                   [] Outstanding(i) = "free"      -> {CaughtError}
                   [] OTHER                        -> {} :
           prompts' = [prompts EXCEPT ![i].st = st]
    /\ EndsChunk
    /\ UNCHANGED <<isTTY, seed, question, failed, cli>>

Retry(i) ==
    /\ host = "up" /\ prompts[i].st = "retry"
    /\ Prompt(i, prompts[i])
    /\ EndsChunk
    /\ UNCHANGED <<isTTY, failed, cli>>

\* The .catch of the loop: it records the failure and closes the control.
GiveUp(i) ==
    /\ host = "up" /\ prompts[i].st = "give_up"
    /\ prompts' = [prompts EXCEPT ![i].st = "failed"]
    /\ failed' = TRUE
    /\ CloseControl
    /\ UNCHANGED <<isTTY, seed, question, cli>>

\* After the await of control.done: the result or the failure, and the finally block.
CommandReturns ==
    /\ host = "up" /\ ~ CommandWaits
    /\ cli' = IF failed \/ done = "rejected" THEN "threw" ELSE "returned"
    /\ CloseControl
    /\ UNCHANGED <<isTTY, seed, question, prompts, failed>>

-------------------------------------------------------------------------------
OtherLine == \/ \E i \in Interactions : RepeatInteractionId(i)
             \/ \E type \in TerminalTypes : AcceptTerminal(type)
             \/ \E reply \in {"resolved", "rejected"} :
                    ExecuteReply(reply) \/ \E c \in DOMAIN calls : CallReply(c, reply)

CliLine == (CliQuiet \/ chunk) /\ OtherLine /\ UNCHANGED loopVars

CliTimerFires     == CliQuiet /\ TimerFires /\ UNCHANGED loopVars
CliExitTimerFires == CliQuiet /\ ExitTimerFires /\ UNCHANGED loopVars
ProcessEvent      == CliQuiet /\ (AgentExits \/ StdoutEnds) /\ UNCHANGED loopVars
RunContinues      == Continues /\ UNCHANGED loopVars

LoopContinues(i) == NextField(i) \/ CliRespond(i) \/ Responded(i) \/ Retry(i) \/ GiveUp(i)

CliNext == \/ \E i \in Interactions, policy \in Policies, kind \in Kinds :
                  OnEvent(i, policy, kind)
           \/ \E i \in Interactions : UserEnters(i) \/ LoopContinues(i)
           \/ CliLine \/ CliTimerFires \/ CliExitTimerFires \/ ProcessEvent \/ RunContinues
           \/ CommandReturns

CliSpec == CliInit /\ [][CliNext]_cliVars

-------------------------------------------------------------------------------
(* Properties.                                                             *)

\* The loops, the shared terminal and the execution have their types.
CliTypeOK ==
    /\ TypeOK
    /\ isTTY \in BOOLEAN /\ failed \in BOOLEAN
    /\ seed \in {"none", "valid", "invalid"}
    /\ question \in Interactions \cup {None}
    /\ prompts \in [Interactions ->
                      [st : {"none", "asking", "unheard", "next_field", "deferred", "ready",
                             "sent", "retry", "give_up", "answered", "failed"},
                       kind : Kinds, timed : BOOLEAN, attempt : Attempts]]
    /\ cli \in {"waiting", "returned", "threw"}

\* A loop that leaves an interaction to the timeout of the runtime can rely on it: as
\* long as the interaction is pending and the run goes on, its timer is armed.
DeferredHasTimer ==
    \A i \in Interactions :
        prompts[i].st = "deferred" /\ pending # None /\ pending.id = i /\ agent = "running"
            => timer = i

\* docs/planning/v1j: retry while the run is still pending.  A loop gives up on an
\* interaction that is pending in an unsettled run only because it has no way to ask or
\* because the runtime is busy with the attempt of another loop.
GivesUpWithReason ==
    [][\A i \in Interactions :
          prompts'[i].st = "give_up" /\ prompts[i].st # "give_up"
              /\ done' = "open" /\ pending' # None /\ pending'.id = i =>
              \/ prompts'[i].kind = "unsupported"
              \/ ~ isTTY
              \/ claimed]_cliVars

\* docs/planning/v1k: clients are not timeout owners.  Without a terminal at most one
\* interaction with a timeout policy is answered by the command, from the response file.
RuntimeOwnsTimeouts ==
    ~ isTTY => Cardinality({i \in Interactions :
                               prompts[i].timed /\ calls[<<i, "first">>].id = i}) <= 1

-------------------------------------------------------------------------------
(* What the repository says of the program and the code does not do.       *)

\* docs/planning/v1k: agentctl run should "tolerate runtime-triggered completion": an
\* interaction that its timeout has answered does not make its loop end the run.
TimeoutIsTolerated ==
    \A i \in Interactions : prompts[i].st = "failed" => calls[i].id # i
===============================================================================
