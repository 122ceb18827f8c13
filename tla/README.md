# Consoler in TLA+

Consoler lets a person run the commands of a local *agent* (a child process that
speaks JSON-RPC over stdin and stdout) with a preview, an approval, a trail in a
SQLite database and interactions while the command runs. This directory models the
parts of it that are hard to get right and hard to test, model-checks them on small
instances with TLC, and proves the most important results for every instance with
TLAPS.

Contents: 1 the system; 2 what is hard; 3 the modules; 4 the runs; 5 the proofs;
6 departures; 7 what is left out; 8 the plan.

## 1. The system

| Component | State | Operations | Talks to |
|---|---|---|---|
| **Event store** `packages/runtime/src/event-store.ts`, `db/store.ts`, `db/schema.ts` | tables `runs`, `events` | `createRun`, `ingest` (validate, judge, insert, close the run), `readByRun` | called by the execution; shared by every process on the machine |
| **Execution control** `runtime.ts` (`executePreparedWithControl`), `interaction-timeout.ts`, `interaction-response.ts` | closure: `pendingInteraction`, `interactionTimer`, `interactionOutcomeClaimed`, `settled`, the `done` promise; table `interactions` | notification handler, `respondInteraction`, `handleInteractionTimeout`, `cancel`, `close`, the `.then`/`.catch` of `agent.execute` | transport below, CLI or TUI above, store beside |
| **Command lifecycle** `runtime.ts`, `approval.ts`, `context-snapshot.ts`, `plan-hash.ts`, `command-policy.ts` | tables `manifests`, `actions`, `contexts`, `plans`, `approvals`, `runs` | `discover`, `preview`, `plan`, `prepareAction`, `runWithEvents`, `runApprovedWithInteractions`, start of an execution | agent requests `discover`, `preview`, `validate`, `plan`; file system and git through the snapshot |
| **Agent transport** `transport/jsonrpc.ts` | pending requests, the child, 50 ms exit timer | `request`, `handleLine`, exit and end of stdout, `close` | one agent process |
| **Python agent SDK** `sdks/python/consoler_agent_sdk/server.py`, `interaction.py` | `_execute_thread`, `_interaction`, cancel flag; `_pending_id`, `_response`, `_error` of the helper | main loop, `_start_execute`, `_respond_interaction`, `_handle` (cancel), `_execute_worker`, `request`, `respond` | the adapter above, the runtime over the pipe |
| **History, trace, replay** `action-read.ts`, `replay.ts` | none, reads | `history`, `trace`, `replay` | store |
| **Interaction redaction** `interaction-redaction.ts` | none | what of a response is stored | store |
| **agentctl** `packages/agentctl/src` | the `--interaction-response` file, one readline, one prompt loop for each interaction | commands; prompt loops of `interaction-cli.ts` under `run-approved.ts` | runtime |
| **TUI** `packages/tui/src/app.tsx` | screen (`phase`), `busy`, bundle, `executionControlRef`, interaction card | keys, effects, async functions the keys start | runtime |
| **Conformance harness** `packages/conformance/src/run.ts`, `isolated-root.ts` | rows of the report, rows of the running function, what the event handler collected, a database of its own | base checks, checks of a command, five ways to execute (plain, interactive, redaction, cancel, timeout), the report | runtime; one agent for each base check, then the executing one |
| **Registry, protocol package, formatting, scripts** | files read on every call; none | parsing, validation, hashing, text | all |

The interactions that matter: agentctl and the TUI call the runtime as functions; the
runtime talks to one fresh agent process for each request of the lifecycle, and to one
for each execution; agents answer with replies and with notifications (events); every
process on the machine writes to the same database; inside an agent built with the SDK
the main thread and the thread of the execute share attributes without a lock.

What makes each part correct:

* *event store*: what replay shows is what was accepted, in that order; the run row
  agrees with the accepted events; neither a misbehaving agent nor another process can
  disturb a run;
* *execution*: a response and a timeout never both win; timers and claims belong to the
  interaction that is pending; a run settles once, cleanly, and always after the agent
  has gone;
* *lifecycle*: what runs is what was approved, in the context in which it was approved,
  once; the trail of a run is complete;
* *SDK*: what is acknowledged to the host is what the adapter gets; a waiting adapter is
  woken; executes do not overlap; a cancel is not lost;
* *transport*: every request gets an answer or an error;
* *conformance harness*: a report that passes is true; an agent that has ended its run cannot
  keep the harness from its report; nothing runs that was not approved, and no agent is left behind;
* *CLI and TUI*: what is on screen is what the runtime waits for, and no key acts on what
  has gone.

## 2. What is hard

`PROJECT.json` lists the hazards, each at its line, with the property that would catch
it or the reason why none does yet. They fall into these groups:

1. several processes on one database, with operations of several statements and no
   transaction (event-store, lifecycle);
2. one JavaScript thread with awaits: state read before an await and used after it,
   timers against responses, three competing ends of a run (execution);
3. two Python threads with shared attributes and no lock (SDK);
4. a world that changes while a snapshot of it is taken, or between approval and use
   (lifecycle);
5. an agent that is not trusted: repeated sequence numbers, events after the end, a
   second interaction, a reply without a terminal event, an exit at any moment;
6. a harness that judges such an agent by what several sources say of one run (the handler's
   events, the tables, the promise), and whose own exceptions must not look like success.

## 3. The modules

```
ActionEvents                terminal events and the statuses they give a run
  |-- RunLog                abstract: a log per run
  |-- EventStore            implements RunLog        EventStoreProofs
  |-- Execution                                      ExecutionProofs
  |     |-- InteractionCli  with the prompt loops    InteractionCliProofs
  |-- ActionTrace                                    ActionTraceProofs
  |-- Conformance                                    ConformanceProofs
AgentSdk                                             AgentSdkProofs
Lifecycle                                            LifecycleProofs
Tui                                                  TuiProofs
MC<Module>.tla, MC<Module>_<run>.cfg                 instances for TLC
```

An operator `X_Something` next to `X` is a mutated `X`: a plausible bug in the lines `X`
models. Nothing refers to it; putting it in the place of `X` must break the property
`PROJECT.json` names with it.

### ActionEvents, RunLog, EventStore

`EventStore` has the two tables (`status`, `events` in order of the autoincrement id) and,
for each run, where the process that executes it is (`pc`, `cur`). `Ingest` (with
`Judge`, `RowFor`, `Verdict`) is validation and the two queries (`MAX(seq)` and the
terminal flag); `Insert` is the insert; `Finish` the update of the run row. A process may end at
any point and leave what it has written. The verdicts are those of the code: schema,
wrong run, after the terminal event, duplicate sequence number. What the schema refuses
is kept in a row without the columns it lacks.

`RunLog` is what a caller needs to know: each run has a set of accepted events that grows
by one with a larger sequence number until a terminal event, and a status. `EventStore`
implements it (`ImplementsRunLog`): `log` maps to the accepted rows, `status` to the run
row.

### Execution

One execution, from the insert of its run row to the end of its agent. The host is one
JavaScript thread: a line of the agent, a process event, a timer and a call of the user
are *tasks*; what follows an `await` or a `.then` is a *continuation*, and runs when the
task is over and before the next. Several lines that arrive in one chunk are one task
(`chunk`). The actions:

| Action | Code |
|---|---|
| `AcceptInteraction`, `AcceptTerminal`, `RepeatInteractionId` | the notification handler with `maybeFinish`, and the UNIQUE constraint of `interactions` |
| `ExecuteReply`, `CallReply` | `handleLine` of the transport |
| `Respond` | `respondInteraction` up to its await: validation, claim, delivery |
| `TimerFires` | `handleInteractionTimeout`, with the policies abort and answer |
| `Continue(c)` | what follows the await of a delivery: release of the claim, error |
| `ExecuteContinues` | `.then` and `.catch` of `agent.execute` |
| `Cancel`, `Close` | the controls of the returned handle |
| `AgentExits`, `StdoutEnds`, `ExitTimerFires` | exit event, end of stdout, the way out 50 ms later; pending requests are rejected |

Each response has a class: valid, not fitting the prompt, or of the form of a timeout
control response. The agent is arbitrary.

### InteractionCli

`agentctl run --approve`. Every accepted interaction starts a loop of its own
(`resolveInteractionResponseWithRetry`), which takes a response from the response file, the
default or the terminal, calls `respondInteraction`, and starts again after an error unless
the error is one of the two texts that end the run. The module extends `Execution` and composes its
actions with those of the loops (`CliInit`, `CliNext`): the calls of the user are those of the loops
(`LoopCallsAssumption`), and a loop calls again only after its first call has failed. Loops are
continuations: they run before the next task, in any order among themselves, and several
lines of a chunk may be handled before them. What they share is modelled as shared: the
response file is used up by the first that reads it, readline shows one question (`question`)
and never resolves a second that is asked while the first is open (`unheard`), and a loop that
gives up closes the control of the run for all.

### Tui

`app.tsx`: the screens, the keys alive in each, and the functions the keys start, which go on
when the screen has been left. `tasks` are submissions and probes that wait for the agent
(`SubmitForm`, `GateAsks`, `Previewed`, `Prepared`, `RequestFails`, `ApproveProbePreview`),
`answers` the calls of `respondInteraction` that have not come back, `runs` the executions,
reduced to what handlers and control object show of them (`Settles`, `TimesOut`, `Replies`,
`InteractionRequired`). `control` is `executionControlRef`, `card` the interaction on the screen. A key sees the
last render: two keys between two renders, which would see the same closure, are not modelled.
Of the bottom tabs only replay is, because it leaves any screen.

### ActionTrace

The record of one action in the tables, and the reads of it. The process that executes
writes it statement by statement (`createRun`, `Accept`, `AcceptInteraction`,
`insertPendingInteraction`, `Close`, `Settle`, `Respond`, `TimesOut`, `Reject`) and may end anywhere
(`Ends`). The reader is `getActionTrace` or one entry of `listActionHistory`: `ReadRuns`,
`ReadEvents`, `ReadLatestRun` and `ReadTimeline` in the order of their statements, then `Shown`. An action has
one run, by `OneRunPerApproval` of `Lifecycle`. Requests and responses are a choice or an object
over a few top-level fields, each as entered or replaced by the sentinel, so that redaction
(`redactInteractionRequest`, `redactObjectByPaths`, `mergeRedactedPaths`) is modelled by what it does.
An event names a run and an action. `ingest` compares the run only, and files the event under both as they came
(`ours`, `filed`): an agent may file events of its run under another action (`filed` is FALSE), and the agent of another
run may file its events under this one (`AcceptElsewhere`). A timeline reads by run (`listAcceptedEventsForRun`), the
events of a trace are read by action (`listEventsForAction`), and the properties say what holds of the two all the same.
What was read is a set of row ids. The query by action orders by the id; the query by run orders by `seq` and then the id,
which comes to the same by `ReplayOrderIsAcceptanceOrder` of `EventStore`. That one list begins another is therefore said
of the sets and the order of ids.

### Conformance

`runAgentConformance`, one async function, from the flags to the report. `Start`, `Health`,
`Discover`, `Validate`, `Gate`, `Probe`, `Preview`, `Prepare`, `Execute` are the checks in
their order, each a request to an agent and what follows its await; `Dispatch` is what the
function does with the rows of the base checks. `checks` are the rows of the report and `local`
those of the function that runs: `Goto` goes on, `Report` returns, `Throw` is an exception, which
loses `local`. `Refused` are the combinations of flags agentctl does not pass on; the function may
also be called without it (`from`). Rows that the code writes for one fact are one row.

The executing agent is `Execution` reduced to what the rows depend on: kinds of accepted and
rejected events, each filed under the action of the run or under another (`here`), the interactions table, the state of the
promise. A trace has the events filed under the action (`Filed`), a replay the accepted ones; no other process writes to the
harness's database. The agent is arbitrary (`AcceptedEvent`, `RejectedEvent`, `AcceptedInteraction`, `RepeatedInteraction`,
`AcceptedTerminal`, `ExecuteResult`, `ExecuteError`, `CancelReply`), may exit (`AgentGone`), and its lines may be handled between the settling
of the promise and the continuation (`Finish`), as they come in chunks; after `Finish` the
database is closed (`LateEvent`). The cancel mode sleeps, asks for the cancel, and only then awaits the
promise (`SleepEnds`, `CancelReply`, `CancelFails`, `UnhandledRejection`). Only events and responses
are kept; a row that depends on a schema passes or fails (`shapes`, `proof`).

### AgentSdk

The server of the Python SDK with one action for each read or write of shared state, or
for each critical section of the helper's lock: `_execute_busy` is two reads, a response
three (thread, liveness, helper), and the `finally` block of the worker two writes. The
adapter is arbitrary, but calls the helper from its own thread and lets `AgentCancelled`
through.

### Lifecycle

From a command to the start of its run, for several callers (`agentctl discover`,
`preview`, `plan`, `run`, `run --approve` with interactions, the TUI) on one database.
Each await of a request to the agent is a value of `pc`. Synchronous code is cut where
something else can see or change the state: the three parts of a snapshot (repository of
the agent, source file, vault) are read one after the other, and each INSERT is committed
on its own. The environment changes the world (`Change`) and the manifest the agent
answers with (`Upgrade`). It is assumed that source file and vault never return to an earlier
state, as content hash and modification times do not; the repository can return to an earlier
HEAD. (The snapshot also says whether a file or directory exists: one that is missing, appears and is missing
again has returned, which the model excludes.)
`minted` and `entered` are history variables: the world when the token was made and when
`executePreparedWithControl` was last called.

## 4. The runs

| Run | Instance | What it shows |
|---|---|---|
| `events` | 2 runs, 2 sequence numbers, 4 event types, 2 rows | What an ingest has read is true when it inserts, whatever another process wrote in between (`JudgementStaysTrue`); the run row agrees with the log, replay order is acceptance order, a terminal event is last, also when a process ends between insert and close; processes do not touch each other's runs; `ImplementsRunLog`. |
| `execution` | 2 interactions, 2 calls of the user | The pending interaction has its row; an armed timer is its own; a response and a timeout have one winner and the table names it; the claim is released; outcomes are final; a terminal event leaves nothing behind. Under fairness: a run settles after the exit of the agent, a timed interaction ends. |
| `prompts` | 2 interactions, 4 calls, with and without terminal and response file | A loop that leaves an interaction to the timeout can rely on it; a loop gives up on a live interaction only if it cannot ask or another loop's attempt is under way; without a terminal the command does not answer for the timeout. |
| `tui` | 2 requests, 2 executions with 1 accepted interaction each, 2 answers, 1 cancel | An agent that runs is under control of the reference or has ended (`AgentIsUnderControl`); `busy` has something that ends it; the running screen shows an execution that is going on; "sending" has a call that ends it. |
| `reads` | 1 run, 1 interaction, 2 fields, 3 rows of this run or filed under its action, a reader | What is shown as ended has the event that ended it in its replay, and in its trace unless the agent filed it elsewhere; the events of the run in a trace begin the replay read after it; marked fields are stored as the sentinel, and the recorded paths are exactly those; the agent still gets what was entered, from user and from timeout. |
| `sdk` | 2 executes, 2 interactions | An acknowledged response is the one delivered, once; executes do not overlap; the helper is never busy for the next request; a cancel is not lost. Under fairness: acknowledgement and cancel wake the adapter. |
| `lifecycle` | 2 callers, 6 entry points, every kind of manifest, 4 changes of the world, 1 upgrade | `RunsInApprovedContext`, `OneRunPerApproval`, `RunHasTrail`, wherever the world changes and processes end. `ProbePlanningIsApproved`: while the manifest of the agent stays, no sequence of entry points brings a guarded probe command to the agent without the preview approval. |
| `conformance` | 114 combinations of flags, 5 definitions, 3 kinds of events, 2 interactions | A report that passes is true of its run (`PassedReportIsTrue`), although handlers take rejected events and a trace misses what is filed elsewhere; the one answer is not wasted; an agent that has ended its run cannot crash the harness before its report (`EndedRunIsReported`); no agent is left behind; nothing unapproved. With a fair event loop: it ends once the agent has gone. |
| `execution_failed_response`, `sdk_crash`, `prompts_late_answer`, `conformance_swallowed` | small | The departures of section 6: TLC finds the property violated. |

**Bounds.** *Events:* two processes are enough for one to come between the statements of
the other; the judgement of an ingest depends on two facts of its own run (last number,
terminal or not), two rows have both orders of them, and the proofs remove
the bound. `MaxRows` is the only one: no ingest starts in a full table. *Execution:* two
interactions, so that a timer, a claim or an answer of the first can meet the second, and
two calls of the user, so that they can meet each other and the timer; nothing else is
unbounded. *Prompts:* two loops for everything they share. *Tui:* a second submission and a second
execution can meet what the first left behind, a second answer the first; `MaxAsks` and `MaxCancels`
bound the interactions and cancels of an execution, and the proofs hold for all
values of them and any number of slots. *Reads:* three rows
are an interaction, an end, and something rejected, accepted or of another run beside them; one terminal type is
enough, since which status it gives is the matter of `EventStore`; the reader
reads once, at any moment; the constraint `ReaderOrRedaction` keeps two questions apart, what a reader sees and what a request
holds: a reader meets requests without marked fields and default only. `MaxEvents` and `MaxAsks` are the bounds, and the proofs
need neither them nor the constraint.
*SDK:* two executes for the old thread to meet the new, two interactions for
the helper to be used again. *Lifecycle:* callers share one thing, the manifest row,
so context and approval need one caller and the gate needs two. The constraint `WorldOrRivals` keeps
the two questions apart: a state in which the world has changed is explored if one caller is
at work, the TUI or agentctl, with a guarded probe or a static command. Four changes suffice for the
repository to change and return, and a file to change, between any readings of two snapshots
(files do not return, see section 3); `MaxChanges` and `MaxUpgrades` are the bounds, and the proofs hold for all values of them, without
the constraint. *Conformance:* the rows depend on which kinds of events there were, of which three are the two an
execution needs (a request and an end) and one that contradicts them; a second interaction is the one that is not
answered, and is made in the choice and timeout checks (`SecondRequest`), because in the others it would change no row; `Relevant` leaves out flags that make no difference to each other, and the module itself what the rows of a
mode cannot tell apart (`Leaks`, `Marks`, `Policies`). `MaxEvents` and `MaxAsks` are the bounds,
and the proofs need neither.

The type invariants are properties of no run: they are proved, for every module that has one (section 5).

**Deadlock** is not checked: these systems stop. Agents exit, processes end, calls return.

**Fairness.** Safety needs none. `Execution!FairSpec` has weak fairness of
continuations (the microtask queue is always drained) and strong fairness of the two
timers: an expired timer waits for the tasks before it, and cannot run while
continuations are queued, but the event loop returns to its timers. Nothing is assumed of
agent or user, so a run whose agent neither ends nor exits does not settle, and no
property says so. `AgentSdk!FairSpec` has weak fairness of the main thread once it has
read a request and of each SDK thread: the interpreter schedules both, and the wait in
`request` has a timeout of 50 ms. The adapter and the host owe nothing.
`Conformance!FairSpec` has weak fairness of the event loop: the sleep ends, a settled promise
continues, an unhandled rejection ends the process, and a cancel request fails once the agent has gone. The agent owes nothing,
so the harness may wait for ever for one that stays (it has no timeout of its own), and the property starts at the exit.
The other modules have no liveness: what they wait for is the agent or the
user. In the place of "`busy` ends", `Tui` has the safety property that something is under way that ends
it. Runs with liveness use no symmetry.

The passing run of the SDK excludes null responses (`Answers`), which are lost (section 6);
its liveness would fail with them.

## 5. The proofs

Each component has a module of proofs, `<Module>Proofs`, checked by tlapm to the last leaf. Every safety property of
a run is stated by a theorem, for all values of the constants that satisfy the named assumption of its module.

**Event store**, for any set of runs, sequence numbers and event types and any `MaxRows`.
Assumed of the constants: `RunsAssumption`, `SeqAssumption` (numbers are positive, which
is the minimum in the schema), `TypeAssumption`, `RowsAssumption`. None of the properties
is inductive: that accepted rows are ordered depends on what an ingest in progress has
read still being true. The inductive invariant is `IInv`: types, and for each run `RunOK`,
the conjunction of

* `LogInOrder`: accepted rows have increasing numbers, none after a terminal one,
* `StatusAgrees`: the run row against the accepted terminal row, with the gap between
  insert and close,
* `JudgementStands`: the row in hand is judged as it would be judged now,
* `LastSeqExists`, `CurFollowsPc`, `FreshRunIsEmpty`: shape.

The argument: an insert of another run leaves the accepted rows of this one alone, so all of
`RunOK` is kept; an insert of this run was judged on the current table, hence keeps the
order. From `IInv` follow `TypeCorrect`, `ReplayOrder`, `TerminalLast`, `StatusAgreement`,
`JudgementTrue`, the action property `ForeignIngests`, and `Refinement`: every
step of `EventStore` is a step of `RunLog` or changes nothing of it.

**Lifecycle**, for any callers, manifests and bounds (`LifecycleAssumption`).
`TypeCorrect` is inductive. `TrailKept` and `ApprovalSpentOnce` follow from an invariant that
says, for each `pc`, which tables have a row of the call: the approval key is free until the
insert of the approval, and that insert comes before the only insert of a run. `ContextHeld`
needs the order of five readings: for a part whose state never repeats, and so
only grows, the snapshot in the token is at most the world when the token was made, which is
at most the world when the execution was entered, which is at most the second snapshot. A
run starts only if first and second snapshot agree, and then all four agree.
`ProbesAreApproved` rests on `Previews`, which holds up to the first upgrade of the manifest: stored manifest and the one each
call has in hand are the agent's, and if it guards a probe command, a preview is asked for, and `prepareAction` goes
on, with the approval only.

**Execution**, for any interactions and any set of concurrent calls of the user (`CallsAssumption`: ids, calls and what
stands for null are different things). `PendingHasOpenRow` and `TimerBelongsToPending` are inductive together; the
other properties need three more parts of `IInv`:

* `Settlement`: a terminal event settles the promise unless it is settled, and a promise with a status comes from one,
  after which no interaction is accepted;
* `Deliveries`: a delivery names an interaction exactly from the moment its request is written, the row is decided
  from that moment, no two deliveries name one interaction, and a timer delivers for its own;
* `Claims`: a claim on a pending interaction is held by an attempt that has thrown, whose continuation is in the queue.

The steps are proved without the guards that say when the event loop takes them (`Step`), so that the invariant also holds
under callers that answer from their continuations. What a step does to the outcome is one of five things (`StepEffect`):
an interaction is accepted, a terminal event, the reply to `agent.execute`, one delivery, or nothing (`Idles`); each part of
the invariant goes through these five. From `IInv`: `PendingIsOpen`, `NoStaleTimer`, `CleanSettlement`, `SingleWinner`
(by cardinality of the deliveries of a row), `ClaimReleased`, `FinalOutcome`.

**InteractionCli**, for any number of interactions (`LoopCallsAssumption`: the user's calls are those of the loops; the run
gives `UserCalls` that value). `ExecutionStep`: a step of the composition is a step of `Execution` (`OwnStep`, `Responds`) or
leaves the execution aside, so that `IInv` holds under the loops too. `CInv` adds:

* `PendingIsArmed`: while the agent runs, a pending interaction with a policy has its timer. A timer that expires decides the interaction:
  the claim is free when a task runs (`Claims`), and the promise is open, since once it has settled the command goes on,
  and kills the agent, before the next task (`ReturnedIsClosed`);
* `LoopsFollowRows`, `OwnCalls`: a loop begins with its row, knows whether there is a policy, and answers its own interaction only;
* `WithoutTerminal`: at most one loop ever has a response to a request with a policy, the one that took the response file
  (`TakesStep`).

`DeferralIsSafe`, `TimeoutsAreTheRuntimes` and `GivingUpHasReason` follow; the last one needs `Deliveries`, by which an error
the agent reports always belongs to an interaction that is decided.

**AgentSdk**, for any executes, ids and answers (the assumptions of the module). `Threads`: the thread attribute names the execute that runs, up
to the first write of its `finally` block, and the main thread is past its check only while it names none; hence `SingleExecute`.
`Exchanges`: what the helper has pending is what its adapter waits for, and no two executes wait for one id; hence `NeverBusy`. `Outcomes`: what has become of
an id agrees with the number of acknowledged responses; hence `AckedOnce`, and `AckDelivered` if null is no answer: a null response is
acknowledged and never returned (section 6), which `Exchange` and `Outcome` allow for. That no request is acknowledged twice holds with null as well.
`CancelKept` is an action property: the flag is reset between executes only.

**ActionTrace**, for any run, fields and bounds. `Rows`: each row of the interactions table hides the marked fields of default and response, lists
as redacted exactly what it has lost, and its response is the redaction of what was sent; `Current`: the interaction the
runtime waits for is the last row. They give `MarkedIsRedacted`, `PathsAreExact` and `OriginalIsSent`. `Log`: one accepted event at most
of the run ends it, and the run row has its status afterwards. `Reads`: what was read begins the log, of the rows of the action
as of those of the run, and a run read as ended had its event before the events were read; the order of the statements of
`getActionTrace` is what makes it true, and gives `EndIsShown` and `ReplayExtendsTrace`, which say of both keys what
holds whatever the agents name.

**Tui**, for any requests, executions, answers and bounds (`TuiAssumption`), the properties of
the run and its types; `ScreenBacked` is `BusyEnds`, `RunningShowsExecution` and `SendingEndsWithAnswer` together. `TypeCorrect` is inductive; its parts have a lemma each (`RunsType`,
`TasksType`, ...). `UnderControl`: an execution becomes the reference in the step that opens it
(`ApproveStarts`); every other step that changes the reference closes what it held
(`ControlStep`, `ClosedIsClosed`), and no step opens a closed one (`StartedStays`).
`RunningShowsExecution` and `BusyEnds` need more than their properties: `approve` could start an
execution whose end has been dealt with. `NewIsOpen`, that one not started has not ended, excludes it
and is proved along (`NewStep`). Then every step either starts an execution, lowers the flag or
leaves the screen, or keeps what the property names; that `approve` deals with the end of *any*
execution in this way (its `finally` closes and resets whatever is there) is why the properties speak
of some execution and not of the one in the reference. `SendingEndsWithAnswer` is inductive given the types: the
lock is taken in the step that makes the call, and the step that ends a call releases it.

**Conformance**, for any inputs, definitions and bounds (`ConformanceAssumption`), its types and all its safety properties. Each rests on
`Where`: an agent executes only after the checks, the database is closed exactly with the report, and the agent is closed by then;
`AgentStep` and `ChecksStep` say once what the two sides leave alone. `AgentClosed` is a part of it. `NothingUnapproved` adds
what has been asked and approved at each check (`Cleared`). `Settled` is how a run is recorded: there is one terminal event, it settles
the promise, the promise succeeds only with its event, a promise that is rejected before anybody awaits it is that of a run
without one, and an accepted request is in the table. `EndedReported` follows: what crashes the harness before its report is a
repeated request, which no ended run accepts, or such a rejection (`EndedStep`). `ReportTrue`
is the longest: the status of the run row is that of the terminal event found (`StatusOfLog`); the row on the
acknowledgement is among those kept while the promise is awaited (`AckRowStep`); a report that passes comes from `Finish`
(`ReportStep`), where every row is a fact (`RowPassed`, `FinishIsTrue`); and after it nothing it speaks of changes, because the
database is closed and the promise has settled (`ReportedStays`). `AnswerGiven`: as long as there is no accepted request
there is an answer, and the first one takes it (`Answered`). `TypeCorrect` has `Answered` for the table and two
halves for the rest, the rows and what the agent leaves in the trace; every check goes on in one of three ways,
which is said once (`GoesOn`, `ChecksGoOn`, `GoingOn`).

**Only model-checked:** liveness (`ExitSettles` and `TimedInteractionEnds` of `Execution`, the wake-ups of `AgentSdk`, the end of
`Conformance`). Liveness under fairness and ENABLED are out of the prover's reach, and so is induction over data; the modules
declare no RECURSIVE operator, so that they can be proved about. The four properties that TLC finds violated (section 6) are
no theorems, of course.

## 6. Departures

What the repository says of the program and the code does not do. Those with a run:

| Run | Where | What |
|---|---|---|
| `execution_failed_response` | `runtime.ts:346` | a response is recorded, and the interaction closed, before the agent has taken it; after a refusal it can neither be repeated nor is the record undone |
| `sdk_crash` | `server.py:164`, `:52` | an attribute is checked and read again while the ending execute sets it to None: the server dies of an AttributeError |
| `prompts_late_answer` | `interaction-cli.ts:264` | an answer entered after the timeout of the interaction throws "No pending interaction", which ends a run that goes on (v1k: tolerate completion by the runtime) |
| `conformance_swallowed` | `run.ts:1129` | a check that throws (health, discover, a preview that fails, an unknown command) loses the rows of its function, the catch adds none, and the report passes: exit code 0 (v1c:36: non-zero when any check fails) |

The models also have these behaviours, without a run of their own:

* a second `interaction.required` replaces the pending one, whose row stays pending until the
  run settles (v1i: no multiple concurrent pending interactions);
* an `interaction.required` accepted after a reply without a terminal event has settled the promise
  leaves a pending row that nothing abandons (v1i: pending ones are abandoned when a run ends);
* a run whose agent crashes, or replies without a terminal event, keeps its row in status
  `running` (the ADR lists an agent crash under `action.failed`);
* a response of the user with `timed_out: true` is not validated (v1h: validate before sending);
* `cancel()` leaves the timer of the interaction armed (v1k:51);
* an ending execute of the SDK takes away the helper of the next one, which waits and cannot be
  answered (`server.py:118`); a null response is acknowledged and never returned (`interaction.py:62`);
* `run --approve` decides on the preview approval with one manifest and prepares with another
  (`run-approved.ts:41`), so an upgrade in between escapes the gate;
* a prompt loop whose interaction has been superseded, or was answered by a default the agent refuses,
  repeats without end (`interaction-cli.ts:267`; v1j: do not hang); a question asked while another is
  open is never resolved (v1j:39); a run that ends while a question is open ends the command with exit
  code 0 (v1j:57);
* in the TUI a rejected `interaction.required` is shown like an accepted one (`app.tsx:347`), and the reply to a
  response takes whatever card is shown off the screen (`app.tsx:405`): an interaction the agent waits for cannot be
  answered (v1h:66: render pending interactions as a card);
* in the TUI, an exception of `executePreparedWithControl` (the context has changed, or the bundle has
  been executed once already) is not caught and ends the process (`app.tsx:375`); Enter during a submission
  starts a second one, which closes the execution of the first when it ends; an execution that
  another screen has closed brings back the prepared screen when its promise is rejected,
  perhaps without a bundle;
* an `interaction.required` that is rejected is stored as it came, with its marked fields in the clear
  (`event-store.ts:127`; v1l:62 speaks of accepted ones only);
* the `action_id` of an event is never compared with the action of the run (`event-store.ts:64`), and the tables keep the
  one it came with: a trace may lack accepted events that its replay has, the one that ended the run among them, and
  may list those of another run (v1b:45 has the trace return the events of an action and its runs as one thing);
  a rejected event that names another action escapes the rows of the conformance harness on rejected events (`run.ts:739`, `:929`);
* history reads four times the limit of rows and filters them afterwards: older entries that match are
  not found (`action-read.ts:106`; not modelled);
* an agent that repeats an `interaction_id` ends the host process by an exception in the
  notification handler (`runtime.ts:276`), the conformance harness included, which then gives no report;
* the conformance harness: with a response that its request refuses it waits for ever, and the row
  `interaction.response_sent` would pass (v1h:63); `--cancel-after-ms` is ignored for probe and interactive commands
  (`run.ts:312`, v1f:60), and its mode checks neither schemas nor order of events (v1f:55); the checks of the timeout command take a rejected
  `action.failed` for the expected one (`run.ts:785`); an execute that fails during the sleep before the cancel, or
  along with the cancel, ends the process by an unhandled rejection (`run.ts:663`), as do late lines of a
  killed agent, which meet the closed database (`run.ts:1132`), and a command that cannot be spawned, instead of
  a failed row (v1c:40); a temporary root is not removed if the agent is not in the registry (`isolated-root.ts:29`);
* `plan` sends preview, validate and plan of a static command that requires preview approval
  without it (v1a asks for the approval first).

## 7. What is left out

Texts, payloads, hashes (taken as injective), random ids (taken as fresh), JSON schemas
(a message is valid or not) and rendering. Write errors of pipes, and outside `Conformance`
processes that cannot be spawned; kills that the agent ignores. Real time: a timer may fire whenever it
is armed. Several threads of one adapter. Of the conformance harness, the temporary directory, the paths to the
fake agent and the text of the report. Registry, protocol package, formatting and scripts keep no state that two steps share. What the adapter does is
nondeterministic, as is what the agent sends.

## 8. The plan

1. `EventStore`, `RunLog`, `Execution`, `AgentSdk`, `Lifecycle`, `InteractionCli`, `Tui`, `ActionTrace`, `Conformance`,
   and the proofs of their safety: done.
2. `Execution` as an implementation of an abstract promise that settles once, and of an abstract table
   in which an outcome is final.
3. `Transport`: requests, replies, the write side, exit and close; every request ends.
4. `Session`: `Execution` and `AgentSdk` composed over the two pipes, in place of the arbitrary
   agent and host; a response that one side has recorded is the one the other side returns.
5. The list of the history as an operator against the unlimited filter.
