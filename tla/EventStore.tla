------------------------------ MODULE EventStore ------------------------------
(***************************************************************************)
(* The runs and events tables of the local SQLite database and the one     *)
(* operation that writes agent events to them, EventStore.ingest.          *)
(*                                                                         *)
(* Every run is executed by one operating-system process (a terminal UI or *)
(* an agentctl command), and all of them share the database.  A statement  *)
(* is atomic, an ingest is not: it reads the last accepted sequence number *)
(* and the terminal flag, inserts one row and, for an accepted terminal    *)
(* event, updates the run, and other processes may write between these     *)
(* statements.  A process may also end between any two of them.            *)
(*                                                                         *)
(* The agent is not trusted: an event is malformed, or carries a timeout   *)
(* policy that is not usable, or names another run, repeats a sequence     *)
(* number or comes after the terminal event.                               *)
(***************************************************************************)
EXTENDS ActionEvents, Integers, Sequences, FiniteSets

CONSTANTS Runs,        \* run identifiers
          SeqNumbers,  \* the sequence numbers agents use
          EventTypes,  \* the event types agents use
          MaxRows      \* bound: no ingest starts once the table has this many rows

ASSUME RunsAssumption == "absent" \notin Runs
ASSUME SeqAssumption  == SeqNumbers \subseteq Nat \ {0}  \* the schema's minimum is 1
ASSUME TypeAssumption == EventTypes \subseteq AllTypes
ASSUME RowsAssumption == MaxRows \in Nat

VARIABLES status,   \* run -> runs.status, "none" before the row exists
          events,   \* the events table in the order of its AUTOINCREMENT id
          pc,       \* run -> where its process is
          cur       \* run -> the row of the ingest in progress

vars == <<status, events, pc, cur>>

Verdicts == {"accepted", "schema_invalid", "wrong_run", "stale_post_terminal", "duplicate_seq"}

\* Events as they arrive on stdout.  What the schema refuses keeps the run id and
\* the type when they are strings; its sequence number (0 here) is never compared.
Malformed  == [form : {"malformed"}, run : Runs \cup {"absent"},
               type : EventTypes, seq : {0}]
WellFormed == [form : {"ok"}, run : Runs, type : EventTypes, seq : SeqNumbers]
BadPolicy  == [form : {"bad_policy"}, run : Runs,
               type : EventTypes \cap {"interaction.required"}, seq : SeqNumbers]
RawEvents  == Malformed \cup WellFormed \cup BadPolicy

Rows == [run : Runs, type : EventTypes, seq : SeqNumbers \cup {0}, verdict : Verdicts]

NoRow == [run |-> "absent"]

-------------------------------------------------------------------------------
(* The queries of an ingest.                                               *)

\* WHERE run_id = ? AND accepted = 1
AcceptedRows(r) == {i \in DOMAIN events : /\ events[i].run = r
                                          /\ events[i].verdict = "accepted"}

\* MAX(seq) over the accepted rows, 0 when there is none.
LastAcceptedSeq(r) ==
    LET seqs == {events[i].seq : i \in AcceptedRows(r)}
    IN  CHOOSE m \in seqs \cup {0} : \A s \in seqs : s <= m

IsRunTerminal_FailureIsNot(r) ==
    \E i \in AcceptedRows(r) : events[i].type \in TerminalTypes \ {"action.failed"}

IsRunTerminal(r) == \E i \in AcceptedRows(r) : events[i].type \in TerminalTypes

-------------------------------------------------------------------------------
(* The judgement of one raw event, in the order of ingest's early returns. *)

WrongRun_Never(r, e) == FALSE
WrongRun(r, e) == e.run # r

NotNewer_Older(r, e) == e.seq < LastAcceptedSeq(r)
NotNewer(r, e) == e.seq <= LastAcceptedSeq(r)

\* No type of the event schema starts with "system.", so the exemption the code
\* gives such types after the terminal event never applies.
Verdict(r, e) ==
    IF e.form # "ok" THEN "schema_invalid"
    ELSE IF WrongRun(r, e) THEN "wrong_run"
    ELSE IF IsRunTerminal(r) THEN "stale_post_terminal"
    ELSE IF NotNewer(r, e) THEN "duplicate_seq"
    ELSE "accepted"

\* A malformed event without a run id is filed under the run that received it.
RowFor(r, e) == [run |-> IF e.run = "absent" THEN r ELSE e.run,
                 type |-> e.type, seq |-> e.seq, verdict |-> Verdict(r, e)]

-------------------------------------------------------------------------------
Init == /\ status = [r \in Runs |-> "none"]
        /\ events = <<>>
        /\ pc = [r \in Runs |-> "none"]
        /\ cur = [r \in Runs |-> NoRow]

\* A process inserts its run's row.
CreateRun(r) == /\ pc[r] = "none"
                /\ status' = [status EXCEPT ![r] = "running"]
                /\ pc' = [pc EXCEPT ![r] = "idle"]
                /\ UNCHANGED <<events, cur>>

\* ingest, up to its insert: validate, query, judge.  The two queries are one
\* step: both are about accepted rows of r, which no other process inserts
\* (property ForeignIngestsDoNotTouchRun).
Judge(r, e) == /\ pc[r] = "idle"
               /\ Len(events) < MaxRows
               /\ cur' = [cur EXCEPT ![r] = RowFor(r, e)]
               /\ pc' = [pc EXCEPT ![r] = "insert"]
               /\ UNCHANGED <<status, events>>

ClosesRun(row) == row.verdict = "accepted" /\ row.type \in TerminalTypes

Insert(r) == /\ pc[r] = "insert"
             /\ events' = Append(events, cur[r])
             /\ IF ClosesRun(cur[r])
                THEN /\ pc' = [pc EXCEPT ![r] = "close"]
                     /\ UNCHANGED cur
                ELSE /\ pc' = [pc EXCEPT ![r] = "idle"]
                     /\ cur' = [cur EXCEPT ![r] = NoRow]
             /\ UNCHANGED status

CloseRun_Failed(r) == /\ pc[r] = "close"
                      /\ status' = [status EXCEPT ![r] = "failed"]
                      /\ pc' = [pc EXCEPT ![r] = "idle"]
                      /\ cur' = [cur EXCEPT ![r] = NoRow]
                      /\ UNCHANGED events

CloseRun(r) == /\ pc[r] = "close"
               /\ status' = [status EXCEPT ![r] = StatusOf(cur[r].type)]
               /\ pc' = [pc EXCEPT ![r] = "idle"]
               /\ cur' = [cur EXCEPT ![r] = NoRow]
               /\ UNCHANGED events

\* The process ends, after its work or in the middle of it.
ProcessEnds(r) == /\ pc[r] \in {"idle", "insert", "close"}
                  /\ pc' = [pc EXCEPT ![r] = "ended"]
                  /\ cur' = [cur EXCEPT ![r] = NoRow]
                  /\ UNCHANGED <<status, events>>

Next == \E r \in Runs : \/ CreateRun(r)
                        \/ \E e \in RawEvents : Judge(r, e)
                        \/ Insert(r)
                        \/ CloseRun(r)
                        \/ ProcessEnds(r)

Spec == Init /\ [][Next]_vars

-------------------------------------------------------------------------------
(* Properties.                                                             *)

\* The tables and the program points of the processes have their types.
TypeOK == /\ status \in [Runs -> TerminalStatuses \cup {"none", "running"}]
          /\ events \in Seq(Rows)
          /\ pc \in [Runs -> {"none", "idle", "insert", "close", "ended"}]
          /\ cur \in [Runs -> Rows \cup {NoRow}]

\* Whatever the agents send and however processes interleave, the accepted rows
\* of a run have strictly increasing sequence numbers in insertion order, so the
\* order replay reads them in (by seq) is the order the runtime acted on them.
ReplayOrderIsAcceptanceOrder ==
    \A r \in Runs : \A i, j \in AcceptedRows(r) : i < j => events[i].seq < events[j].seq

\* A run has at most one accepted terminal event and nothing is accepted after
\* it ("after terminal state, only system.* events may be accepted").
TerminalEventIsLast ==
    \A r \in Runs : \A i, j \in AcceptedRows(r) :
        i < j => events[i].type \notin TerminalTypes

\* The status column agrees with the accepted terminal event: it names that
\* event, and it lags behind it only between the two statements of an ingest,
\* or for good when the process ended there.
StatusAgreesWithLog ==
    \A r \in Runs :
        /\ status[r] \in TerminalStatuses =>
               \E i \in AcceptedRows(r) : /\ events[i].type \in TerminalTypes
                                          /\ status[r] = StatusOf(events[i].type)
        /\ IsRunTerminal(r) /\ pc[r] \notin {"close", "ended"} => status[r] \in TerminalStatuses

\* A step of another run's process never changes what the accepted log of a run
\* says: the reads of an ingest are still true when its insert uses them.
ForeignIngestsDoNotTouchRun ==
    [][\A r \in Runs : (pc'[r] = pc[r]) => AcceptedRows(r)' = AcceptedRows(r)]_vars

\* An ingest acts on what it read before its insert.  Up to the insert the verdict
\* "accepted" stays right, although other processes write to the table meanwhile:
\* the row is the run's own, newer than every accepted row, and none is terminal.
JudgementStaysTrue ==
    \A r \in Runs : pc[r] = "insert" /\ cur[r].verdict = "accepted" =>
        /\ cur[r].run = r
        /\ \A i \in AcceptedRows(r) : /\ events[i].seq < cur[r].seq
                                      /\ events[i].type \notin TerminalTypes

\* The runs and events tables, read as replay reads them, implement RunLog.
acceptedLog == [r \in Runs |-> {[seq |-> events[i].seq, type |-> events[i].type] :
                                   i \in AcceptedRows(r)}]

RL == INSTANCE RunLog WITH log <- acceptedLog, outcome <- status

ImplementsRunLog == RL!Spec
===============================================================================
