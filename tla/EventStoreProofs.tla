--------------------------- MODULE EventStoreProofs ---------------------------
(***************************************************************************)
(* Proofs about EventStore, for any set of runs, any sequence numbers and  *)
(* any bound on the table.                                                 *)
(*                                                                         *)
(* The safety invariants are not inductive alone.  What an ingest is about *)
(* to insert must still deserve its verdict (JudgementStaysTrue); what it  *)
(* is about to close must be in the log; a run without a process has an    *)
(* empty log; and MAX(seq) must exist, which a CHOOSE over an arbitrary    *)
(* set does not give.                                                      *)
(***************************************************************************)
EXTENDS EventStore, TLAPS

AcceptedSeqs(r) == {events[i].seq : i \in AcceptedRows(r)}

\* The MAX(seq) query has an answer.
LastSeqExists(r) == \E m \in AcceptedSeqs(r) \cup {0} : \A s \in AcceptedSeqs(r) : s <= m

\* The row an ingest holds while it is between its statements.
CurFollowsPc(r) ==
    /\ pc[r] \in {"insert", "close"} => cur[r] \in Rows
    /\ pc[r] = "insert" /\ cur[r].verdict = "accepted" => cur[r].seq \in SeqNumbers
    /\ pc[r] = "close" => /\ cur[r].type \in TerminalTypes
                          /\ \E i \in AcceptedRows(r) : events[i].type = cur[r].type
                          /\ status[r] = "running"

FreshRunIsEmpty(r) == /\ pc[r] = "none" => AcceptedRows(r) = {}
                      /\ pc[r] = "none" <=> status[r] = "none"

\* The accepted rows of a run are ordered and only the last may be terminal.
LogInOrder(r) ==
    \A i, j \in AcceptedRows(r) :
        i < j => events[i].seq < events[j].seq /\ events[i].type \notin TerminalTypes

StatusAgrees(r) ==
    /\ status[r] \in TerminalStatuses =>
           \E i \in AcceptedRows(r) : /\ events[i].type \in TerminalTypes
                                      /\ status[r] = StatusOf(events[i].type)
    /\ IsRunTerminal(r) /\ pc[r] \notin {"close", "ended"} => status[r] \in TerminalStatuses

JudgementStands(r) ==
    pc[r] = "insert" /\ cur[r].verdict = "accepted" =>
        /\ cur[r].run = r
        /\ \A i \in AcceptedRows(r) : /\ events[i].seq < cur[r].seq
                                      /\ events[i].type \notin TerminalTypes

RunOK(r) == /\ LogInOrder(r)
            /\ StatusAgrees(r)
            /\ JudgementStands(r)
            /\ LastSeqExists(r)
            /\ CurFollowsPc(r)
            /\ FreshRunIsEmpty(r)

IInv == TypeOK /\ \A r \in Runs : RunOK(r)

-------------------------------------------------------------------------------
(* Lemmas about the queries and the insert.                                *)

\* Sequence numbers are natural numbers.
LEMMA SeqsAreNat == SeqNumbers \cup {0} \subseteq Nat
BY SeqAssumption

\* An accepted row is a row of the table; sequence numbers are natural numbers.
LEMMA RowType ==
    ASSUME TypeOK, NEW r, NEW i \in AcceptedRows(r)
    PROVE  /\ i \in 1..Len(events)
           /\ events[i] \in Rows
           /\ events[i].seq \in Nat
<1>1. events \in Seq(Rows) /\ i \in DOMAIN events
  BY DEF TypeOK, AcceptedRows
<1>2. i \in 1..Len(events) /\ events[i] \in Rows
  BY <1>1
<1>3. events[i].seq \in SeqNumbers \cup {0}
  BY <1>2 DEF Rows
<1> QED BY <1>2, <1>3, SeqsAreNat

\* LastAcceptedSeq bounds the sequence numbers of the accepted rows.
LEMMA LastSeqIsMax ==
    ASSUME NEW r, LastSeqExists(r)
    PROVE  \A i \in AcceptedRows(r) : events[i].seq <= LastAcceptedSeq(r)
<1> DEFINE S == AcceptedSeqs(r)
           IsMax(m) == \A s \in S : s <= m
<1>1. \E m \in S \cup {0} : IsMax(m)
  BY DEF LastSeqExists
<1>2. LastAcceptedSeq(r) = CHOOSE m \in S \cup {0} : IsMax(m)
  BY DEF LastAcceptedSeq, AcceptedSeqs
<1>3. IsMax(LastAcceptedSeq(r))
  <2> HIDE DEF S, IsMax
  <2> QED BY <1>1, <1>2
<1> QED BY <1>3 DEF AcceptedSeqs

\* The accepted rows after an insert: the new row joins those of its run when its
\* verdict is "accepted", and no row that was there changes.
LEMMA InsertEffect ==
    ASSUME TypeOK, NEW row \in Rows, events' = Append(events, row), NEW q
    PROVE  /\ AcceptedRows(q) \subseteq 1..Len(events)
           /\ \A i \in 1..Len(events) : events'[i] = events[i]
           /\ events'[Len(events) + 1] = row
           /\ row.run = q /\ row.verdict = "accepted" =>
                  AcceptedRows(q)' = AcceptedRows(q) \cup {Len(events) + 1}
           /\ ~ (row.run = q /\ row.verdict = "accepted") =>
                  AcceptedRows(q)' = AcceptedRows(q)
<1>1. events \in Seq(Rows) /\ Len(events) \in Nat
  BY DEF TypeOK
<1>2. DOMAIN events = 1..Len(events) /\ DOMAIN events' = 1..(Len(events) + 1)
  BY <1>1
<1>3. \A i \in 1..Len(events) : events'[i] = events[i]
  BY <1>1
<1>4. events'[Len(events) + 1] = row
  BY <1>1
<1>5. 1..(Len(events) + 1) = 1..Len(events) \cup {Len(events) + 1}
  BY <1>1
<1>6. Len(events) + 1 \notin 1..Len(events)
  BY <1>1
<1> QED BY <1>2, <1>3, <1>4, <1>5, <1>6 DEF AcceptedRows

\* The row built from a raw event is a row of the table.
LEMMA RowForType ==
    ASSUME NEW r \in Runs, NEW e \in RawEvents
    PROVE  /\ RowFor(r, e) \in Rows
           /\ RowFor(r, e).verdict = Verdict(r, e)
           /\ Verdict(r, e) = "accepted" => /\ e.run = r /\ RowFor(r, e).run = r
                                            /\ e.seq \in SeqNumbers
<1>1. Verdict(r, e) \in Verdicts
  BY DEF Verdict, Verdicts
<1>2. /\ e.run \in Runs \cup {"absent"}
      /\ e.type \in EventTypes
      /\ e.seq \in SeqNumbers \cup {0}
  BY DEF RawEvents, Malformed, WellFormed, BadPolicy
<1>3. Verdict(r, e) = "accepted" => e.run = r /\ e.form = "ok"
  BY DEF Verdict, WrongRun
<1>4. e.form = "ok" => e.seq \in SeqNumbers
  BY DEF RawEvents, Malformed, WellFormed, BadPolicy
<1> QED BY <1>1, <1>2, <1>3, <1>4, RunsAssumption DEF RowFor, Rows

\* An accepted verdict says that the event is newer than every accepted row of the
\* run and that none of them is terminal.
LEMMA AcceptedIsNew ==
    ASSUME TypeOK, NEW r \in Runs, NEW e \in RawEvents, LastSeqExists(r),
           Verdict(r, e) = "accepted"
    PROVE  \A i \in AcceptedRows(r) : /\ events[i].seq < e.seq
                                      /\ events[i].type \notin TerminalTypes
<1>1. ~ IsRunTerminal(r) /\ ~ NotNewer(r, e)
  BY DEF Verdict
<1>2. SUFFICES ASSUME NEW i \in AcceptedRows(r)
               PROVE  events[i].seq < e.seq
  BY <1>1 DEF IsRunTerminal
<1>3. events[i].seq <= LastAcceptedSeq(r)
  BY LastSeqIsMax
<1>4. /\ e.seq \in Nat
      /\ events[i].seq \in Nat
  <2>1. e.seq \in SeqNumbers \cup {0}
    BY DEF RawEvents, Malformed, WellFormed, BadPolicy
  <2> QED BY <2>1, RowType, SeqsAreNat
<1>5. LastAcceptedSeq(r) \in AcceptedSeqs(r) \cup {0}
  <2> DEFINE S == AcceptedSeqs(r)
             IsMax(m) == \A s \in S : s <= m
  <2>1. \E m \in S \cup {0} : IsMax(m)
    BY DEF LastSeqExists
  <2>2. LastAcceptedSeq(r) = CHOOSE m \in S \cup {0} : IsMax(m)
    BY DEF LastAcceptedSeq, AcceptedSeqs
  <2> HIDE DEF S, IsMax
  <2>3. LastAcceptedSeq(r) \in S \cup {0}
    BY <2>1, <2>2
  <2> QED BY <2>3 DEF S
<1>6. LastAcceptedSeq(r) \in Nat
  BY <1>5, RowType DEF AcceptedSeqs
<1> QED BY <1>1, <1>3, <1>4, <1>6 DEF NotNewer

-------------------------------------------------------------------------------
(* The invariant is inductive: one lemma per action.                       *)

\* A run whose own variables and accepted rows a step leaves alone stays correct.
LEMMA OtherRun ==
    ASSUME NEW q, RunOK(q),
           status'[q] = status[q], pc'[q] = pc[q], cur'[q] = cur[q],
           AcceptedRows(q)' = AcceptedRows(q),
           \A i \in AcceptedRows(q) : events'[i] = events[i]
    PROVE  RunOK(q)'
<1>1. LogInOrder(q)' BY DEF RunOK, LogInOrder
<1>2. IsRunTerminal(q)' = IsRunTerminal(q) BY DEF IsRunTerminal
<1>3. StatusAgrees(q)' BY <1>2 DEF RunOK, StatusAgrees
<1>4. JudgementStands(q)' BY DEF RunOK, JudgementStands
<1>5. AcceptedSeqs(q)' = AcceptedSeqs(q) BY DEF AcceptedSeqs
<1>6. LastSeqExists(q)' BY <1>5 DEF RunOK, LastSeqExists
<1>7. CurFollowsPc(q)' BY DEF RunOK, CurFollowsPc
<1>8. FreshRunIsEmpty(q)' BY DEF RunOK, FreshRunIsEmpty
<1> QED BY <1>1, <1>3, <1>4, <1>6, <1>7, <1>8 DEF RunOK

\* The same when the step leaves the whole events table alone.
LEMMA SameEvents ==
    ASSUME UNCHANGED events, NEW q
    PROVE  /\ AcceptedRows(q)' = AcceptedRows(q)
           /\ IsRunTerminal(q)' = IsRunTerminal(q)
           /\ LogInOrder(q)' = LogInOrder(q)
           /\ LastSeqExists(q)' = LastSeqExists(q)
           /\ \A i : events'[i] = events[i]
<1>1. AcceptedRows(q)' = AcceptedRows(q) /\ \A i : events'[i] = events[i]
  BY DEF AcceptedRows
<1> QED BY <1>1 DEF IsRunTerminal, LogInOrder, LastSeqExists, AcceptedSeqs

\* The empty tables satisfy the invariant.
LEMMA InitInv == Init => IInv
<1> SUFFICES ASSUME Init PROVE IInv
  OBVIOUS
<1>1. TypeOK
  BY DEF Init, TypeOK
<1>2. ASSUME NEW r \in Runs PROVE RunOK(r)
  <2>1. AcceptedRows(r) = {} /\ status[r] = "none" /\ pc[r] = "none"
    BY DEF Init, AcceptedRows
  <2>2. LastSeqExists(r)
    BY <2>1 DEF LastSeqExists, AcceptedSeqs
  <2>3. "none" \notin TerminalStatuses
    BY DEF TerminalStatuses
  <2> QED BY <2>1, <2>2, <2>3 DEF RunOK, LogInOrder, StatusAgrees, JudgementStands, CurFollowsPc,
                             FreshRunIsEmpty, IsRunTerminal
<1> QED BY <1>1, <1>2 DEF IInv

\* Creating a run keeps the invariant: its log is empty until then.
LEMMA CreateRunInv == ASSUME IInv, NEW r \in Runs, CreateRun(r) PROVE IInv'
<1> USE DEF IInv
<1>1. TypeOK'
  BY DEF TypeOK, CreateRun
<1>2. ASSUME NEW q \in Runs, q # r PROVE RunOK(q)'
  BY <1>2, OtherRun, SameEvents DEF CreateRun, TypeOK
<1>3. RunOK(r)'
  <2>1. /\ pc[r] = "none" /\ pc'[r] = "idle"
        /\ status'[r] = "running" /\ UNCHANGED events
    BY DEF CreateRun, TypeOK
  <2>2. AcceptedRows(r) = {} /\ AcceptedRows(r)' = {}
    BY <2>1, SameEvents DEF RunOK, FreshRunIsEmpty
  <2>3. LogInOrder(r)' /\ LastSeqExists(r)'
    BY <2>1, SameEvents DEF RunOK
  <2>4. "running" \notin TerminalStatuses
    BY DEF TerminalStatuses
  <2> QED BY <2>1, <2>2, <2>3, <2>4 DEF RunOK, StatusAgrees, JudgementStands, CurFollowsPc,
                                    FreshRunIsEmpty, IsRunTerminal
<1> QED BY <1>1, <1>2, <1>3

\* A judgement keeps the invariant: its queries justify the verdict it holds.
LEMMA JudgeInv == ASSUME IInv, NEW r \in Runs, NEW e \in RawEvents, Judge(r, e) PROVE IInv'
<1> USE DEF IInv
<1>1. TypeOK'
  BY RowForType DEF TypeOK, Judge
<1>2. ASSUME NEW q \in Runs, q # r PROVE RunOK(q)'
  BY <1>2, OtherRun, SameEvents DEF Judge, TypeOK
<1>3. RunOK(r)'
  <2>1. /\ pc[r] = "idle" /\ pc'[r] = "insert"
        /\ cur'[r] = RowFor(r, e) /\ UNCHANGED <<status, events>>
    BY DEF Judge, TypeOK
  <2>2. LogInOrder(r)' /\ LastSeqExists(r)'
    BY <2>1, SameEvents DEF RunOK
  <2>3. StatusAgrees(r)'
    BY <2>1, SameEvents DEF RunOK, StatusAgrees
  <2>4. JudgementStands(r)'
    <3>1. SUFFICES ASSUME cur'[r].verdict = "accepted"
                   PROVE  /\ cur'[r].run = r
                          /\ \A i \in AcceptedRows(r) : /\ events[i].seq < cur'[r].seq
                                                        /\ events[i].type \notin TerminalTypes
      BY <2>1, SameEvents DEF JudgementStands
    <3>2. Verdict(r, e) = "accepted"
      BY <2>1, <3>1, RowForType
    <3>3. cur'[r].run = r /\ cur'[r].seq = e.seq
      BY <2>1, <3>2, RowForType DEF RowFor
    <3> QED BY <3>2, <3>3, AcceptedIsNew DEF RunOK
  <2>5. CurFollowsPc(r)'
    <3>1. cur'[r].verdict = "accepted" => cur'[r].seq \in SeqNumbers
      BY <2>1, RowForType DEF RowFor
    <3> QED BY <2>1, <3>1, RowForType DEF CurFollowsPc
  <2>6. FreshRunIsEmpty(r)'
    BY <2>1 DEF RunOK, FreshRunIsEmpty
  <2> QED BY <2>2, <2>3, <2>4, <2>5, <2>6 DEF RunOK
<1> QED BY <1>1, <1>2, <1>3

\* The insert is the step that a stale judgement would spoil.
LEMMA InsertInv == ASSUME IInv, NEW r \in Runs, Insert(r) PROVE IInv'
<1> USE DEF IInv
<1> DEFINE n == Len(events) + 1
<1>1. /\ pc[r] = "insert" /\ events' = Append(events, cur[r]) /\ UNCHANGED status
      /\ cur[r] \in Rows
  BY DEF Insert, RunOK, CurFollowsPc
<1>2. /\ \A q : AcceptedRows(q) \subseteq 1..Len(events)
      /\ \A i \in 1..Len(events) : events'[i] = events[i] /\ i < n
      /\ events'[n] = cur[r]
      /\ \A q : IF cur[r].run = q /\ cur[r].verdict = "accepted"
                THEN AcceptedRows(q)' = AcceptedRows(q) \cup {n}
                ELSE AcceptedRows(q)' = AcceptedRows(q)
  <2>1. \A i \in 1..Len(events) : i < n
    BY DEF TypeOK
  <2> QED BY <1>1, <2>1, InsertEffect
<1>3. TypeOK'
  <2>1. events' \in Seq(Rows)
    BY <1>1 DEF TypeOK
  <2> QED BY <2>1 DEF TypeOK, Insert
<1>4. ASSUME NEW q \in Runs, q # r PROVE RunOK(q)'
  <2>1. cur[r].verdict = "accepted" => cur[r].run = r
    BY <1>1 DEF RunOK, JudgementStands
  <2>2. AcceptedRows(q)' = AcceptedRows(q)
    BY <1>2, <1>4, <2>1
  <2>3. \A i \in AcceptedRows(q) : events'[i] = events[i]
    BY <1>2
  <2>4. pc'[q] = pc[q] /\ cur'[q] = cur[q] /\ status'[q] = status[q]
    BY <1>4 DEF Insert, TypeOK
  <2> QED BY <2>2, <2>3, <2>4, OtherRun
<1>5. RunOK(r)'
  <2>1. CASE ~ (cur[r].verdict = "accepted")
    <3>1. /\ AcceptedRows(r)' = AcceptedRows(r)
          /\ \A i \in AcceptedRows(r) : events'[i] = events[i]
          /\ pc'[r] = "idle" /\ status'[r] = status[r]
      BY <1>1, <1>2, <2>1 DEF Insert, TypeOK, ClosesRun
    <3>2. LogInOrder(r)' /\ LastSeqExists(r)'
      <4>1. LogInOrder(r)'
        BY <3>1 DEF RunOK, LogInOrder
      <4>2. AcceptedSeqs(r)' = AcceptedSeqs(r)
        BY <3>1 DEF AcceptedSeqs
      <4>3. LastSeqExists(r)'
        BY <4>2 DEF RunOK, LastSeqExists
      <4> QED BY <4>1, <4>3
    <3>3. IsRunTerminal(r)' = IsRunTerminal(r)
      BY <3>1 DEF IsRunTerminal
    <3>4. StatusAgrees(r)'
      BY <1>1, <3>1, <3>3 DEF RunOK, StatusAgrees
    <3> QED BY <1>1, <3>1, <3>2, <3>4 DEF RunOK, JudgementStands, CurFollowsPc, FreshRunIsEmpty
  <2>2. CASE cur[r].verdict = "accepted"
    <3>1. /\ cur[r].run = r
          /\ \A i \in AcceptedRows(r) : /\ events[i].seq < cur[r].seq
                                        /\ events[i].type \notin TerminalTypes
      BY <1>1, <2>2 DEF RunOK, JudgementStands
    <3>2. /\ AcceptedRows(r)' = AcceptedRows(r) \cup {n}
          /\ \A i \in AcceptedRows(r) : events'[i] = events[i] /\ i < n
          /\ events'[n] = cur[r]
      BY <1>2, <2>2, <3>1
    <3>3. \A i \in AcceptedRows(r)' : /\ i < n => i \in AcceptedRows(r)
                                      /\ ~ (n < i)
      BY <3>2, <1>2 DEF TypeOK
    <3>4. LogInOrder(r)'
      <4>1. SUFFICES ASSUME NEW i \in AcceptedRows(r)', NEW j \in AcceptedRows(r)', i < j
                     PROVE  events'[i].seq < events'[j].seq /\ events'[i].type \notin TerminalTypes
        BY DEF LogInOrder
      <4>2. i \in AcceptedRows(r)
        BY <3>2, <3>3, <4>1
      <4>3. CASE j = n
        BY <3>1, <3>2, <4>2, <4>3
      <4>4. CASE j \in AcceptedRows(r)
        BY <3>2, <4>1, <4>2, <4>4 DEF RunOK, LogInOrder
      <4> QED BY <3>2, <4>3, <4>4
    <3>5. LastSeqExists(r)'
      <4>1. cur[r].seq \in AcceptedSeqs(r)'
        BY <3>2 DEF AcceptedSeqs
      <4>2. cur[r].seq \in Nat
        BY <1>1, SeqsAreNat DEF Rows
      <4>3. \A i \in AcceptedRows(r) : events[i].seq \in Nat
        BY RowType
      <4>4. \A s \in AcceptedSeqs(r)' : s <= cur[r].seq
        <5>1. SUFFICES ASSUME NEW i \in AcceptedRows(r)' PROVE events'[i].seq <= cur[r].seq
          BY DEF AcceptedSeqs
        <5>2. CASE i = n
          BY <3>2, <4>2, <5>2
        <5>3. CASE i \in AcceptedRows(r)
          BY <3>1, <3>2, <4>2, <4>3, <5>3
        <5> QED BY <3>2, <5>1, <5>2, <5>3
      <4> QED BY <4>1, <4>4 DEF LastSeqExists
    <3>6. StatusAgrees(r)' /\ CurFollowsPc(r)'
      <4>1. /\ ~ IsRunTerminal(r) /\ status[r] \notin TerminalStatuses
            /\ status[r] = "running"
        <5>1. ~ IsRunTerminal(r)
          BY <3>1 DEF IsRunTerminal
        <5>2. status[r] \notin TerminalStatuses
          BY <5>1 DEF IsRunTerminal, RunOK, StatusAgrees
        <5>3. status[r] # "none"
          BY <1>1 DEF RunOK, FreshRunIsEmpty
        <5> QED BY <5>1, <5>2, <5>3 DEF TypeOK
      <4>2. CASE cur[r].type \in TerminalTypes
        <5>1. pc'[r] = "close" /\ cur'[r] = cur[r] /\ status'[r] = status[r]
          BY <2>2, <4>2 DEF Insert, TypeOK, ClosesRun
        <5>2. \E i \in AcceptedRows(r)' : events'[i].type = cur[r].type
          BY <3>2
        <5> QED BY <1>1, <4>1, <4>2, <5>1, <5>2 DEF StatusAgrees, CurFollowsPc
      <4>3. CASE cur[r].type \notin TerminalTypes
        <5>1. pc'[r] = "idle" /\ status'[r] = status[r]
          BY <4>3 DEF Insert, TypeOK, ClosesRun
        <5>2. ~ IsRunTerminal(r)'
          BY <3>1, <3>2, <4>3 DEF IsRunTerminal
        <5> QED BY <4>1, <5>1, <5>2 DEF StatusAgrees, CurFollowsPc
      <4> QED BY <4>2, <4>3
    <3>7. pc'[r] \in {"idle", "close"} /\ status'[r] # "none"
      BY <1>1 DEF Insert, TypeOK, RunOK, FreshRunIsEmpty
    <3> QED BY <3>4, <3>5, <3>6, <3>7 DEF RunOK, JudgementStands, FreshRunIsEmpty
  <2> QED BY <2>1, <2>2
<1> QED BY <1>3, <1>4, <1>5

\* Closing a run keeps the invariant: the status it writes is that of a logged event.
LEMMA CloseRunInv == ASSUME IInv, NEW r \in Runs, CloseRun(r) PROVE IInv'
<1> USE DEF IInv
<1>1. /\ pc[r] = "close" /\ pc'[r] = "idle"
      /\ status'[r] = StatusOf(cur[r].type) /\ UNCHANGED events
  BY DEF CloseRun, TypeOK
<1>2. /\ cur[r].type \in TerminalTypes
      /\ \E i \in AcceptedRows(r) : events[i].type = cur[r].type
  BY <1>1 DEF RunOK, CurFollowsPc
<1>3. StatusOf(cur[r].type) \in TerminalStatuses /\ StatusOf(cur[r].type) # "none"
  BY <1>2 DEF StatusOf, TerminalStatuses
<1>4. TypeOK'
  BY <1>3 DEF TypeOK, CloseRun
<1>5. ASSUME NEW q \in Runs, q # r PROVE RunOK(q)'
  BY <1>5, OtherRun, SameEvents DEF CloseRun, TypeOK
<1>6. RunOK(r)'
  <2>1. LogInOrder(r)' /\ LastSeqExists(r)'
    BY <1>1, SameEvents DEF RunOK
  <2>2. StatusAgrees(r)'
    BY <1>1, <1>2, <1>3, SameEvents DEF StatusAgrees
  <2> QED BY <1>1, <1>3, <2>1, <2>2 DEF RunOK, JudgementStands, CurFollowsPc, FreshRunIsEmpty
<1> QED BY <1>4, <1>5, <1>6

\* A process may end anywhere: what is written stays consistent.
LEMMA ProcessEndsInv == ASSUME IInv, NEW r \in Runs, ProcessEnds(r) PROVE IInv'
<1> USE DEF IInv
<1>1. pc[r] # "none" /\ pc'[r] = "ended" /\ UNCHANGED <<status, events>>
  BY DEF ProcessEnds, TypeOK
<1>2. TypeOK'
  BY DEF TypeOK, ProcessEnds
<1>3. ASSUME NEW q \in Runs, q # r PROVE RunOK(q)'
  BY <1>3, OtherRun, SameEvents DEF ProcessEnds, TypeOK
<1>4. RunOK(r)'
  <2>1. LogInOrder(r)' /\ LastSeqExists(r)'
    BY <1>1, SameEvents DEF RunOK
  <2>2. StatusAgrees(r)'
    BY <1>1, SameEvents DEF RunOK, StatusAgrees
  <2> QED BY <1>1, <2>1, <2>2 DEF RunOK, JudgementStands, CurFollowsPc, FreshRunIsEmpty
<1> QED BY <1>2, <1>3, <1>4

\* Stuttering keeps the invariant.
LEMMA StutterInv == ASSUME IInv, UNCHANGED vars PROVE IInv'
<1> USE DEF IInv
<1>1. TypeOK'
  BY DEF TypeOK, vars
<1>2. ASSUME NEW q \in Runs PROVE RunOK(q)'
  BY OtherRun, SameEvents DEF vars
<1> QED BY <1>1, <1>2

\* Every step keeps the invariant.
LEMMA NextInv == IInv /\ [Next]_vars => IInv'
<1> SUFFICES ASSUME IInv, [Next]_vars PROVE IInv'
  OBVIOUS
<1>1. ASSUME NEW r \in Runs, CreateRun(r) PROVE IInv'
  BY <1>1, CreateRunInv
<1>2. ASSUME NEW r \in Runs, NEW e \in RawEvents, Judge(r, e) PROVE IInv'
  BY <1>2, JudgeInv
<1>3. ASSUME NEW r \in Runs, Insert(r) PROVE IInv'
  BY <1>3, InsertInv
<1>4. ASSUME NEW r \in Runs, CloseRun(r) PROVE IInv'
  BY <1>4, CloseRunInv
<1>5. ASSUME NEW r \in Runs, ProcessEnds(r) PROVE IInv'
  BY <1>5, ProcessEndsInv
<1>6. CASE UNCHANGED vars
  BY <1>6, StutterInv
<1> QED BY <1>1, <1>2, <1>3, <1>4, <1>5, <1>6 DEF Next

-------------------------------------------------------------------------------
(* Theorems of the specification.                                          *)

\* The inductive invariant holds in every reachable state.
THEOREM Invariance == Spec => []IInv
BY InitInv, NextInv, PTL DEF Spec

\* Type correctness of the runs and events tables and of every ingest.
THEOREM TypeCorrect == Spec => []TypeOK
<1>1. IInv => TypeOK
  BY DEF IInv
<1> QED BY <1>1, Invariance, PTL

\* However processes and agents behave, replay reads a run's accepted events in the
\* order in which ingest accepted them.
THEOREM ReplayOrder == Spec => []ReplayOrderIsAcceptanceOrder
<1>1. IInv => ReplayOrderIsAcceptanceOrder
  BY DEF IInv, RunOK, LogInOrder, ReplayOrderIsAcceptanceOrder
<1> QED BY <1>1, Invariance, PTL

\* At most one terminal event per run is accepted, and it is the last.
THEOREM TerminalLast == Spec => []TerminalEventIsLast
<1>1. IInv => TerminalEventIsLast
  BY DEF IInv, RunOK, LogInOrder, TerminalEventIsLast
<1> QED BY <1>1, Invariance, PTL

\* The status column and the accepted terminal event agree, but for an ingest that
\* is between its two writes or was cut there.
THEOREM StatusAgreement == Spec => []StatusAgreesWithLog
<1>1. IInv => StatusAgreesWithLog
  BY DEF IInv, RunOK, StatusAgrees, StatusAgreesWithLog
<1> QED BY <1>1, Invariance, PTL

\* The check an ingest makes before its insert is not overtaken by other processes.
THEOREM JudgementTrue == Spec => []JudgementStaysTrue
<1>1. IInv => JudgementStaysTrue
  BY DEF IInv, RunOK, JudgementStands, JudgementStaysTrue
<1> QED BY <1>1, Invariance, PTL

\* Only a run's own process changes its accepted rows.
THEOREM ForeignIngests == Spec => ForeignIngestsDoNotTouchRun
<1> DEFINE A == \A r \in Runs : (pc'[r] = pc[r]) => AcceptedRows(r)' = AcceptedRows(r)
<1>1. IInv /\ [Next]_vars => [A]_vars
  <2> SUFFICES ASSUME IInv, Next, NEW q \in Runs, pc'[q] = pc[q]
               PROVE  AcceptedRows(q)' = AcceptedRows(q)
    OBVIOUS
  <2>1. ASSUME UNCHANGED events PROVE AcceptedRows(q)' = AcceptedRows(q)
    BY <2>1, SameEvents
  <2>2. ASSUME NEW r \in Runs, Insert(r) PROVE AcceptedRows(q)' = AcceptedRows(q)
    <3>1. /\ pc[r] = "insert" /\ pc'[r] # "insert" /\ events' = Append(events, cur[r])
      BY <2>2 DEF Insert, IInv, TypeOK
    <3>2. q # r
      BY <3>1
    <3>3. cur[r] \in Rows /\ (cur[r].verdict = "accepted" => cur[r].run = r)
      BY <3>1 DEF IInv, RunOK, CurFollowsPc, JudgementStands
    <3> QED BY <3>1, <3>2, <3>3, InsertEffect DEF IInv
  <2> QED BY <2>1, <2>2 DEF Next, CreateRun, Judge, CloseRun, ProcessEnds
<1>2. [][A]_vars => ForeignIngestsDoNotTouchRun
  BY PTL DEF ForeignIngestsDoNotTouchRun
<1> QED BY <1>1, <1>2, Invariance, PTL DEF Spec

-------------------------------------------------------------------------------
(* The tables implement RunLog.                                            *)

\* RunLog's copy of the event vocabulary is EventStore's.
LEMMA SameVocabulary == /\ RL!TerminalTypes = TerminalTypes
                        /\ RL!AllTypes = AllTypes
                        /\ \A t : RL!StatusOf(t) = StatusOf(t)
BY DEF RL!TerminalTypes, TerminalTypes, RL!AllTypes, AllTypes, RL!StatusOf, StatusOf

\* An insert is an accept of the abstract log, or a stutter.
LEMMA InsertRefines == ASSUME IInv, NEW r \in Runs, Insert(r)
                       PROVE  \/ \E e \in [seq : SeqNumbers, type : AllTypes] : RL!Accept(r, e)
                              \/ UNCHANGED <<acceptedLog, status>>
<1> DEFINE n == Len(events) + 1
           e == [seq |-> cur[r].seq, type |-> cur[r].type]
           Image(q) == {[seq |-> events[i].seq, type |-> events[i].type] : i \in AcceptedRows(q)}
<1>1. /\ pc[r] = "insert" /\ events' = Append(events, cur[r]) /\ UNCHANGED status
      /\ cur[r] \in Rows /\ (cur[r].verdict = "accepted" => cur[r].run = r)
  BY DEF Insert, IInv, RunOK, CurFollowsPc, JudgementStands
<1>2. /\ \A q : AcceptedRows(q) \subseteq 1..Len(events)
      /\ \A i \in 1..Len(events) : events'[i] = events[i]
      /\ events'[n] = cur[r]
      /\ \A q : IF cur[r].run = q /\ cur[r].verdict = "accepted"
                THEN AcceptedRows(q)' = AcceptedRows(q) \cup {n}
                ELSE AcceptedRows(q)' = AcceptedRows(q)
  BY <1>1, InsertEffect DEF IInv
<1>3. ASSUME NEW q, AcceptedRows(q)' = AcceptedRows(q) PROVE Image(q)' = Image(q)
  BY <1>2, <1>3
<1>4. CASE cur[r].verdict # "accepted"
  <2>1. acceptedLog' = acceptedLog
    BY <1>2, <1>3, <1>4 DEF acceptedLog
  <2> QED BY <1>1, <2>1
<1>5. CASE cur[r].verdict = "accepted"
  <2>1. Image(r)' = Image(r) \cup {e}
    BY <1>1, <1>2, <1>5
  <2>2. \A q \in Runs : q # r => Image(q)' = Image(q)
    BY <1>1, <1>2, <1>3, <1>5
  <2>3. acceptedLog' = [acceptedLog EXCEPT ![r] = @ \cup {e}]
    BY <2>1, <2>2 DEF acceptedLog
  <2>4. /\ \A i \in AcceptedRows(r) : /\ events[i].seq < cur[r].seq
                                      /\ events[i].type \notin TerminalTypes
        /\ cur[r].seq \in SeqNumbers /\ status[r] # "none"
    BY <1>1, <1>5 DEF IInv, RunOK, JudgementStands, CurFollowsPc, FreshRunIsEmpty
  <2>5. status[r] = "running"
    <3>1. status[r] \notin TerminalStatuses
      BY <2>4 DEF IInv, RunOK, StatusAgrees
    <3> QED BY <2>4, <3>1 DEF IInv, TypeOK
  <2>6. acceptedLog[r] = Image(r)
    BY DEF acceptedLog
  <2>7. /\ ~ RL!Terminated(r)
        /\ \A f \in acceptedLog[r] : f.seq < e.seq
    BY <2>4, <2>6, SameVocabulary DEF RL!Terminated
  <2>8. e \in [seq : SeqNumbers, type : AllTypes]
    BY <1>1, <2>4, TypeAssumption DEF Rows
  <2> QED BY <1>1, <2>3, <2>5, <2>7, <2>8 DEF RL!Accept
<1> QED BY <1>4, <1>5

\* Read as replay reads them, the tables are a RunLog: every step of an ingest is a
\* step of the abstract log or leaves it as it was.
THEOREM Refinement == Spec => ImplementsRunLog
<1>1. Init => RL!Init
  BY DEF Init, RL!Init, acceptedLog, AcceptedRows
<1>2. IInv /\ [Next]_vars => [RL!Next]_(RL!vars)
  <2> SUFFICES ASSUME IInv, [Next]_vars PROVE RL!Next \/ UNCHANGED <<acceptedLog, status>>
    BY DEF RL!vars
  <2>1. ASSUME UNCHANGED events PROVE acceptedLog' = acceptedLog
    BY <2>1, SameEvents DEF acceptedLog
  <2>2. ASSUME NEW r \in Runs, CreateRun(r) PROVE RL!Open(r)
    BY <2>1, <2>2 DEF CreateRun, RL!Open, IInv, RunOK, FreshRunIsEmpty
  <2>3. ASSUME NEW r \in Runs, CloseRun(r) PROVE RL!Close(r)
    <3>1. /\ pc[r] = "close" /\ status' = [status EXCEPT ![r] = StatusOf(cur[r].type)]
          /\ UNCHANGED events
      BY <2>3 DEF CloseRun
    <3>2. /\ status[r] = "running" /\ cur[r].type \in TerminalTypes
          /\ \E i \in AcceptedRows(r) : events[i].type = cur[r].type
      BY <3>1 DEF IInv, RunOK, CurFollowsPc
    <3>3. PICK e \in acceptedLog[r] : e.type = cur[r].type
      <4>1. PICK i \in AcceptedRows(r) : events[i].type = cur[r].type
        BY <3>2
      <4>2. [seq |-> events[i].seq, type |-> events[i].type] \in acceptedLog[r]
        BY DEF acceptedLog
      <4> QED BY <4>1, <4>2
    <3>4. acceptedLog' = acceptedLog
      BY <2>1, <3>1
    <3>5. status' = [status EXCEPT ![r] = RL!StatusOf(e.type)]
      BY <3>1, <3>3, SameVocabulary
    <3>6. e.type \in RL!TerminalTypes
      BY <3>2, <3>3, SameVocabulary
    <3> QED BY <3>2, <3>4, <3>5, <3>6 DEF RL!Close
  <2>4. ASSUME NEW r \in Runs, NEW e \in RawEvents, Judge(r, e)
        PROVE  UNCHANGED <<acceptedLog, status>>
    BY <2>1, <2>4 DEF Judge
  <2>5. ASSUME NEW r \in Runs, ProcessEnds(r) PROVE UNCHANGED <<acceptedLog, status>>
    BY <2>1, <2>5 DEF ProcessEnds
  <2>6. ASSUME UNCHANGED vars PROVE UNCHANGED <<acceptedLog, status>>
    BY <2>1, <2>6 DEF vars
  <2> QED BY <2>2, <2>3, <2>4, <2>5, <2>6, InsertRefines, SameVocabulary DEF Next, RL!Next
<1> QED BY <1>1, <1>2, Invariance, PTL DEF Spec, ImplementsRunLog, RL!Spec
===============================================================================
