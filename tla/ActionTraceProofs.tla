--------------------------- MODULE ActionTraceProofs ---------------------------
(* The record of an action for any set of fields, any number of events and of    *)
(* interactions, and a process that ends anywhere.                               *)
EXTENDS ActionTrace, SequenceTheorems, TLAPS

-------------------------------------------------------------------------------
(* Redaction.                                                                    *)

(* The fields of a form are a function on some of the schema's fields.           *)
Contents(C) == UNION {[S -> C] : S \in SUBSET Fields}

LEMMA ContentsDef ==
  ASSUME NEW C, NEW f
  PROVE  f \in Contents(C) <=> /\ f = [k \in DOMAIN f |-> f[k]]
                               /\ DOMAIN f \subseteq Fields
                               /\ \A k \in DOMAIN f : f[k] \in C
  <1>1. ASSUME f \in Contents(C)
        PROVE  /\ f = [k \in DOMAIN f |-> f[k]]
               /\ DOMAIN f \subseteq Fields
               /\ \A k \in DOMAIN f : f[k] \in C
    <2>1. PICK S \in SUBSET Fields : f \in [S -> C]
      BY <1>1 DEF Contents
    <2> QED BY <2>1
  <1>2. ASSUME f = [k \in DOMAIN f |-> f[k]], DOMAIN f \subseteq Fields,
               \A k \in DOMAIN f : f[k] \in C
        PROVE  f \in Contents(C)
    <2>1. f \in [DOMAIN f -> C]
      BY <1>2
    <2> QED BY <1>2, <2>1 DEF Contents
  <1> QED BY <1>1, <1>2

(* The empty form has no field.                                                  *)
LEMMA EmptyForm ==
  /\ DOMAIN <<>> = {}
  /\ \A g : DOMAIN g = {} /\ g = [k \in DOMAIN g |-> g[k]] => g = <<>>
  /\ \A C : <<>> \in Contents(C)
  <1>1. DOMAIN <<>> = {}
    OBVIOUS
  <1>2. ASSUME NEW g, DOMAIN g = {}, g = [k \in DOMAIN g |-> g[k]]
        PROVE  g = <<>>
    BY <1>1, <1>2
  <1>3. ASSUME NEW C PROVE <<>> \in Contents(C)
    <2> DEFINE g == [k \in {} |-> 0]
    <2>1. g \in [{} -> C]
      OBVIOUS
    <2>2. DOMAIN g = {} /\ g = [k \in DOMAIN g |-> g[k]]
      OBVIOUS
    <2>3. g = <<>>
      BY <1>2, <2>2
    <2>4. g \in Contents(C)
      BY <2>1 DEF Contents
    <2> QED BY <2>3, <2>4
  <1> QED BY <1>1, <1>2, <1>3

(* The paths of marked fields are replaced, others are kept, and with them the   *)
(* shape of the value.                                                           *)
LEMMA StoredParts ==
  ASSUME NEW v \in Stored
  PROVE  /\ v = [form |-> v.form, at |-> v.at]
         /\ v.form \in {"nothing", "choice", "object"}
         /\ v.at \in Contents({"original", REDACTED_SENTINEL})
         /\ v.form # "object" => v.at = <<>>
  <1>1. <<>> \in Contents({"original", REDACTED_SENTINEL})
    BY EmptyForm
  <1>2. CASE v \in {Nothing, Choice}
    BY <1>1, <1>2 DEF Nothing, Choice
  <1>3. CASE v \in Object({"original", REDACTED_SENTINEL})
    <2>1. PICK f \in Contents({"original", REDACTED_SENTINEL}) : v = [form |-> "object", at |-> f]
      BY <1>3 DEF Object, Contents
    <2> QED BY <2>1
  <1> QED BY <1>2, <1>3 DEF Stored

LEMMA RedactFacts ==
  ASSUME NEW v \in Stored, NEW p \in SUBSET Fields
  PROVE  /\ redactObjectByPaths(v, p) \in Stored
         /\ redactObjectByPaths(v, p).form = v.form
         /\ DOMAIN redactObjectByPaths(v, p).at = DOMAIN v.at
         /\ \A k \in DOMAIN v.at :
               redactObjectByPaths(v, p).at[k] = IF k \in p THEN REDACTED_SENTINEL ELSE v.at[k]
         /\ DOMAIN v.at \subseteq Fields
  <1> DEFINE g == [k \in DOMAIN v.at |-> IF k \in p THEN REDACTED_SENTINEL ELSE v.at[k]]
             r == redactObjectByPaths(v, p)
  <1>1. /\ v = [form |-> v.form, at |-> v.at]
        /\ v.form \in {"nothing", "choice", "object"}
        /\ DOMAIN v.at \subseteq Fields
        /\ \A k \in DOMAIN v.at : v.at[k] \in {"original", REDACTED_SENTINEL}
        /\ v.form # "object" => v.at = <<>>
    BY StoredParts, ContentsDef
  <1>2. r = [v EXCEPT !.at = g]
    BY DEF redactObjectByPaths
  <1>3. r = [form |-> v.form, at |-> g]
    BY <1>1, <1>2
  <1>4. g \in Contents({"original", REDACTED_SENTINEL})
    BY <1>1, ContentsDef
  <1>5. CASE v.form = "object"
    <2>1. r \in Object({"original", REDACTED_SENTINEL})
      BY <1>3, <1>4, <1>5 DEF Object, Contents
    <2> QED BY <1>1, <1>3, <2>1 DEF Stored
  <1>6. CASE v.form # "object"
    <2>1. g = <<>>
      BY <1>1, <1>6, EmptyForm
    <2>2. r = v
      BY <1>1, <1>3, <1>6, <2>1
    <2> QED BY <1>1, <1>3, <1>6, <2>1, <2>2
  <1> QED BY <1>5, <1>6

(* What is entered is stored as it is unless it is redacted.                     *)
LEMMA EnteredFacts ==
  ASSUME NEW v \in Entered \cup {Nothing}
  PROVE  v \in Stored /\ \A k \in DOMAIN v.at : v.at[k] = "original"
  <1>1. CASE v \in {Nothing, Choice}
    BY <1>1, EmptyForm DEF Stored, Nothing, Choice
  <1>2. CASE v \in Object({"original"})
    <2>1. PICK f \in Contents({"original"}) : v = [form |-> "object", at |-> f]
      BY <1>2 DEF Object, Contents
    <2>2. f \in Contents({"original", REDACTED_SENTINEL}) /\ \A k \in DOMAIN f : f[k] = "original"
      BY <2>1, ContentsDef
    <2> QED BY <2>1, <2>2 DEF Stored, Object, Contents
  <1> QED BY <1>1, <1>2 DEF Entered

LEMMA ControlFacts == Control \in Entered /\ Nothing.at = <<>> /\ Nothing \in Stored
  <1>1. <<>> \in Contents({"original"})
    BY EmptyForm
  <1>2. Control \in Object({"original"})
    <2>1. Control = [form |-> "object", at |-> <<>>]
      BY DEF Control
    <2> QED BY <1>1, <2>1 DEF Object, Contents
  <1> QED BY <1>2 DEF Entered, Nothing, Stored

-------------------------------------------------------------------------------
(* Types.                                                                        *)

Statuses       == {"none", "running"} \cup TerminalStatuses
EventRow       == [accepted : BOOLEAN, type : AllTypes, request : RequestType \cup {NoRequest},
                   ours : BOOLEAN, filed : BOOLEAN]
InteractionRow == [request : RequestType, response : Stored, redacted : SUBSET Fields,
                   status : {"pending", "responded", "timed_out", "abandoned"}]
ViewType       == [op : {"none", "trace", "entry"}, status : Statuses,
                   accepted : SUBSET Nat, timeline : SUBSET Nat]

(* The types of TypeOK, with the tables as sequences.                            *)
TypeInv == /\ pc \in {"before", "open", "ask", "settle", "over"} \cup TerminalTypes
           /\ status \in Statuses
           /\ events \in Seq(EventRow)
           /\ interactions \in Seq(InteractionRow)
           /\ asked \in Requests \cup {NoRequest}
           /\ sent \in Seq(Entered \cup {Nothing})
           /\ Len(sent) = Len(interactions)
           /\ settled \in BOOLEAN
           /\ reading \in {"none", "events", "latest", "timeline", "done"}
           /\ view \in ViewType

LEMMA TypeInvImplies == TypeInv => TypeOK
  <1> SUFFICES ASSUME TypeInv PROVE TypeOK
    OBVIOUS
  <1>1. view.status \in {"none", "running"} \cup TerminalStatuses
    BY DEF TypeInv, ViewType, Statuses
  <1>2. \A i \in DOMAIN events : events[i] \in EventRow
    BY DEF TypeInv
  <1>3. \A i \in DOMAIN interactions : interactions[i] \in InteractionRow
    BY DEF TypeInv
  <1>4. \A i \in DOMAIN sent : sent[i] \in Entered \cup {Nothing}
    <2>1. sent \in Seq(Entered \cup {Nothing})
      BY DEF TypeInv
    <2> QED BY <2>1
  <1>5. /\ pc \in {"before", "open", "ask", "settle", "over"} \cup TerminalTypes
        /\ status \in {"none", "running"} \cup TerminalStatuses
        /\ asked \in Requests \cup {NoRequest}
        /\ settled \in BOOLEAN
        /\ reading \in {"none", "events", "latest", "timeline", "done"}
    BY DEF TypeInv, Statuses
  <1> QED BY <1>1, <1>2, <1>3, <1>4, <1>5 DEF TypeOK, EventRow, InteractionRow

LEMMA RequestFacts ==
  ASSUME NEW q \in Requests
  PROVE  /\ q \in RequestType /\ q # NoRequest
         /\ q.default \in Entered \cup {Nothing}
         /\ q.marked \in SUBSET Fields
         /\ q.prompt \in {"choice", "object"}
         /\ redactInteractionRequest(q) \in RequestType
         /\ redactInteractionRequest(q).default = redactObjectByPaths(q.default, q.marked)
         /\ redactInteractionRequest(q).marked = q.marked
  <1>1. q \in RequestType /\ q.default \in Entered \cup {Nothing}
    BY DEF Requests
  <1>2. q.prompt \in {"choice", "object"} /\ q.marked \in SUBSET Fields
    BY <1>1 DEF RequestType
  <1>3. q # NoRequest
    <2>1. NoRequest.prompt = "none"
      BY DEF NoRequest
    <2> QED BY <1>2, <2>1
  <1> DEFINE d == redactObjectByPaths(q.default, q.marked)
  <1>4. d \in Stored
    BY <1>1, <1>2, EnteredFacts, RedactFacts
  <1>5. redactInteractionRequest(q) = [q EXCEPT !.default = d]
    BY DEF redactInteractionRequest
  <1> HIDE DEF d
  <1>6. [q EXCEPT !.default = d] \in RequestType /\ [q EXCEPT !.default = d].default = d
        /\ [q EXCEPT !.default = d].marked = q.marked
    BY <1>1, <1>4 DEF RequestType
  <1> QED BY <1>1, <1>2, <1>3, <1>5, <1>6 DEF d

LEMMA InitType == Init => TypeInv
  <1>1. NoView \in ViewType
    BY DEF NoView, ViewType, Statuses
  <1>2. Len(<<>>) = 0 /\ <<>> \in Seq(EventRow) /\ <<>> \in Seq(InteractionRow)
        /\ <<>> \in Seq(Entered \cup {Nothing})
    BY EmptySeq
  <1> QED BY <1>1, <1>2 DEF Init, TypeInv, Statuses

(* The event that follows the last one in the log.                               *)
Logged(e) == events' = Append(events, e)

LEMMA LoggedFacts ==
  ASSUME TypeInv, NEW e \in EventRow, Logged(e)
  PROVE  /\ events' \in Seq(EventRow)
         /\ Len(events') = Len(events) + 1 /\ Len(events) \in Nat
         /\ DOMAIN events = 1..Len(events) /\ DOMAIN events' = 1..(Len(events) + 1)
         /\ \A i \in DOMAIN events : events'[i] = events[i]
         /\ events'[Len(events) + 1] = e
  BY DEF TypeInv, Logged

RejectedRow(filed)       == Row(FALSE, "log", NoRequest, TRUE, filed)
ElsewhereRow(type)       == Row(TRUE, type, NoRequest, FALSE, TRUE)
AcceptedRow(type, filed) == Row(TRUE, type, NoRequest, TRUE, filed)
RequestRow(q, filed)     ==
    Row(TRUE, "interaction.required", redactInteractionRequiredEvent(q), TRUE, filed)

(* The steps, by what they add to the log.                                       *)
LEMMA WriterLog ==
  ASSUME TypeInv, Next
  PROVE  \/ UNCHANGED events
         \/ \E filed \in BOOLEAN : Reject(filed) /\ Logged(RejectedRow(filed))
         \/ \E type \in EventTypes : AcceptElsewhere(type) /\ Logged(ElsewhereRow(type))
         \/ \E type \in EventTypes, filed \in BOOLEAN :
               Accept(type, filed) /\ Logged(AcceptedRow(type, filed))
         \/ \E q \in Requests, filed \in BOOLEAN :
               AcceptInteraction(q, filed) /\ Logged(RequestRow(q, filed))
  BY DEF Next, createRun, insertPendingInteraction, Close, Settle, TimesOut, Send, Ends, Accept, Reject,
         AcceptInteraction, AcceptElsewhere, RejectedRow, ElsewhereRow, AcceptedRow, RequestRow, Respond, ReadRuns, ReadEvents, ReadLatestRun, ReadTimeline, Shown, writer,
         Logged

LEMMA RowTypes ==
  /\ \A filed \in BOOLEAN : RejectedRow(filed) \in EventRow
  /\ \A type \in EventTypes : ElsewhereRow(type) \in EventRow
  /\ \A type \in EventTypes, filed \in BOOLEAN : AcceptedRow(type, filed) \in EventRow
  /\ \A q \in Requests, filed \in BOOLEAN : RequestRow(q, filed) \in EventRow
  <1>1. \A type \in EventTypes : type \in AllTypes
    BY TraceAssumption
  <1>2. "interaction.required" \in AllTypes /\ "log" \in AllTypes
    BY DEF AllTypes
  <1>3. \A q \in Requests : redactInteractionRequiredEvent(q) \in RequestType
    BY RequestFacts DEF redactInteractionRequiredEvent
  <1> QED BY <1>1, <1>2, <1>3 DEF RejectedRow, ElsewhereRow, AcceptedRow, RequestRow, Row, EventRow

-------------------------------------------------------------------------------
(* The interactions table.                                                       *)

Lost(value) == {k \in DOMAIN value.at : value.at[k] = REDACTED_SENTINEL}

(* A row and what the agent was sent for it.  A row that is pending has no       *)
(* response yet, so its paths are those of its request.                          *)
RowOK(row, out) ==
    /\ Hides(row.request.default, row.request.marked)
    /\ Hides(row.response, row.request.marked)
    /\ row.redacted = Lost(row.request.default) \cup Lost(row.response)
    /\ row.status = "pending" => row.response = Nothing
    /\ row.status = "responded" =>
          /\ row.response = redactObjectByPaths(out, row.request.marked)
          /\ \A k \in DOMAIN out.at : out.at[k] = "original"

Rows == \A i \in 1..Len(interactions) : RowOK(interactions[i], sent[i])

(* The interaction the runtime waits for is the last row, from its insertion on. *)
Current ==
    /\ pc = "before" => asked = NoRequest
    /\ pc = "ask" => asked # NoRequest
    /\ asked # NoRequest /\ pc \in {"open", "settle"} \cup TerminalTypes =>
          /\ Len(interactions) > 0
          /\ interactions[Len(interactions)].status = "pending"
          /\ interactions[Len(interactions)].request = redactInteractionRequest(asked)

(* Redacted original data hides what is marked, and has lost just that.          *)
LEMMA HidingFacts ==
  ASSUME NEW v \in Entered \cup {Nothing}, NEW p \in SUBSET Fields
  PROVE  /\ redactObjectByPaths(v, p) \in Stored
         /\ Hides(redactObjectByPaths(v, p), p)
         /\ Lost(redactObjectByPaths(v, p)) = redactedPaths(v, p)
         /\ redactedPaths(v, p) \in SUBSET Fields
         /\ \A k \in DOMAIN v.at : v.at[k] = "original"
  <1>1. v \in Stored /\ \A k \in DOMAIN v.at : v.at[k] = "original"
    BY EnteredFacts
  <1>2. /\ redactObjectByPaths(v, p) \in Stored
        /\ DOMAIN redactObjectByPaths(v, p).at = DOMAIN v.at
        /\ \A k \in DOMAIN v.at :
              redactObjectByPaths(v, p).at[k] = IF k \in p THEN REDACTED_SENTINEL ELSE v.at[k]
        /\ DOMAIN v.at \subseteq Fields
    BY <1>1, RedactFacts
  <1>3. REDACTED_SENTINEL # "original"
    BY DEF REDACTED_SENTINEL
  <1> QED BY <1>1, <1>2, <1>3 DEF Hides, Lost, redactedPaths

LEMMA NothingFacts == \A p : Hides(Nothing, p) /\ Lost(Nothing) = {}
  BY ControlFacts, EmptyForm DEF Hides, Lost

(* A row that is replaced by one that is right, of a table that is right.        *)
LEMMA RowReplaced ==
  ASSUME TypeInv, Rows, NEW n \in 1..Len(interactions), NEW row \in InteractionRow,
         NEW out \in Entered \cup {Nothing}, RowOK(row, out),
         interactions' = [interactions EXCEPT ![n] = row], sent' = [sent EXCEPT ![n] = out]
  PROVE  /\ Rows'
         /\ interactions' \in Seq(InteractionRow) /\ sent' \in Seq(Entered \cup {Nothing})
         /\ Len(sent') = Len(interactions')
  <1>1. /\ interactions \in Seq(InteractionRow) /\ sent \in Seq(Entered \cup {Nothing})
        /\ Len(sent) = Len(interactions)
    BY DEF TypeInv
  <1>2. /\ interactions' \in Seq(InteractionRow) /\ sent' \in Seq(Entered \cup {Nothing})
        /\ Len(interactions') = Len(interactions) /\ Len(sent') = Len(sent)
    BY <1>1
  <1>3. ASSUME NEW i \in 1..Len(interactions)
        PROVE  /\ interactions'[i] = IF i = n THEN row ELSE interactions[i]
               /\ sent'[i] = IF i = n THEN out ELSE sent[i]
    BY <1>1
  <1>4. \A i \in 1..Len(interactions) : RowOK(interactions[i], sent[i])
    BY DEF Rows
  <1>5. ASSUME NEW i \in 1..Len(interactions') PROVE RowOK(interactions'[i], sent'[i])
    BY <1>2, <1>3, <1>4
  <1> QED BY <1>1, <1>2, <1>5 DEF Rows

(* Recording a response: the row gets it redacted by the marks of the request    *)
(* that it stores, and its paths are added to those of the request.              *)
LEMMA RespondedFacts ==
  ASSUME TypeInv, Rows, NEW n \in 1..Len(interactions), n = Len(interactions),
         interactions[n].status = "pending",
         NEW value \in Entered \cup {Nothing}, markInteractionResponded(value)
  PROVE  \E row \in InteractionRow :
            /\ RowOK(row, value) /\ row.status = "responded"
            /\ interactions' = [interactions EXCEPT ![n] = row]
  <1> DEFINE old == interactions[n]
             p   == old.request.marked
             r   == redactObjectByPaths(value, p)
             m   == old.redacted \cup redactedPaths(value, p)
             row == [request |-> old.request, response |-> r, redacted |-> m,
                     status |-> "responded"]
  <1>1. old \in InteractionRow /\ interactions \in Seq(InteractionRow)
    BY DEF TypeInv
  <1>2. p \in SUBSET Fields
    BY <1>1 DEF InteractionRow, RequestType
  <1>3. RowOK(old, sent[n])
    BY DEF Rows
  <1>4. /\ r \in Stored /\ Hides(r, p) /\ Lost(r) = redactedPaths(value, p)
        /\ redactedPaths(value, p) \in SUBSET Fields
        /\ \A k \in DOMAIN value.at : value.at[k] = "original"
    BY <1>2, HidingFacts
  <1>5. m = Lost(old.request.default) \cup Lost(r)
    BY <1>3, <1>4, NothingFacts DEF RowOK
  <1>6. interactions' = [interactions EXCEPT ![n].status = "responded", ![n].response = r,
                                             ![n].redacted = m]
    BY DEF markInteractionResponded, mergeRedactedPaths
  <1> HIDE DEF old, r, m, p
  <1>7. row \in InteractionRow
    BY <1>1, <1>2, <1>4, <1>5 DEF InteractionRow, m
  <1>8. interactions' = [interactions EXCEPT ![n] = row]
    <2> DEFINE a == [old EXCEPT !.status = "responded"]
               b == [a EXCEPT !.response = r]
               c == [b EXCEPT !.redacted = m]
               A == [interactions EXCEPT ![n] = a]
               B == [A EXCEPT ![n] = b]
    <2>a. A = [interactions EXCEPT ![n].status = "responded"]
      BY <1>1 DEF old
    <2>b. n \in DOMAIN interactions
      BY <1>1
    <2>c. A[n] = a /\ B = [A EXCEPT ![n].response = r]
      BY <2>b
    <2>d. B[n] = b /\ [B EXCEPT ![n].redacted = m] = [B EXCEPT ![n] = c]
      BY <2>b
    <2>e. interactions' = [B EXCEPT ![n].redacted = m]
      BY <1>6, <2>a, <2>c
    <2>f. [B EXCEPT ![n] = c] = [interactions EXCEPT ![n] = c]
      BY <2>b
    <2>1. interactions' = [interactions EXCEPT ![n] = c]
      BY <2>d, <2>e, <2>f
    <2>2. c = row
      <3>1. old \in InteractionRow
        BY <1>1
      <3>2. old = [request |-> old.request, response |-> old.response,
                   redacted |-> old.redacted, status |-> old.status]
        BY <3>1 DEF InteractionRow
      <3>3. a = [request |-> old.request, response |-> old.response,
                 redacted |-> old.redacted, status |-> "responded"]
        BY <3>2
      <3> HIDE DEF a
      <3>4. b = [request |-> old.request, response |-> r,
                 redacted |-> old.redacted, status |-> "responded"]
        BY <3>3
      <3> HIDE DEF b
      <3> QED BY <3>4
    <2> QED BY <2>1, <2>2
  <1>9. RowOK(row, value)
    BY <1>3, <1>4, <1>5 DEF RowOK, p, r
  <1> QED BY <1>7, <1>8, <1>9

TablesOK == /\ interactions' \in Seq(InteractionRow) /\ sent' \in Seq(Entered \cup {Nothing})
            /\ Len(sent') = Len(interactions')
            /\ Rows' /\ Current'

LEMMA InsertTables ==
  ASSUME TypeInv, Rows, Current, insertPendingInteraction
  PROVE  TablesOK
  <1> DEFINE row == [request |-> redactInteractionRequest(asked), response |-> Nothing,
                     status |-> "pending",
                     redacted |-> redactedPaths(asked.default, asked.marked)]
             n == Len(interactions)
  <1>1. /\ interactions \in Seq(InteractionRow) /\ sent \in Seq(Entered \cup {Nothing})
        /\ Len(sent) = n /\ n \in Nat
    BY DEF TypeInv
  <1>2. asked \in Requests
    BY DEF TypeInv, Current, insertPendingInteraction
  <1>3. /\ interactions' = Append(interactions, row) /\ sent' = Append(sent, Nothing)
        /\ pc' = "open" /\ asked' = asked
    BY DEF insertPendingInteraction
  <1>4. /\ redactInteractionRequest(asked) \in RequestType
        /\ redactInteractionRequest(asked).default = redactObjectByPaths(asked.default, asked.marked)
        /\ redactInteractionRequest(asked).marked = asked.marked
        /\ asked.default \in Entered \cup {Nothing} /\ asked.marked \in SUBSET Fields
    BY <1>2, RequestFacts
  <1>5. /\ redactedPaths(asked.default, asked.marked) \in SUBSET Fields
        /\ redactedPaths(asked.default, asked.marked) = Lost(redactInteractionRequest(asked).default)
        /\ Hides(redactInteractionRequest(asked).default, asked.marked)
    BY <1>4, HidingFacts
  <1>6. row \in InteractionRow
    BY <1>4, <1>5, ControlFacts DEF InteractionRow
  <1>7. RowOK(row, Nothing)
    BY <1>4, <1>5, NothingFacts DEF RowOK
  <1>8. row.status = "pending" /\ row.request = redactInteractionRequest(asked)
    OBVIOUS
  <1> HIDE DEF row
  <1>9. /\ interactions' \in Seq(InteractionRow) /\ sent' \in Seq(Entered \cup {Nothing})
        /\ Len(sent') = Len(interactions') /\ Len(interactions') = n + 1
    BY <1>1, <1>3, <1>6
  <1>10. /\ \A i \in 1..n : interactions'[i] = interactions[i] /\ sent'[i] = sent[i]
         /\ interactions'[n + 1] = row /\ sent'[n + 1] = Nothing
    BY <1>1, <1>3, <1>6
  <1>11. \A i \in 1..n : RowOK(interactions[i], sent[i])
    BY DEF Rows
  <1>12. ASSUME NEW i \in 1..(n + 1) PROVE RowOK(interactions'[i], sent'[i])
    BY <1>1, <1>7, <1>10, <1>11
  <1>13. Rows'
    BY <1>9, <1>12 DEF Rows
  <1>14. Current'
    BY <1>1, <1>3, <1>8, <1>9, <1>10 DEF Current, redactInteractionRequest, redactObjectByPaths
  <1> QED BY <1>9, <1>13, <1>14 DEF TablesOK

LEMMA SettleTables ==
  ASSUME TypeInv, Rows, Current, Settle
  PROVE  TablesOK
  <1> DEFINE Ended(row) == IF row.status = "pending" THEN [row EXCEPT !.status = "abandoned"] ELSE row
  <1>1. /\ interactions \in Seq(InteractionRow) /\ sent \in Seq(Entered \cup {Nothing})
        /\ Len(sent) = Len(interactions) /\ Len(interactions) \in Nat
        /\ DOMAIN interactions = 1..Len(interactions)
    BY DEF TypeInv
  <1>2. /\ interactions' = [i \in 1..Len(interactions) |-> Ended(interactions[i])]
        /\ sent' = sent /\ asked' = NoRequest /\ pc' = "open"
    BY <1>1 DEF Settle, Abandon
  <1>3. ASSUME NEW i \in 1..Len(interactions)
        PROVE  /\ Ended(interactions[i]) \in InteractionRow
               /\ RowOK(Ended(interactions[i]), sent[i])
    <2>1. interactions[i] \in InteractionRow /\ RowOK(interactions[i], sent[i])
      BY <1>1 DEF Rows
    <2>2. CASE interactions[i].status = "pending"
      <3> DEFINE row == interactions[i]
                 e == [row EXCEPT !.status = "abandoned"]
      <3>1. /\ e \in InteractionRow /\ e.status = "abandoned" /\ e.request = row.request
            /\ e.response = row.response /\ e.redacted = row.redacted
        BY <2>1 DEF InteractionRow
      <3> HIDE DEF e
      <3>2. RowOK(e, sent[i])
        BY <2>1, <3>1 DEF RowOK
      <3> QED BY <2>2, <3>1, <3>2 DEF e
    <2>3. CASE interactions[i].status # "pending"
      BY <2>1, <2>3
    <2> QED BY <2>2, <2>3
  <1> HIDE DEF Ended
  <1>4. /\ interactions' \in Seq(InteractionRow) /\ Len(interactions') = Len(interactions)
        /\ \A i \in 1..Len(interactions) : interactions'[i] = Ended(interactions[i])
    BY <1>1, <1>2, <1>3
  <1>5. Rows'
    BY <1>2, <1>3, <1>4 DEF Rows
  <1>6. Current'
    BY <1>2 DEF Current
  <1> QED BY <1>1, <1>2, <1>4, <1>5, <1>6 DEF TablesOK

(* An answer, of the user or of the timeout policy, for the last row.            *)
LEMMA AnswerTables ==
  ASSUME TypeInv, Rows, Current, pc = "open", asked # NoRequest,
         NEW value \in Entered \cup {Nothing}, markInteractionResponded(value), Send(value)
  PROVE  TablesOK
  <1> DEFINE n == Len(interactions)
  <1>1. n \in 1..Len(interactions) /\ interactions[n].status = "pending"
    BY DEF Current, TypeInv
  <1>2. PICK row \in InteractionRow :
           RowOK(row, value) /\ interactions' = [interactions EXCEPT ![n] = row]
    BY <1>1, RespondedFacts
  <1>3. sent' = [sent EXCEPT ![n] = value] /\ asked' = NoRequest /\ pc' = pc
    BY DEF Send
  <1>4. Current'
    BY <1>3 DEF Current
  <1> QED BY <1>1, <1>2, <1>3, <1>4, RowReplaced DEF TablesOK

LEMMA TimesOutTables ==
  ASSUME TypeInv, Rows, Current, TimesOut
  PROVE  TablesOK
  <1> DEFINE n == Len(interactions)
             old == interactions[n]
             value == buildTimeoutControlResponse(asked)
  <1>1. pc = "open" /\ asked # NoRequest /\ asked \in Requests /\ Send(value)
    BY DEF TimesOut, TypeInv
  <1>2. value \in Entered \cup {Nothing}
    BY <1>1, RequestFacts, ControlFacts DEF buildTimeoutControlResponse
  <1> HIDE DEF value
  <1>3. CASE asked.policy # "abort"
    <2>1. markInteractionResponded(value)
      BY <1>3 DEF TimesOut, value
    <2> QED BY <1>1, <1>2, <2>1, AnswerTables
  <1>4. CASE asked.policy = "abort"
    <2> DEFINE row == [old EXCEPT !.status = "timed_out"]
    <2>1. n \in 1..Len(interactions) /\ old.status = "pending"
      BY <1>1 DEF Current, TypeInv
    <2>2. old \in InteractionRow /\ RowOK(old, sent[n])
      BY <2>1 DEF Rows, TypeInv
    <2>3. /\ row \in InteractionRow /\ row.status = "timed_out" /\ row.request = old.request
          /\ row.response = old.response /\ row.redacted = old.redacted
      BY <2>2 DEF InteractionRow
    <2>4. interactions' = [interactions EXCEPT ![n].status = "timed_out"]
      BY <1>4 DEF TimesOut
    <2>5. interactions' = [interactions EXCEPT ![n] = row]
      BY <2>4
    <2> HIDE DEF row, old
    <2>6. RowOK(row, value)
      BY <2>2, <2>3 DEF RowOK
    <2>7. sent' = [sent EXCEPT ![n] = value] /\ asked' = NoRequest /\ pc' = pc
      BY <1>1 DEF Send
    <2>8. Current'
      BY <1>1, <2>7 DEF Current
    <2> QED BY <1>2, <2>1, <2>3, <2>5, <2>6, <2>7, <2>8, RowReplaced DEF TablesOK
  <1> QED BY <1>3, <1>4

(* A process with a terminal event in hand is nowhere else.                      *)
LEMMA TypesAreNoPlaces ==
  /\ "before" \notin TerminalTypes /\ "open" \notin TerminalTypes /\ "ask" \notin TerminalTypes
  /\ "settle" \notin TerminalTypes /\ "over" \notin TerminalTypes
  BY DEF TerminalTypes

LEMMA TablesStep ==
  ASSUME TypeInv, Rows, Current, Next
  PROVE  TablesOK
  <1>1. ASSUME UNCHANGED <<interactions, sent>>, Current' PROVE TablesOK
    BY <1>1 DEF Rows, TypeInv, TablesOK
  <1>2. CASE UNCHANGED writer
    BY <1>1, <1>2 DEF writer, Current
  <1>3. CASE createRun \/ Close
    BY <1>1, <1>3 DEF createRun, Close, Current
  <1>4. ASSUME NEW type \in EventTypes, NEW filed \in BOOLEAN, Accept(type, filed) PROVE TablesOK
    BY <1>1, <1>4, TypesAreNoPlaces DEF Accept, Current
  <1>5. ASSUME NEW q \in Requests, NEW filed \in BOOLEAN, AcceptInteraction(q, filed) PROVE TablesOK
    BY <1>1, <1>5, RequestFacts, TypesAreNoPlaces DEF AcceptInteraction, Current
  <1>6. CASE Ends
    BY <1>1, <1>6, TypesAreNoPlaces DEF Ends, Current
  <1>7. ASSUME NEW value \in Entered, Respond(value) PROVE TablesOK
    BY <1>7, AnswerTables DEF Respond
  <1>8. ASSUME NEW filed \in BOOLEAN, Reject(filed) PROVE TablesOK
    BY <1>1, <1>8 DEF Reject, Current
  <1>9. ASSUME NEW type \in EventTypes, AcceptElsewhere(type) PROVE TablesOK
    BY <1>1, <1>9 DEF AcceptElsewhere, Current
  <1> QED BY <1>2, <1>3, <1>4, <1>5, <1>6, <1>7, <1>8, <1>9, InsertTables, SettleTables, TimesOutTables
          DEF Next, ReadRuns, ReadEvents, ReadLatestRun, ReadTimeline, Shown

LEMMA StatusOfType == \A type : StatusOf(type) \in TerminalStatuses
  BY DEF StatusOf, TerminalStatuses

LEMMA ViewStep ==
  ASSUME TypeInv, Next
  PROVE  view' \in ViewType /\ reading' \in {"none", "events", "latest", "timeline", "done"}
  <1>0. view \in ViewType /\ reading \in {"none", "events", "latest", "timeline", "done"}
        /\ status \in Statuses
    BY DEF TypeInv
  <1>1. NoView \in ViewType
    BY DEF NoView, ViewType, Statuses
  <1>2. /\ listAcceptedEventsForRun \in SUBSET Nat
        /\ {i \in listEventsForAction : events[i].accepted} \in SUBSET Nat
    BY DEF listAcceptedEventsForRun, listEventsForAction, TypeInv
  <1>3. CASE UNCHANGED reader
    BY <1>0, <1>3 DEF reader
  <1>4. ASSUME NEW op \in {"trace", "entry"}, ReadRuns(op)
        PROVE  view' \in ViewType /\ reading' \in {"none", "events", "latest", "timeline", "done"}
    BY <1>0, <1>1, <1>4 DEF ReadRuns, ViewType
  <1>5. CASE ReadEvents
    BY <1>0, <1>2, <1>5 DEF ReadEvents, ViewType
  <1>6. CASE ReadLatestRun \/ Shown
    BY <1>0, <1>1, <1>6 DEF ReadLatestRun, Shown
  <1>7. CASE ReadTimeline
    BY <1>0, <1>2, <1>7 DEF ReadTimeline, Timeline, ViewType
  <1> QED BY <1>3, <1>4, <1>5, <1>6, <1>7
          DEF Next, createRun, insertPendingInteraction, Close, Settle, TimesOut, Ends, Accept, Reject,
              AcceptInteraction, AcceptElsewhere, Respond, Send

LEMMA TypeInductive ==
  ASSUME TypeInv, Rows, Current, Next
  PROVE  TypeInv'
  <1>1. /\ pc' \in {"before", "open", "ask", "settle", "over"} \cup TerminalTypes
        /\ settled' \in BOOLEAN
    BY DEF Next, createRun, insertPendingInteraction, Close, Settle, TimesOut, Send, Ends, Accept, Reject,
           AcceptInteraction, AcceptElsewhere, Respond, ReadRuns, ReadEvents, ReadLatestRun, ReadTimeline, Shown, writer,
           TypeInv
  <1>2. asked' \in Requests \cup {NoRequest}
    BY DEF Next, createRun, insertPendingInteraction, Close, Settle, TimesOut, Send, Ends, Accept, Reject,
           AcceptInteraction, AcceptElsewhere, Respond, ReadRuns, ReadEvents, ReadLatestRun, ReadTimeline, Shown, writer,
           TypeInv
  <1>3. status' \in Statuses
    BY StatusOfType
       DEF Next, createRun, insertPendingInteraction, Close, closeRun, Settle, TimesOut, Send, Ends,
           Accept, Reject, AcceptInteraction, AcceptElsewhere, Respond, ReadRuns, ReadEvents, ReadLatestRun,
           ReadTimeline, Shown, writer, TypeInv, Statuses
  <1>4. events' \in Seq(EventRow)
    <2>1. CASE UNCHANGED events
      BY <2>1 DEF TypeInv
    <2>2. CASE \E e \in EventRow : Logged(e)
      BY <2>2, LoggedFacts
    <2>3. UNCHANGED events \/ \E e \in EventRow : Logged(e)
      BY WriterLog, RowTypes
    <2> QED BY <2>1, <2>2, <2>3
  <1> QED BY <1>1, <1>2, <1>3, <1>4, TablesStep, ViewStep DEF TypeInv, TablesOK

-------------------------------------------------------------------------------
(* The log, the run row and what a reader has of them.                           *)

(* The accepted events of the run, and those filed under its action.             *)
Accepted == listAcceptedEventsForRun
Filed    == {i \in listEventsForAction : events[i].accepted}

IsEnd(i) == events[i].ours /\ events[i].accepted /\ events[i].type \in TerminalTypes

(* Some event among them ended the run with this status.                         *)
EndedIn(ids, s) == \E i \in ids : IsEnd(i) /\ StatusOf(events[i].type) = s

(* An accepted request was redacted; one event at most ends the run, and the run *)
(* row is closed with its status after it.                                       *)
Log == /\ \A i \in Accepted :
             events[i].type = "interaction.required" =>
                Hides(events[i].request.default, events[i].request.marked)
       /\ \A i, j \in Accepted : IsEnd(i) /\ IsEnd(j) => i = j
       /\ pc \in TerminalTypes => EndedIn(Accepted, StatusOf(pc))
       /\ pc = "before" => status = "none"
       /\ status = "none" => pc \in {"before", "over"} /\ Accepted = {}
       /\ status \in TerminalStatuses => EndedIn(Accepted, status)

Begins(ids, more) == ids \subseteq more /\ \A i \in ids, j \in more \ ids : i < j

(* What is read begins the log.  A run seen as ended was so before its events    *)
(* were read, so that no event that ends it can come after them.                 *)
Reads == /\ Begins(view.accepted, Filed)
         /\ view.timeline \subseteq Accepted
         /\ reading # "none" /\ view.status \in TerminalStatuses => EndedIn(Accepted, view.status)
         /\ reading \in {"latest", "timeline", "done"} /\ view.op = "trace"
               /\ view.status \in TerminalStatuses =>
                  \A i \in Accepted : IsEnd(i) /\ i \in Filed => i \in view.accepted
         /\ reading = "done" =>
               /\ view.accepted \cap Accepted \subseteq view.timeline
               /\ view.status \in TerminalStatuses => EndedIn(view.timeline, view.status)

IInv == TypeInv /\ Rows /\ Current /\ Log /\ Reads

LEMMA EmptyFacts == TypeInv => DOMAIN events = 1..Len(events) /\ Len(events) \in Nat
                               /\ (events = <<>> <=> Len(events) = 0)
  BY EmptySeq DEF TypeInv

LEMMA InitIInv == Init => IInv
  <1> SUFFICES ASSUME Init PROVE IInv
    OBVIOUS
  <1>1. TypeInv
    BY InitType
  <1>2. Accepted = {} /\ Filed = {} /\ Len(interactions) = 0
    BY EmptyForm, EmptySeq
       DEF Init, Accepted, Filed, listAcceptedEventsForRun, listEventsForAction
  <1>3. Rows
    BY <1>2 DEF Rows
  <1>4. Current
    BY TypesAreNoPlaces DEF Init, Current
  <1>5. Log
    BY <1>2, TypesAreNoPlaces DEF Init, Log, TerminalStatuses
  <1>6. Reads
    BY <1>2 DEF Init, Reads, NoView, Begins
  <1> QED BY <1>1, <1>3, <1>4, <1>5, <1>6 DEF IInv

(* Without a new event the log says what it said.                                *)
LEMMA SameLog ==
  ASSUME UNCHANGED events
  PROVE  /\ Accepted' = Accepted /\ Filed' = Filed
         /\ \A i : IsEnd(i)' <=> IsEnd(i)
         /\ \A ids, s : EndedIn(ids, s)' <=> EndedIn(ids, s)
  BY DEF Accepted, Filed, listAcceptedEventsForRun, listEventsForAction, IsEnd, EndedIn

LEMMA AcceptedFacts ==
  /\ Accepted \in SUBSET DOMAIN events /\ Filed \in SUBSET DOMAIN events
  /\ \A i \in DOMAIN events :
        /\ i \in Accepted <=> events[i].ours /\ events[i].accepted
        /\ i \in Filed <=> events[i].filed /\ events[i].accepted
        /\ IsEnd(i) => i \in Accepted
  BY DEF Accepted, Filed, listAcceptedEventsForRun, listEventsForAction, IsEnd

(* A new event is the last, and leaves the others as they are.                   *)
LEMMA GrownLog ==
  ASSUME TypeInv, NEW e \in EventRow, Logged(e)
  PROVE  /\ Begins(Accepted, Accepted') /\ Begins(Filed, Filed')
         /\ Accepted' = IF e.ours /\ e.accepted THEN Accepted \cup {Len(events) + 1} ELSE Accepted
         /\ Accepted' \cap DOMAIN events = Accepted /\ Filed' \cap DOMAIN events = Filed
         /\ \A i \in DOMAIN events : (IsEnd(i)' <=> IsEnd(i)) /\ events'[i] = events[i]
         /\ \A n : n = Len(events) + 1 =>
               (IsEnd(n)' <=> e.ours /\ e.accepted /\ e.type \in TerminalTypes)
         /\ \A ids \in SUBSET DOMAIN events : \A s : EndedIn(ids, s) => EndedIn(ids, s)'
  <1>1. /\ Len(events) \in Nat
        /\ DOMAIN events = 1..Len(events) /\ DOMAIN events' = 1..(Len(events) + 1)
        /\ \A i \in DOMAIN events : events'[i] = events[i]
        /\ events'[Len(events) + 1] = e
    BY LoggedFacts
  <1>2. /\ Accepted' = IF e.ours /\ e.accepted THEN Accepted \cup {Len(events) + 1} ELSE Accepted
        /\ Filed' = IF e.filed /\ e.accepted THEN Filed \cup {Len(events) + 1} ELSE Filed
    BY <1>1 DEF Accepted, Filed, listAcceptedEventsForRun, listEventsForAction
  <1>3. /\ Begins(Accepted, Accepted') /\ Begins(Filed, Filed')
        /\ Accepted' \cap DOMAIN events = Accepted /\ Filed' \cap DOMAIN events = Filed
    BY <1>1, <1>2, AcceptedFacts DEF Begins
  <1>4. \A i \in DOMAIN events : IsEnd(i)' <=> IsEnd(i)
    BY <1>1 DEF IsEnd
  <1>5. \A n : n = Len(events) + 1 =>
           (IsEnd(n)' <=> e.ours /\ e.accepted /\ e.type \in TerminalTypes)
    BY <1>1 DEF IsEnd
  <1>6. \A ids \in SUBSET DOMAIN events : \A s : EndedIn(ids, s) => EndedIn(ids, s)'
    BY <1>1 DEF EndedIn, IsEnd
  <1> QED BY <1>1, <1>2, <1>3, <1>4, <1>5, <1>6

(* A request of the agent is no terminal event.                                  *)
LEMMA RequestsDoNotEnd == "interaction.required" \notin TerminalTypes
  BY DEF TerminalTypes

LEMMA LogInductive ==
  ASSUME TypeInv, Current, Log, Next
  PROVE  Log'
  <1>0. DOMAIN events = 1..Len(events) /\ Len(events) \in Nat
    BY EmptyFacts
  <1>a. /\ \A i \in Accepted :
              events[i].type = "interaction.required" =>
                 Hides(events[i].request.default, events[i].request.marked)
        /\ \A i, j \in Accepted : IsEnd(i) /\ IsEnd(j) => i = j
        /\ pc \in TerminalTypes => EndedIn(Accepted, StatusOf(pc))
        /\ pc = "before" => status = "none"
        /\ status = "none" => pc \in {"before", "over"} /\ Accepted = {}
        /\ status \in TerminalStatuses => EndedIn(Accepted, status)
    BY DEF Log
  <1>1. ASSUME UNCHANGED events,
               pc' \in TerminalTypes => pc' = pc,
               pc' = "before" => status' = "none",
               status' = "none" => pc' \in {"before", "over"} /\ status = "none",
               status' \in TerminalStatuses => EndedIn(Accepted, status')
        PROVE  Log'
    <2>1. /\ Accepted' = Accepted
          /\ \A i : IsEnd(i)' <=> IsEnd(i)
      BY <1>1, SameLog
    <2>2. /\ \A s : EndedIn(Accepted, s) => EndedIn(Accepted, s)'
          /\ EndedIn(Accepted, status') => EndedIn(Accepted, status)'
          /\ EndedIn(Accepted, StatusOf(pc')) => EndedIn(Accepted, StatusOf(pc))'
      BY <1>1, <2>1 DEF EndedIn
    <2>3. \A i, j \in Accepted' : IsEnd(i)' /\ IsEnd(j)' => i = j
      BY <1>a, <2>1
    <2>4. \A i \in Accepted' :
             events'[i].type = "interaction.required" =>
                Hides(events'[i].request.default, events'[i].request.marked)
      BY <1>a, <1>1, <2>1
    <2> QED BY <1>a, <1>1, <2>1, <2>2, <2>3, <2>4 DEF Log, Hides
  <1>2. ASSUME NEW e \in EventRow, Logged(e), status' = status,
               e.ours /\ e.accepted /\ e.type = "interaction.required" =>
                  Hides(e.request.default, e.request.marked),
               e.ours /\ e.accepted => status # "none",
               e.ours /\ e.accepted /\ e.type \in TerminalTypes => ~ isRunTerminal /\ pc' = e.type,
               pc' = "before" => pc = "before",
               status = "none" => pc' = pc,
               pc' \in TerminalTypes =>
                  pc' = pc \/ (e.ours /\ e.accepted /\ e.type = pc')
        PROVE  Log'
    <2>a. PICK n \in Nat : n = Len(events) + 1
      BY <1>0
    <2>0. /\ n \notin DOMAIN events /\ events'[n] = e
          /\ Accepted \in SUBSET DOMAIN events
      BY <1>0, <1>2, <2>a, LoggedFacts, AcceptedFacts
    <2>1. /\ Accepted' = IF e.ours /\ e.accepted THEN Accepted \cup {n} ELSE Accepted
          /\ \A i \in DOMAIN events : (IsEnd(i)' <=> IsEnd(i)) /\ events'[i] = events[i]
          /\ IsEnd(n)' <=> e.ours /\ e.accepted /\ e.type \in TerminalTypes
          /\ \A ids \in SUBSET DOMAIN events : \A s : EndedIn(ids, s) => EndedIn(ids, s)'
      BY <1>2, <2>a, GrownLog
    <2>2. \A i \in Accepted' :
             events'[i].type = "interaction.required" =>
                Hides(events'[i].request.default, events'[i].request.marked)
      BY <1>a, <1>2, <2>0, <2>1
    <2>3. ASSUME NEW i \in Accepted', NEW j \in Accepted', IsEnd(i)', IsEnd(j)'
          PROVE  i = j
      <3>1. isRunTerminal <=> \E k \in Accepted : IsEnd(k)
        BY DEF isRunTerminal, IsEnd, Accepted, listAcceptedEventsForRun
      <3>2. CASE i \in Accepted /\ j \in Accepted
        BY <1>a, <2>0, <2>1, <2>3, <3>2
      <3>3. CASE e.ours /\ e.accepted /\ e.type \in TerminalTypes
        <4>1. ASSUME NEW k \in Accepted PROVE ~ IsEnd(k)'
          BY <1>2, <2>0, <2>1, <3>1, <3>3
        <4> QED BY <2>1, <2>3, <4>1
      <3>4. CASE ~ (e.ours /\ e.accepted /\ e.type \in TerminalTypes)
        BY <2>1, <2>3, <3>2, <3>4
      <3> QED BY <3>3, <3>4
    <2>4. \A s : EndedIn(Accepted, s) => EndedIn(Accepted, s)'
      <3>1. ASSUME NEW s, EndedIn(Accepted, s)
            PROVE  \E i \in Accepted : IsEnd(i)' /\ StatusOf(events'[i].type) = s
        BY <2>0, <2>1, <3>1 DEF EndedIn
      <3> QED BY <2>1, <3>1 DEF EndedIn
    <2>5. pc' \in TerminalTypes => EndedIn(Accepted, StatusOf(pc))'
      <3>1. CASE pc' \in TerminalTypes /\ pc' = pc
        <4>1. EndedIn(Accepted, StatusOf(pc))
          BY <1>a, <3>1
        <4>2. PICK i \in Accepted : IsEnd(i) /\ StatusOf(events[i].type) = StatusOf(pc)
          BY <4>1 DEF EndedIn
        <4>3. i \in Accepted' /\ IsEnd(i)' /\ StatusOf(events'[i].type) = StatusOf(pc')
          BY <2>0, <2>1, <3>1, <4>2
        <4> QED BY <4>3 DEF EndedIn
      <3>2. CASE pc' \in TerminalTypes /\ e.ours /\ e.accepted /\ e.type = pc'
        <4>1. n \in Accepted' /\ IsEnd(n)' /\ StatusOf(events'[n].type) = StatusOf(pc')
          BY <2>0, <2>1, <3>2
        <4> QED BY <4>1 DEF EndedIn
      <3> QED BY <1>2, <3>1, <3>2
    <2>6. status' \in TerminalStatuses => EndedIn(Accepted, status)'
      <3>1. status' \in TerminalStatuses =>
               \E i \in Accepted : IsEnd(i) /\ StatusOf(events[i].type) = status
        BY <1>2, <1>a DEF EndedIn
      <3>2. status' \in TerminalStatuses =>
               \E i \in Accepted' : IsEnd(i)' /\ StatusOf(events'[i].type) = status'
        BY <1>2, <2>0, <2>1, <3>1
      <3> QED BY <3>2 DEF EndedIn
    <2>7. status' = "none" => pc' \in {"before", "over"} /\ Accepted' = {}
      BY <1>a, <1>2, <2>1
    <2>8. pc' = "before" => status' = "none"
      BY <1>a, <1>2
    <2> QED BY <2>2, <2>3, <2>5, <2>6, <2>7, <2>8 DEF Log, Hides
  <1>3. ASSUME NEW filed \in BOOLEAN, Reject(filed), Logged(RejectedRow(filed)) PROVE Log'
    <2> DEFINE e == RejectedRow(filed)
    <2>1. e \in EventRow /\ ~ e.accepted
      BY RowTypes DEF RejectedRow, Row
    <2> HIDE DEF e
    <2>2. Logged(e) /\ status' = status /\ pc' = pc
      BY <1>3 DEF e, Reject
    <2> QED BY <1>2, <2>1, <2>2
  <1>4. ASSUME NEW type \in EventTypes, AcceptElsewhere(type), Logged(ElsewhereRow(type)) PROVE Log'
    <2> DEFINE e == ElsewhereRow(type)
    <2>1. e \in EventRow /\ ~ e.ours
      BY RowTypes DEF ElsewhereRow, Row
    <2> HIDE DEF e
    <2>2. Logged(e) /\ status' = status /\ pc' = pc
      BY <1>4 DEF e, AcceptElsewhere
    <2> QED BY <1>2, <2>1, <2>2
  <1>5. ASSUME NEW type \in EventTypes, NEW filed \in BOOLEAN, Accept(type, filed),
               Logged(AcceptedRow(type, filed))
        PROVE  Log'
    <2> DEFINE e == AcceptedRow(type, filed)
    <2>1. e \in EventRow /\ e.ours /\ e.accepted /\ e.type = type
      BY RowTypes DEF AcceptedRow, Row
    <2> HIDE DEF e
    <2>2. /\ Logged(e) /\ status' = status /\ pc = "open" /\ ~ isRunTerminal
          /\ type # "interaction.required"
          /\ pc' = IF type \in TerminalTypes THEN type ELSE "open"
      BY <1>5 DEF e, Accept
    <2>3. status # "none"
      BY <1>a, <2>2
    <2> QED BY <1>2, <2>1, <2>2, <2>3, TypesAreNoPlaces
  <1>6. ASSUME NEW q \in Requests, NEW filed \in BOOLEAN, AcceptInteraction(q, filed),
               Logged(RequestRow(q, filed))
        PROVE  Log'
    <2> DEFINE e == RequestRow(q, filed)
               r == redactInteractionRequest(q)
    <2>1. e \in EventRow /\ e.ours /\ e.accepted /\ e.type = "interaction.required" /\ e.request = r
      BY RowTypes DEF RequestRow, Row, redactInteractionRequiredEvent
    <2>2. Hides(r.default, r.marked)
      BY RequestFacts, HidingFacts
    <2> HIDE DEF e, r
    <2>3. Logged(e) /\ status' = status /\ pc = "open" /\ pc' = "ask"
      BY <1>6 DEF e, AcceptInteraction
    <2>4. status # "none"
      BY <1>a, <2>3
    <2> QED BY <1>2, <2>1, <2>2, <2>3, <2>4, RequestsDoNotEnd, TypesAreNoPlaces
  <1>7. CASE Close
    <2>1. pc \in TerminalTypes /\ status' = StatusOf(pc) /\ UNCHANGED events /\ pc' \in {"open", "settle"}
      BY <1>7 DEF Close, closeRun
    <2>2. EndedIn(Accepted, status')
      BY <1>a, <2>1 DEF EndedIn
    <2>3. status' # "none" /\ pc' \notin TerminalTypes
      BY <2>1, StatusOfType, TypesAreNoPlaces DEF TerminalStatuses
    <2> QED BY <1>1, <2>1, <2>2, <2>3
  <1>8. CASE createRun
    BY <1>1, <1>8, TypesAreNoPlaces DEF createRun, TerminalStatuses
  <1>9. CASE UNCHANGED <<pc, status, events>>
    BY <1>1, <1>9, <1>a
  <1>10. CASE insertPendingInteraction \/ Settle \/ Ends
    <2>1. /\ UNCHANGED <<status, events>> /\ pc' \in {"open", "over"}
          /\ pc' = "open" => pc \in {"ask", "open", "settle"}
      BY <1>10 DEF insertPendingInteraction, Settle, Ends
    <2>2. pc' \notin TerminalTypes
      BY <2>1, TypesAreNoPlaces
    <2> QED BY <1>1, <2>1, <2>2, <1>a
  <1>11. UNCHANGED <<pc, status, events>>
         \/ createRun \/ Close \/ insertPendingInteraction \/ Settle \/ Ends
         \/ (\E filed \in BOOLEAN : Reject(filed))
         \/ (\E type \in EventTypes : AcceptElsewhere(type))
         \/ (\E type \in EventTypes, filed \in BOOLEAN : Accept(type, filed))
         \/ (\E q \in Requests, filed \in BOOLEAN : AcceptInteraction(q, filed))
    BY DEF Next, TimesOut, Send, Respond, ReadRuns, ReadEvents, ReadLatestRun, ReadTimeline, Shown,
           writer
  <1>12. /\ \A filed \in BOOLEAN : Reject(filed) => Logged(RejectedRow(filed))
         /\ \A type \in EventTypes : AcceptElsewhere(type) => Logged(ElsewhereRow(type))
         /\ \A type \in EventTypes, filed \in BOOLEAN :
               Accept(type, filed) => Logged(AcceptedRow(type, filed))
         /\ \A q \in Requests, filed \in BOOLEAN :
               AcceptInteraction(q, filed) => Logged(RequestRow(q, filed))
    BY DEF Reject, AcceptElsewhere, Accept, AcceptInteraction, Logged, RejectedRow, ElsewhereRow,
           AcceptedRow, RequestRow
  <1> QED BY <1>3, <1>4, <1>5, <1>6, <1>7, <1>8, <1>9, <1>10, <1>11, <1>12

(* The log only grows, at its end, and what has ended stays ended.               *)
LEMMA LogGrows ==
  ASSUME TypeInv, Next
  PROVE  /\ Begins(Accepted, Accepted') /\ Begins(Filed, Filed')
         /\ Accepted' \cap DOMAIN events = Accepted /\ Filed' \cap DOMAIN events = Filed
         /\ \A i \in DOMAIN events : (IsEnd(i)' <=> IsEnd(i)) /\ events'[i] = events[i]
  <1>1. CASE UNCHANGED events
    BY <1>1, SameLog, AcceptedFacts DEF Begins
  <1>2. ASSUME NEW e \in EventRow, Logged(e)
        PROVE  /\ Begins(Accepted, Accepted') /\ Begins(Filed, Filed')
               /\ Accepted' \cap DOMAIN events = Accepted /\ Filed' \cap DOMAIN events = Filed
               /\ \A i \in DOMAIN events : (IsEnd(i)' <=> IsEnd(i)) /\ events'[i] = events[i]
    BY <1>2, GrownLog
  <1> QED BY <1>1, <1>2, WriterLog, RowTypes

LEMMA ReadsInductive ==
  ASSUME TypeInv, Log, Log', Reads, Next
  PROVE  Reads'
  <1>0. /\ Begins(view.accepted, Filed)
        /\ view.timeline \subseteq Accepted
        /\ reading # "none" /\ view.status \in TerminalStatuses => EndedIn(Accepted, view.status)
        /\ reading \in {"latest", "timeline", "done"} /\ view.op = "trace"
              /\ view.status \in TerminalStatuses =>
                 \A i \in Accepted : IsEnd(i) /\ i \in Filed => i \in view.accepted
        /\ reading = "done" =>
              /\ view.accepted \cap Accepted \subseteq view.timeline
              /\ view.status \in TerminalStatuses => EndedIn(view.timeline, view.status)
    BY DEF Reads
  <1>1. CASE UNCHANGED reader
    <2>1. UNCHANGED <<reading, view>>
      BY <1>1 DEF reader
    <2>2. /\ Begins(Accepted, Accepted') /\ Begins(Filed, Filed')
          /\ Accepted' \cap DOMAIN events = Accepted /\ Filed' \cap DOMAIN events = Filed
          /\ \A i \in DOMAIN events : (IsEnd(i)' <=> IsEnd(i)) /\ events'[i] = events[i]
          /\ Accepted \in SUBSET DOMAIN events /\ Filed \in SUBSET DOMAIN events
      BY LogGrows, AcceptedFacts
    <2>3. Begins(view.accepted, Filed)' /\ view'.timeline \subseteq Accepted'
      BY <1>0, <2>1, <2>2 DEF Begins
    <2>4. EndedIn(Accepted, view.status) => EndedIn(Accepted, view.status)'
      <3>1. EndedIn(Accepted, view.status) =>
               \E i \in Accepted' : IsEnd(i)' /\ StatusOf(events'[i].type) = view'.status
        BY <2>1, <2>2 DEF EndedIn
      <3> QED BY <3>1 DEF EndedIn
    <2>5. EndedIn(view.timeline, view.status) => EndedIn(view.timeline, view.status)'
      <3>1. EndedIn(view.timeline, view.status) =>
               \E i \in view'.timeline : IsEnd(i)' /\ StatusOf(events'[i].type) = view'.status
        BY <1>0, <2>1, <2>2 DEF EndedIn
      <3> QED BY <3>1 DEF EndedIn
    <2>6. ASSUME EndedIn(Accepted, view.status), NEW i \in Accepted', IsEnd(i)'
          PROVE  i \in Accepted /\ IsEnd(i)
      <3>1. PICK e \in Accepted : IsEnd(e)
        BY <2>6 DEF EndedIn
      <3>2. e \in Accepted' /\ IsEnd(e)'
        BY <2>2, <3>1
      <3>3. \A j, k \in Accepted' : IsEnd(j)' /\ IsEnd(k)' => j = k
        BY DEF Log
      <3>4. i = e
        BY <2>6, <3>2, <3>3
      <3> QED BY <3>1, <3>4
    <2>7. reading' \in {"latest", "timeline", "done"} /\ view'.op = "trace"
             /\ view'.status \in TerminalStatuses =>
                \A i \in Accepted' : IsEnd(i)' /\ i \in Filed' => i \in view'.accepted
      BY <1>0, <2>1, <2>2, <2>6
    <2>8. view.accepted \cap Accepted' = view.accepted \cap Accepted
      BY <1>0, <2>2 DEF Begins
    <2> QED BY <1>0, <2>1, <2>3, <2>4, <2>5, <2>7, <2>8 DEF Reads
  <1>2. ASSUME UNCHANGED writer,
               Begins(view'.accepted, Filed), view'.timeline \subseteq Accepted,
               reading' # "none" /\ view'.status \in TerminalStatuses => EndedIn(Accepted, view'.status),
               reading' \in {"latest", "timeline", "done"} /\ view'.op = "trace"
                  /\ view'.status \in TerminalStatuses =>
                     \A i \in Accepted : IsEnd(i) /\ i \in Filed => i \in view'.accepted,
               reading' = "done" =>
                  /\ view'.accepted \cap Accepted \subseteq view'.timeline
                  /\ view'.status \in TerminalStatuses => EndedIn(view'.timeline, view'.status)
        PROVE  Reads'
    <2>1. /\ UNCHANGED events /\ Accepted' = Accepted /\ Filed' = Filed
          /\ \A i : IsEnd(i)' <=> IsEnd(i)
      BY <1>2, SameLog DEF writer
    <2>2. /\ EndedIn(Accepted, view'.status) => EndedIn(Accepted, view.status)'
          /\ EndedIn(view'.timeline, view'.status) => EndedIn(view.timeline, view.status)'
      BY <2>1 DEF EndedIn
    <2>3. Begins(view.accepted, Filed)' /\ view'.timeline \subseteq Accepted'
      BY <1>2, <2>1 DEF Begins
    <2> QED BY <1>2, <2>1, <2>2, <2>3 DEF Reads
  <1>3. /\ status \in TerminalStatuses => EndedIn(Accepted, status)
        /\ status = "none" => Accepted = {}
    BY DEF Log
  <1>4. Begins({}, Filed) /\ Begins(Filed, Filed)
    BY DEF Begins
  <1>5. ASSUME NEW op \in {"trace", "entry"}, ReadRuns(op) PROVE Reads'
    <2>1. /\ view'.op = op /\ view'.status = status /\ view'.accepted = {} /\ view'.timeline = {}
          /\ reading' \in {"events", "done", "timeline"} /\ UNCHANGED writer
          /\ op = "trace" => reading' = "events"
          /\ reading' = "done" => status = "none"
      BY <1>5 DEF ReadRuns, NoView
    <2>2. "none" \notin TerminalStatuses
      BY DEF TerminalStatuses
    <2> QED BY <1>2, <1>3, <1>4, <2>1, <2>2
  <1>6. CASE ReadEvents
    <2>1. view \in ViewType
      BY DEF TypeInv
    <2>2. /\ view'.op = view.op /\ view'.status = view.status
          /\ view'.accepted = Filed /\ view'.timeline = view.timeline
          /\ reading = "events" /\ reading' = "latest" /\ UNCHANGED writer
      BY <1>6, <2>1 DEF ReadEvents, ViewType, Filed
    <2> QED BY <1>0, <1>2, <1>4, <2>2
  <1>7. CASE ReadLatestRun
    <2>1. /\ UNCHANGED <<view, writer>> /\ reading = "latest"
          /\ reading' = IF status = "none" THEN "done" ELSE "timeline"
      BY <1>7 DEF ReadLatestRun
    <2>2. CASE status # "none"
      BY <1>0, <1>2, <2>1, <2>2
    <2>3. CASE status = "none"
      <3>1. Accepted = {} /\ view.status \notin TerminalStatuses
        BY <1>0, <1>3, <2>1, <2>3 DEF EndedIn
      <3> QED BY <1>0, <1>2, <2>1, <3>1
    <2> QED BY <2>2, <2>3
  <1>8. CASE ReadTimeline
    <2>1. view \in ViewType
      BY DEF TypeInv
    <2>2. /\ view'.op = view.op /\ view'.status = view.status
          /\ view'.accepted = view.accepted /\ view'.timeline = Accepted
          /\ reading = "timeline" /\ reading' = "done" /\ UNCHANGED writer
      BY <1>8, <2>1 DEF ReadTimeline, ViewType, Timeline, Accepted
    <2> QED BY <1>0, <1>2, <2>2
  <1>9. CASE Shown
    BY <1>2, <1>4, <1>9 DEF Shown, NoView
  <1> QED BY <1>1, <1>5, <1>6, <1>7, <1>8, <1>9
          DEF Next, createRun, insertPendingInteraction, Close, Settle, TimesOut, Ends, Accept, Reject,
              AcceptInteraction, AcceptElsewhere, Respond, Send

LEMMA Inductive == IInv /\ [Next]_vars => IInv'
  <1> SUFFICES ASSUME IInv, [Next]_vars PROVE IInv'
    OBVIOUS
  <1>1. TypeInv /\ Rows /\ Current /\ Log /\ Reads
    BY DEF IInv
  <1>2. CASE Next
    BY <1>1, <1>2, TypeInductive, TablesStep, LogInductive, ReadsInductive DEF TablesOK, IInv
  <1>3. CASE UNCHANGED vars
    <2>1. UNCHANGED <<pc, status, events, interactions, asked, sent, settled, reading, view>>
      BY <1>3 DEF vars, writer, reader
    <2>2. TypeInv' /\ Rows' /\ Current'
      BY <1>1, <2>1 DEF TypeInv, Rows, Current
    <2>3. Log' /\ Reads'
      BY <1>1, <2>1 DEF Log, Reads, EndedIn, IsEnd, Accepted, Filed, listAcceptedEventsForRun, listEventsForAction
    <2> QED BY <2>2, <2>3 DEF IInv
  <1> QED BY <1>2, <1>3

-------------------------------------------------------------------------------
(* Theorems.                                                                     *)

(* The tables, the process and the reader have their types.                      *)
THEOREM TypeCorrect == Spec => []TypeOK
  <1>1. IInv => TypeOK
    BY TypeInvImplies DEF IInv
  <1> QED BY <1>1, InitIInv, Inductive, PTL DEF Spec

(* What the theorems below follow from.                                          *)
THEOREM Invariance == Spec => []IInv
  BY InitIInv, Inductive, PTL DEF Spec

(* The status of the last terminal event among some is the one that an event     *)
(* among them ended the run with, since no other ended it.                       *)
LEMMA TerminalState ==
  ASSUME TypeInv, Log, NEW ids \in SUBSET Accepted, NEW s, EndedIn(ids, s)
  PROVE  terminalStateFromAcceptedEvents(ids) = s
  <1> DEFINE ends == {i \in ids : events[i].type \in TerminalTypes}
  <1>1. PICK e \in ids : IsEnd(e) /\ StatusOf(events[e].type) = s
    BY DEF EndedIn
  <1>2. \A i \in Accepted : events[i].type \in TerminalTypes => IsEnd(i)
    BY DEF IsEnd, Accepted, listAcceptedEventsForRun
  <1>3. ends = {e}
    BY <1>1, <1>2 DEF IsEnd, Log
  <1>4. e \in Nat
    BY <1>1, AcceptedFacts, EmptyFacts
  <1>5. (CHOOSE i \in ends : \A j \in ends : j <= i) = e
    BY <1>3, <1>4
  <1> HIDE DEF ends
  <1>6. terminalStateFromAcceptedEvents(ids) =
           IF ends = {} THEN "none"
           ELSE StatusOf(events[CHOOSE i \in ends : \A j \in ends : j <= i].type)
    BY DEF terminalStateFromAcceptedEvents, ends
  <1> QED BY <1>1, <1>3, <1>5, <1>6

(* A trace or an entry of the history that shows a run as ended has read the     *)
(* event that ended it, and a trace lists it, if it is filed under the action,   *)
(* wherever the process goes on between the statements that read them.           *)
THEOREM EndIsShown == Spec => []EndedHasTerminalEvent
  <1>1. IInv => EndedHasTerminalEvent
    <2> SUFFICES ASSUME IInv, reading = "done", view.status \in TerminalStatuses
                 PROVE  /\ terminalStateFromAcceptedEvents(view.timeline) = view.status
                        /\ view.op = "trace" =>
                              \A i \in view.timeline :
                                 events[i].type \in TerminalTypes /\ events[i].filed =>
                                    i \in view.accepted
      BY DEF EndedHasTerminalEvent
    <2>1. view.timeline \in SUBSET Accepted /\ EndedIn(view.timeline, view.status)
      BY DEF IInv, Reads
    <2>2. terminalStateFromAcceptedEvents(view.timeline) = view.status
      BY <2>1, TerminalState DEF IInv
    <2>3. ASSUME view.op = "trace", NEW i \in view.timeline,
                 events[i].type \in TerminalTypes, events[i].filed
          PROVE  i \in view.accepted
      <3>1. i \in Accepted
        BY <2>1
      <3>2. IsEnd(i) /\ i \in Filed
        BY <2>3, <3>1, AcceptedFacts DEF IsEnd
      <3> QED BY <2>3, <3>1, <3>2 DEF IInv, Reads
    <2> QED BY <2>2, <2>3
  <1> QED BY <1>1, Invariance, PTL

(* Trace and replay agree on what the run has under its action: the events of    *)
(* the run in a trace begin the events of its replay that are filed there.       *)
THEOREM ReplayExtendsTrace == Spec => []TraceBeginsReplay
  <1>1. IInv => TraceBeginsReplay
    <2> SUFFICES ASSUME IInv, reading = "done", view.op = "trace"
                 PROVE  /\ {i \in view.accepted : events[i].ours} \subseteq view.timeline
                        /\ \A i \in view.accepted, j \in view.timeline \ view.accepted :
                              events[j].filed => i < j
      BY DEF TraceBeginsReplay
    <2>1. /\ Begins(view.accepted, Filed) /\ view.timeline \subseteq Accepted
          /\ view.accepted \cap Accepted \subseteq view.timeline
      BY DEF IInv, Reads
    <2>2. view.accepted \subseteq Filed
      BY <2>1 DEF Begins
    <2>3. \A i \in view.accepted : events[i].ours => i \in Accepted
      BY <2>2, AcceptedFacts
    <2>4. \A j \in view.timeline : events[j].filed => j \in Filed
      BY <2>1, AcceptedFacts
    <2> QED BY <2>1, <2>3, <2>4 DEF Begins
  <1> QED BY <1>1, Invariance, PTL

(* No marked field of a prompt default or of a response is stored, in the log or *)
(* in the table, whoever answered.                                               *)
THEOREM MarkedIsRedacted == Spec => []MarkedFieldsAreRedacted
  <1>1. IInv => MarkedFieldsAreRedacted
    <2> SUFFICES ASSUME IInv PROVE MarkedFieldsAreRedacted
      OBVIOUS
    <2>1. DOMAIN interactions = 1..Len(interactions)
      BY DEF IInv, TypeInv
    <2> QED BY <2>1 DEF IInv, Rows, RowOK, Log, Accepted, MarkedFieldsAreRedacted
  <1> QED BY <1>1, Invariance, PTL

(* The recorded paths are those of the fields that the row has lost.             *)
THEOREM PathsAreExact == Spec => []RedactedPathsAreExact
  <1>1. IInv => RedactedPathsAreExact
    <2> SUFFICES ASSUME IInv PROVE RedactedPathsAreExact
      OBVIOUS
    <2>1. DOMAIN interactions = 1..Len(interactions)
      BY DEF IInv, TypeInv
    <2> QED BY <2>1 DEF IInv, Rows, RowOK, Lost, RedactedPathsAreExact
  <1> QED BY <1>1, Invariance, PTL

(* The agent is sent what was entered, the row what redaction leaves of that.    *)
THEOREM OriginalIsSent == Spec => []AgentGetsOriginal
  <1>1. IInv => AgentGetsOriginal
    <2> SUFFICES ASSUME IInv PROVE AgentGetsOriginal
      OBVIOUS
    <2>1. DOMAIN interactions = 1..Len(interactions)
      BY DEF IInv, TypeInv
    <2> QED BY <2>1 DEF IInv, Rows, RowOK, AgentGetsOriginal
  <1> QED BY <1>1, Invariance, PTL
===============================================================================
