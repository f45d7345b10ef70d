--------------------------- MODULE EdiExchangeProofs ---------------------------
(***************************************************************************)
(* The safety properties of EdiExchange hold for every set of calls, keys  *)
(* and document types.                                                     *)
(***************************************************************************)
EXTENDS EdiExchangeInv, TLAPS

\* What a step may rely on in the state it starts from.
LEMMA CallFacts ==
  ASSUME TypeOK, RowsWellFormed, CallsInPlace, NEW c \in Calls
  PROVE  /\ NoCall \notin Calls
         /\ KeyOf(c) \in Keys
         /\ row[KeyOf(c)] \in Row
         /\ doc[c] # NoCall => /\ doc[c] \in Calls
                               /\ row[KeyOf(c)].id = doc[c]
                               /\ row[KeyOf(c)].status # "absent"
                               /\ KeyOf(doc[c]) = KeyOf(c)
         /\ row[KeyOf(c)].status # "absent" => row[KeyOf(c)].id \in Calls
<1>1. KeyOf(c) \in Keys
  BY DEF TypeOK, Message, KeyOf
<1>2. row[KeyOf(c)] \in Row
  BY <1>1 DEF TypeOK
<1>3. doc[c] # NoCall => doc[c] \in Calls
  BY DEF TypeOK, CallOrNone
<1>4. doc[c] # NoCall => Stored(doc[c]) /\ KeyOf(doc[c]) = KeyOf(c)
  BY DEF CallsInPlace, CallInPlace
<1>5. row[KeyOf(c)].status # "absent" => row[KeyOf(c)].id \in Calls
  BY <1>1 DEF RowsWellFormed, HasRow
<1> QED
  BY <1>1, <1>2, <1>3, <1>4, <1>5, CallsAssumption DEF Stored, HasRow

\* The event of a call that holds a document is well formed.
LEMMA EventType ==
  ASSUME TypeOK, NEW c \in Calls, doc[c] \in Calls
  PROVE  LifecycleEvent(c) \in Event
<1>1. CASE answer[c] = NoCall
  BY <1>1 DEF LifecycleEvent, Event
<1>2. CASE answer[c] # NoCall
  BY <1>2 DEF LifecycleEvent, Event, TypeOK, CallOrNone
<1> QED
  BY <1>1, <1>2

\* A settlement's transaction keeps the tables well typed.
LEMMA CommitType ==
  ASSUME TypeOK, NEW c \in Calls, doc[c] \in Calls, NEW r \in Row,
         CommitSettlement(c, r)
  PROVE  TypeOK'
<1>1. LifecycleEvent(c) \in Event
  BY EventType
<1>2. row' \in [Keys -> Row]
  BY DEF TypeOK, CommitSettlement, KeyOf, Message
<1>3. outbox' \in [Calls -> Seq(Event)]
  BY <1>1 DEF TypeOK, CommitSettlement
<1>4. pc' \in [Calls -> Places]
  BY DEF TypeOK, CommitSettlement, Goto, Places
<1> QED
  BY <1>2, <1>3, <1>4 DEF TypeOK, CommitSettlement

LEMMA InitTypeOK == Init => TypeOK
  BY CallsAssumption, DocTypesAssumption
  DEF Init, TypeOK, NoRow, Row, NoReply, Reply, Statuses, CallOrNone, Places, Event, AckEvent

LEMMA NextTypeOK ==
  ASSUME TypeOK, RowsWellFormed, CallsInPlace, [Next]_vars
  PROVE  TypeOK'
<1>1. ASSUME NEW c \in Calls, Claim(c) PROVE TypeOK'
  <2>1. KeyOf(c) \in Keys /\ msg[c].doc_type \in DocTypes
    BY DocTypesAssumption DEF TypeOK, Message, KeyOf
  <2>2. ClaimedRow(c) \in Row
    BY <2>1 DEF ClaimedRow, Row, Statuses, CallOrNone
  <2>3. OpenedPlace(c) \in Places
    BY DEF OpenedPlace, Places
  <2>4. row' \in [Keys -> Row] /\ doc' \in [Calls -> CallOrNone]
    BY <1>1, <2>1, <2>2 DEF TypeOK, Claim, CallOrNone
  <2>5. pc' \in [Calls -> Places]
    BY <1>1, <2>3 DEF TypeOK, Claim, Goto, Places
  <2> QED
    BY <1>1, <2>4, <2>5 DEF TypeOK, Claim
<1>2. ASSUME NEW c \in Calls, Fetch(c) PROVE TypeOK'
  <2>1. row[KeyOf(c)] \in Row /\ row[KeyOf(c)].status # "absent"
    BY <1>2, CallFacts DEF Fetch, CallsInPlace, CallInPlace, HasRow
  <2>2. StoredReply(row[KeyOf(c)], TRUE) \in Reply
    BY <2>1 DEF StoredReply, Row, Reply
  <2> QED
    BY <1>2, <2>2 DEF TypeOK, Fetch, Goto, Places
<1>3. ASSUME NEW c \in Calls, Reset(c) PROVE TypeOK'
  <2>1. KeyOf(c) \in Keys /\ row[KeyOf(c)] \in Row
    BY CallFacts
  <2>2. ResetRow(row[KeyOf(c)], c) \in Row /\ row[KeyOf(c)].id \in CallOrNone
    BY <2>1 DEF ResetRow, Row, Statuses, CallOrNone
  <2>3. OpenedPlace(c) \in Places
    BY DEF OpenedPlace, Places
  <2>4. row' \in [Keys -> Row] /\ doc' \in [Calls -> CallOrNone]
    BY <1>3, <2>1, <2>2 DEF TypeOK, Reset
  <2>5. pc' \in [Calls -> Places]
    BY <1>3, <2>3 DEF TypeOK, Reset, Goto, Places
  <2> QED
    BY <1>3, <2>4, <2>5 DEF TypeOK, Reset
<1>4. ASSUME NEW c \in Calls, MapAccepted(c) PROVE TypeOK'
  <2>1. doc[c] \in Calls
    BY <1>4, CallFacts DEF MapAccepted, CallsInPlace, CallInPlace
  <2> QED
    BY <1>4, <2>1 DEF TypeOK, MapAccepted, IdempotencyKey, Goto, Places, CallOrNone
<1>5. ASSUME NEW c \in Calls, MapRejected(c) PROVE TypeOK'
  BY <1>5 DEF TypeOK, MapRejected, Goto, Places
<1>6. ASSUME NEW c \in Calls, SettleMapped(c) PROVE TypeOK'
  <2>1. doc[c] \in Calls /\ row[KeyOf(c)] \in Row
    BY <1>6, CallFacts DEF SettleMapped, CallsInPlace, CallInPlace
  <2>2. MappedRow(row[KeyOf(c)], answer[c]) \in Row
    BY <2>1 DEF TypeOK, MappedRow, Row, Statuses, CallOrNone
  <2> QED
    BY <1>6, <2>1, <2>2, CommitType DEF SettleMapped
<1>7. ASSUME NEW c \in Calls, SettleFailed(c) \/ RecordRefusal(c) PROVE TypeOK'
  <2>1. doc[c] \in Calls /\ row[KeyOf(c)] \in Row
    BY <1>7, CallFacts DEF SettleFailed, RecordRefusal, CallsInPlace, CallInPlace
  <2>2. FailedRow(row[KeyOf(c)], c) \in Row
    BY <2>1 DEF FailedRow, Row, Statuses, CallOrNone
  <2> QED
    BY <1>7, <2>1, <2>2, CommitType DEF SettleFailed, RecordRefusal
<1>8. ASSUME NEW c \in Calls, LoseSettlement(c) \/ Die(c) PROVE TypeOK'
  BY <1>8 DEF TypeOK, LoseSettlement, Die, Goto, Places
<1>9. ASSUME NEW c \in Calls, LoseRefusal(c) \/ Publish(c) PROVE TypeOK'
  <2>1. SettledReply(c) \in Reply
    BY DEF TypeOK, SettledReply, Reply, Statuses
  <2>2. Publish(c) => LifecycleEvent(c) \in Event
    BY CallFacts, EventType DEF Publish, CallsInPlace, CallInPlace
  <2> QED
    BY <1>9, <2>1, <2>2 DEF TypeOK, LoseRefusal, Publish, Goto, Places
<1>10. ASSUME NEW c \in Calls, Reread(c) PROVE TypeOK'
  <2>1. row[KeyOf(c)] \in Row /\ row[KeyOf(c)].status # "absent"
    BY <1>10, CallFacts DEF Reread, CallsInPlace, CallInPlace
  <2>2. StoredReply(row[KeyOf(c)], FALSE) \in Reply
    BY <2>1 DEF StoredReply, Row, Reply
  <2> QED
    BY <1>10, <2>2 DEF TypeOK, Reread, Goto, Places
<1>11. ASSUME NEW k \in Keys, Acknowledge(k) PROVE TypeOK'
  <2>1. row[k] \in Row /\ row[k].id \in Calls /\ row[k].copy \in Calls
    BY <1>11 DEF TypeOK, RowsWellFormed, HasRow, Acknowledge, AckMatches
  <2>2. AcknowledgedRow(row[k]) \in Row
    BY <2>1 DEF AcknowledgedRow, Row, Statuses
  <2>3. AckOf(row[k]) \in AckEvent
    <3>1. CASE row[k].status = "mapped"
      BY <3>1, <2>1 DEF AckOf, AckEvent
    <3>2. CASE row[k].status = "failed"
      BY <3>2, <2>1 DEF AckOf, AckEvent, RowsWellFormed
    <3> QED
      BY <1>11, <3>1, <3>2 DEF Acknowledge, AckMatches
  <2> QED
    BY <1>11, <2>2, <2>3 DEF TypeOK, Acknowledge
<1>12. ASSUME NEW a \in ackPending, PublishAck(a) \/ DropAck(a) PROVE TypeOK'
  BY <1>12 DEF TypeOK, PublishAck, DropAck
<1>13. CASE UNCHANGED vars
  BY <1>13 DEF TypeOK, vars
<1> QED
  BY <1>1, <1>2, <1>3, <1>4, <1>5, <1>6, <1>7, <1>8, <1>9, <1>10, <1>11, <1>12,
     <1>13 DEF Next, Step

-------------------------------------------------------------------------------
(* What a step does to the tables: insert a row, re-open one, record an order, *)
(* settle a row, acknowledge one, or nothing.                                  *)

Inserts(c) ==
  /\ ~HasRow(KeyOf(c))
  /\ row' = [row EXCEPT ![KeyOf(c)] = ClaimedRow(c)]
  /\ UNCHANGED <<outbox, orders>>

Reopens(c) ==
  /\ row[KeyOf(c)].status \in {"received", "failed"}
  /\ row' = [row EXCEPT ![KeyOf(c)] = ResetRow(@, c)]
  /\ UNCHANGED <<outbox, orders>>

Orders(c) ==
  /\ doc[c] # NoCall
  /\ orders' = [orders EXCEPT ![doc[c]] = IF @ = NoCall THEN c ELSE @]
  /\ UNCHANGED <<row, outbox>>

Settles(c) ==
  /\ doc[c] # NoCall
  /\ row[KeyOf(c)].status \in {"received", "failed"}
  /\ answer[c] = NoCall => row[KeyOf(c)].status = "received"
  /\ row' = [row EXCEPT ![KeyOf(c)] =
               IF answer[c] # NoCall THEN MappedRow(@, answer[c])
                                     ELSE FailedRow(@, c)]
  /\ outbox' = [outbox EXCEPT ![doc[c]] = Append(@, LifecycleEvent(c))]
  /\ orders' = orders

Closes(k) ==
  /\ row[k].status \in {"mapped", "failed"}
  /\ row' = [row EXCEPT ![k] = AcknowledgedRow(@)]
  /\ UNCHANGED <<outbox, orders>>

TableStep ==
  \/ \E c \in Calls : Inserts(c) \/ Reopens(c) \/ Orders(c) \/ Settles(c)
  \/ \E k \in Keys : Closes(k)
  \/ UNCHANGED <<row, outbox, orders>>

LEMMA SettlesByAction ==
  ASSUME CallsInPlace, NEW c \in Calls,
         SettleMapped(c) \/ SettleFailed(c) \/ RecordRefusal(c)
  PROVE  Settles(c) /\ msg' = msg
<1>1. doc[c] # NoCall
  BY DEF CallsInPlace, CallInPlace, SettleMapped, SettleFailed, RecordRefusal
<1>2. CASE SettleMapped(c)
  BY <1>1, <1>2 DEF SettleMapped, CommitSettlement, MarkMappedMatches, Settles
<1>3. CASE SettleFailed(c)
  BY <1>1, <1>3 DEF SettleFailed, CommitSettlement, MarkFailedMatches, Settles
<1>4. CASE RecordRefusal(c)
  <2>1. answer[c] = NoCall
    BY <1>4 DEF RecordRefusal, CallsInPlace, CallInPlace
  <2> QED
    BY <1>1, <1>4, <2>1 DEF RecordRefusal, CommitSettlement, MarkFailedMatches, Settles
<1> QED
  BY <1>2, <1>3, <1>4

LEMMA TableSteps ==
  ASSUME TypeOK, CallsInPlace, [Next]_vars
  PROVE  TableStep /\ msg' = msg
<1>1. ASSUME NEW c \in Calls, Claim(c) PROVE TableStep /\ msg' = msg
  BY <1>1 DEF Claim, ClaimWins, TableStep, Inserts, HasRow
<1>2. ASSUME NEW c \in Calls, Reset(c) PROVE TableStep /\ msg' = msg
  BY <1>2 DEF Reset, ResetMatches, TableStep, Reopens
<1>3. ASSUME NEW c \in Calls, MapAccepted(c) PROVE TableStep /\ msg' = msg
  <2>1. doc[c] # NoCall /\ doc[c] \in Calls
    BY <1>3 DEF MapAccepted, CallsInPlace, CallInPlace, TypeOK, CallOrNone
  <2>2. Orders(c)
    BY <1>3, <2>1 DEF MapAccepted, IdempotencyKey, Orders, TypeOK
  <2> QED
    BY <1>3, <2>2 DEF MapAccepted, TableStep
<1>4. ASSUME NEW c \in Calls, SettleMapped(c) \/ SettleFailed(c) \/ RecordRefusal(c)
      PROVE  TableStep /\ msg' = msg
  BY <1>4, SettlesByAction DEF TableStep
<1>5. ASSUME NEW c \in Calls,
             \/ Fetch(c) \/ MapRejected(c) \/ LoseSettlement(c) \/ LoseRefusal(c)
             \/ Publish(c) \/ Reread(c) \/ Die(c)
      PROVE  TableStep /\ msg' = msg
  BY <1>5 DEF Fetch, MapRejected, LoseSettlement, LoseRefusal, Publish, Reread,
     Die, TableStep
<1>6. ASSUME NEW k \in Keys, Acknowledge(k) PROVE TableStep /\ msg' = msg
  BY <1>6 DEF Acknowledge, AckMatches, TableStep, Closes
<1>7. ASSUME NEW a \in ackPending, PublishAck(a) \/ DropAck(a)
      PROVE  TableStep /\ msg' = msg
  BY <1>7 DEF PublishAck, DropAck, TableStep
<1>8. CASE UNCHANGED vars
  BY <1>8 DEF vars, TableStep
<1> QED
  BY <1>1, <1>2, <1>3, <1>4, <1>5, <1>6, <1>7, <1>8 DEF Next, Step

-------------------------------------------------------------------------------
(* The conjuncts of the invariant that speak of the tables alone *)

LEMMA RowsWellFormedStep ==
  ASSUME TypeOK, RowsWellFormed, CallsInPlace, TableStep, msg' = msg
  PROVE  RowsWellFormed'
<1> USE CallsAssumption
<1>1. ASSUME NEW c \in Calls, Inserts(c) PROVE RowsWellFormed'
  <2>1. KeyOf(c) \in Keys /\ NoCall \notin Calls
    BY CallFacts
  <2> QED
    BY <1>1, <2>1 DEF Inserts, ClaimedRow, RowsWellFormed, HasRow, NoRow, KeyOf, TypeOK
<1>2. ASSUME NEW c \in Calls, Reopens(c) PROVE RowsWellFormed'
  <2>1. KeyOf(c) \in Keys /\ row[KeyOf(c)] \in Row /\ NoCall \notin Calls
    BY CallFacts
  <2>2. row'[KeyOf(c)] = ResetRow(row[KeyOf(c)], c)
    BY <1>2, <2>1 DEF Reopens, TypeOK
  <2>3. \A k \in Keys : k # KeyOf(c) => row'[k] = row[k]
    BY <1>2, <2>1 DEF Reopens, TypeOK
  <2> QED
    BY <1>2, <2>1, <2>2, <2>3 DEF Reopens, ResetRow, RowsWellFormed, HasRow, KeyOf, Row
<1>3. ASSUME NEW c \in Calls, Settles(c) PROVE RowsWellFormed'
  <2>1. KeyOf(c) \in Keys /\ row[KeyOf(c)] \in Row /\ NoCall \notin Calls
    BY CallFacts
  <2>2. \A k \in Keys : k # KeyOf(c) => row'[k] = row[k]
    BY <1>3, <2>1 DEF Settles, TypeOK
  <2>3. CASE answer[c] # NoCall
    <3>1. row'[KeyOf(c)] = MappedRow(row[KeyOf(c)], answer[c]) /\ answer[c] \in Calls
      BY <1>3, <2>1, <2>3 DEF Settles, TypeOK, CallOrNone
    <3> QED
      BY <1>3, <2>1, <2>2, <3>1 DEF Settles, MappedRow, RowsWellFormed, HasRow, KeyOf, Row
  <2>4. CASE answer[c] = NoCall
    <3>1. row'[KeyOf(c)] = FailedRow(row[KeyOf(c)], c)
      BY <1>3, <2>1, <2>4 DEF Settles, TypeOK
    <3>2. row[KeyOf(c)].status \in {"received", "failed"}
      BY <1>3 DEF Settles
    <3>3. /\ row'[KeyOf(c)].status = "failed" /\ row'[KeyOf(c)].error = c
          /\ row'[KeyOf(c)].id = row[KeyOf(c)].id
          /\ row'[KeyOf(c)].copy = row[KeyOf(c)].copy
          /\ row'[KeyOf(c)].ref = row[KeyOf(c)].ref
      BY <2>1, <3>1 DEF FailedRow, Row
    <3> QED
      BY <2>1, <2>2, <3>2, <3>3 DEF RowsWellFormed, HasRow, KeyOf
  <2> QED
    BY <2>3, <2>4
<1>4. ASSUME NEW k \in Keys, Closes(k) PROVE RowsWellFormed'
  BY <1>4 DEF Closes, AcknowledgedRow, RowsWellFormed, HasRow, KeyOf, Row, TypeOK
<1>5. ASSUME NEW c \in Calls, Orders(c) PROVE RowsWellFormed'
  BY <1>5 DEF Orders, RowsWellFormed, HasRow, KeyOf
<1>6. CASE UNCHANGED <<row, outbox, orders>>
  BY <1>6 DEF RowsWellFormed, HasRow, KeyOf
<1> QED
  BY <1>1, <1>2, <1>3, <1>4, <1>5, <1>6 DEF TableStep

(* How the tables grow. *)

RowsPersist ==
  \A k \in Keys :
    /\ HasRow(k) => HasRow(k)' /\ row'[k].id = row[k].id
    /\ row[k].status = "mapped" =>
         row'[k].status \in {"mapped", "acknowledged"} /\ row'[k].ref = row[k].ref
    /\ row[k].status = "acknowledged" => row'[k] = row[k]

OrdersPersist ==
  \A d \in Calls : orders[d] # NoCall => orders'[d] = orders[d]

OutboxGrows ==
  \A d \in Calls :
    \/ outbox'[d] = outbox[d]
    \/ \E c \in Calls : /\ Settles(c) /\ d = doc[c]
                        /\ outbox'[d] = Append(outbox[d], LifecycleEvent(c))

LEMMA TablesGrow ==
  ASSUME TypeOK, RowsWellFormed, CallsInPlace, TableStep
  PROVE  RowsPersist /\ OrdersPersist /\ OutboxGrows
<1>1. RowsPersist
  <2>1. ASSUME NEW c \in Calls, Inserts(c) PROVE RowsPersist
    BY <2>1, CallFacts DEF Inserts, RowsPersist, HasRow, TypeOK
  <2>2. ASSUME NEW c \in Calls, Reopens(c) PROVE RowsPersist
    BY <2>2, CallFacts DEF Reopens, ResetRow, RowsPersist, HasRow, TypeOK, Row
  <2>3. ASSUME NEW c \in Calls, Settles(c) PROVE RowsPersist
    BY <2>3, CallFacts DEF Settles, MappedRow, FailedRow, RowsPersist, HasRow, TypeOK, Row
  <2>4. ASSUME NEW k \in Keys, Closes(k) PROVE RowsPersist
    BY <2>4 DEF Closes, AcknowledgedRow, RowsPersist, HasRow, TypeOK, Row
  <2>5. CASE row' = row
    BY <2>5 DEF RowsPersist, HasRow
  <2> QED
    BY <2>1, <2>2, <2>3, <2>4, <2>5 DEF TableStep, Orders
<1>2. OrdersPersist
  BY DEF TableStep, Inserts, Reopens, Orders, Settles, Closes, OrdersPersist, TypeOK
<1>3. OutboxGrows
  <2>1. ASSUME NEW c \in Calls, Settles(c) PROVE OutboxGrows
    BY <2>1, CallFacts DEF Settles, OutboxGrows, TypeOK
  <2>2. CASE outbox' = outbox
    BY <2>2 DEF OutboxGrows
  <2> QED
    BY <2>1, <2>2 DEF TableStep, Inserts, Reopens, Orders, Closes
<1> QED
  BY <1>1, <1>2, <1>3

\* A stored document stays stored, and an entry of the outbox stays where it is.
LEMMA HistoryPersists ==
  ASSUME TypeOK, RowsWellFormed, CallsInPlace, TableStep, msg' = msg, NEW d \in Calls
  PROVE  /\ Stored(d) => Stored(d)'
         /\ outbox[d] \in Seq(Event)
         /\ Len(outbox[d]) \in Nat
         /\ \A i \in 1 .. Len(outbox[d]) :
              i \in 1 .. Len(outbox'[d]) /\ outbox'[d][i] = outbox[d][i]
<1>1. RowsPersist /\ OutboxGrows
  BY TablesGrow
<1>2. KeyOf(d) \in Keys
  BY CallFacts
<1>3. Stored(d) => Stored(d)'
  BY <1>1, <1>2 DEF RowsPersist, Stored, HasRow, KeyOf
<1>4. outbox[d] \in Seq(Event) /\ Len(outbox[d]) \in Nat
  BY DEF TypeOK
<1>5. CASE outbox'[d] = outbox[d]
  BY <1>3, <1>4, <1>5
<1>6. CASE \E c \in Calls : /\ Settles(c) /\ d = doc[c]
                            /\ outbox'[d] = Append(outbox[d], LifecycleEvent(c))
  <2>1. PICK e : outbox'[d] = Append(outbox[d], e)
    BY <1>6
  <2>2. Len(outbox'[d]) = Len(outbox[d]) + 1
    BY <1>4, <2>1
  <2>3. \A i \in 1 .. Len(outbox[d]) : outbox'[d][i] = outbox[d][i]
    BY <1>4, <2>1
  <2> QED
    BY <1>3, <1>4, <2>2, <2>3
<1> QED
  BY <1>1, <1>5, <1>6 DEF OutboxGrows

\* The whole effect of a settlement on the row and the events of its document,
\* and that no other document is touched.
LEMMA SettlesShape ==
  ASSUME TypeOK, RowsWellFormed, CallsInPlace, NEW c \in Calls, Settles(c)
  PROVE  /\ KeyOf(c) \in Keys /\ doc[c] \in Calls /\ row[KeyOf(c)].id = doc[c]
         /\ row[KeyOf(c)].status \in {"received", "failed"}
         /\ row[KeyOf(c)].ref = NoCall
         /\ row'[KeyOf(c)].id = doc[c]
         /\ answer[c] # NoCall =>
              /\ row'[KeyOf(c)].status = "mapped" /\ row'[KeyOf(c)].ref = answer[c]
              /\ orders[doc[c]] = answer[c]
         /\ answer[c] = NoCall =>
              /\ row'[KeyOf(c)].status = "failed" /\ row'[KeyOf(c)].ref = NoCall
              /\ row'[KeyOf(c)].error = c
         /\ outbox'[doc[c]] = Append(outbox[doc[c]], LifecycleEvent(c))
         /\ Len(outbox'[doc[c]]) = Len(outbox[doc[c]]) + 1
         /\ LastOf(outbox'[doc[c]]) = LifecycleEvent(c)
         /\ \A d \in Calls : d # doc[c] => outbox'[d] = outbox[d]
         /\ \A k \in Keys : k # KeyOf(c) =>
              row'[k] = row[k] /\ (HasRow(k) => row[k].id # doc[c])
<1>1. /\ KeyOf(c) \in Keys /\ row[KeyOf(c)] \in Row /\ doc[c] \in Calls
      /\ row[KeyOf(c)].id = doc[c] /\ KeyOf(doc[c]) = KeyOf(c)
  BY CallFacts DEF Settles
<1>2. /\ row[KeyOf(c)].status \in {"received", "failed"}
      /\ row[KeyOf(c)].ref = NoCall
  BY <1>1 DEF Settles, RowsWellFormed
<1>3. ASSUME answer[c] # NoCall
      PROVE  /\ row'[KeyOf(c)].status = "mapped" /\ row'[KeyOf(c)].ref = answer[c]
             /\ row'[KeyOf(c)].id = doc[c] /\ orders[doc[c]] = answer[c]
  <2>1. row'[KeyOf(c)] = MappedRow(row[KeyOf(c)], answer[c])
    BY <1>1, <1>3 DEF Settles, TypeOK
  <2>2. orders[doc[c]] = answer[c]
    BY <1>3 DEF CallsInPlace, CallInPlace
  <2> QED
    BY <1>1, <2>1, <2>2 DEF MappedRow, Row
<1>4. ASSUME answer[c] = NoCall
      PROVE  /\ row'[KeyOf(c)].status = "failed" /\ row'[KeyOf(c)].ref = NoCall
             /\ row'[KeyOf(c)].id = doc[c] /\ row'[KeyOf(c)].error = c
  <2>1. row'[KeyOf(c)] = FailedRow(row[KeyOf(c)], c)
    BY <1>1, <1>4 DEF Settles, TypeOK
  <2> QED
    BY <1>1, <1>2, <2>1 DEF FailedRow, Row
<1>5. outbox'[doc[c]] = Append(outbox[doc[c]], LifecycleEvent(c))
  BY <1>1 DEF Settles, TypeOK
<1>6. outbox[doc[c]] \in Seq(Event) /\ LifecycleEvent(c) \in Event
  BY <1>1, EventType DEF TypeOK
<1>7. /\ Len(outbox'[doc[c]]) = Len(outbox[doc[c]]) + 1
      /\ LastOf(outbox'[doc[c]]) = LifecycleEvent(c)
  BY <1>5, <1>6 DEF LastOf
<1>8. \A d \in Calls : d # doc[c] => outbox'[d] = outbox[d]
  BY <1>1 DEF Settles, TypeOK
<1>9. \A k \in Keys : k # KeyOf(c) =>
        row'[k] = row[k] /\ (HasRow(k) => row[k].id # doc[c])
  BY <1>1 DEF Settles, TypeOK, RowsWellFormed
<1> QED
  BY <1>1, <1>2, <1>3, <1>4, <1>5, <1>7, <1>8, <1>9

LEMMA OutboxOfStoredStep ==
  ASSUME TypeOK, RowsWellFormed, CallsInPlace, OutboxOfStored, TableStep, msg' = msg
  PROVE  OutboxOfStored'
<1> SUFFICES ASSUME NEW d \in Calls, outbox'[d] # <<>> PROVE Stored(d)'
  BY DEF OutboxOfStored
<1>1. CASE outbox'[d] = outbox[d]
  BY <1>1, HistoryPersists DEF OutboxOfStored
<1>2. ASSUME NEW c \in Calls, Settles(c), d = doc[c] PROVE Stored(d)'
  BY <1>2, CallFacts, HistoryPersists DEF CallsInPlace, CallInPlace, Settles
<1> QED
  BY <1>1, <1>2, TablesGrow DEF OutboxGrows

LEMMA OrdersOfStoredStep ==
  ASSUME TypeOK, RowsWellFormed, CallsInPlace, OrdersOfStored, TableStep, msg' = msg
  PROVE  OrdersOfStored'
<1> SUFFICES ASSUME NEW d \in Calls, orders'[d] # NoCall PROVE Stored(d)'
  BY DEF OrdersOfStored
<1>1. CASE orders'[d] = orders[d]
  BY <1>1, HistoryPersists DEF OrdersOfStored
<1>2. ASSUME NEW c \in Calls, Orders(c) PROVE Stored(d)'
  <2>1. d = doc[c] \/ orders'[d] = orders[d]
    BY <1>2 DEF Orders, TypeOK
  <2> QED
    BY <1>1, <1>2, <2>1, HistoryPersists DEF Orders, CallsInPlace, CallInPlace
<1> QED
  BY <1>1, <1>2 DEF TableStep, Inserts, Reopens, Settles, Closes

\* The last event of a log is one of its entries, and typed.
LEMMA LastEvent ==
  ASSUME TypeOK, NEW d \in Calls, outbox[d] # <<>>
  PROVE  /\ Len(outbox[d]) \in 1 .. Len(outbox[d])
         /\ LastOf(outbox[d]) = outbox[d][Len(outbox[d])]
         /\ LastOf(outbox[d]) \in Event
  BY DEF TypeOK, LastOf

LEMMA MappedIsFinalStep ==
  ASSUME TypeOK, RowsWellFormed, CallsInPlace, RowAgreesWithOutbox, MappedIsFinal,
         TableStep
  PROVE  MappedIsFinal'
<1>1. ASSUME NEW c \in Calls, Settles(c) PROVE MappedIsFinal'
  <2>1. \A i \in 1 .. Len(outbox[doc[c]]) : outbox[doc[c]][i].type # "mapped"
    <3> SUFFICES ASSUME NEW i \in 1 .. Len(outbox[doc[c]]),
                        outbox[doc[c]][i].type = "mapped"
                 PROVE  FALSE
      OBVIOUS
    <3>1. doc[c] \in Calls /\ i = Len(outbox[doc[c]]) /\ outbox[doc[c]] # <<>>
      BY <1>1, SettlesShape DEF MappedIsFinal
    <3>2. LastOf(outbox[doc[c]]).type = "failed"
      BY <1>1, <3>1, SettlesShape DEF RowAgreesWithOutbox, HasRow
    <3> QED
      BY <3>1, <3>2 DEF LastOf
  <2> SUFFICES ASSUME NEW d \in Calls, NEW i \in 1 .. Len(outbox'[d]),
                      outbox'[d][i].type = "mapped"
               PROVE  i = Len(outbox'[d])
    BY DEF MappedIsFinal
  <2>2. CASE d # doc[c]
    BY <1>1, <2>2, SettlesShape DEF MappedIsFinal
  <2>3. CASE d = doc[c]
    <3>1. /\ outbox[d] \in Seq(Event) /\ Len(outbox'[d]) = Len(outbox[d]) + 1
          /\ outbox'[d] = Append(outbox[d], LifecycleEvent(c))
      BY <1>1, <2>3, SettlesShape DEF TypeOK
    <3>2. \A j \in 1 .. Len(outbox[d]) : outbox'[d][j] = outbox[d][j]
      BY <3>1
    <3> QED
      BY <2>1, <2>3, <3>1, <3>2
  <2> QED
    BY <2>2, <2>3
<1>2. CASE outbox' = outbox
  BY <1>2 DEF MappedIsFinal
<1> QED
  BY <1>1, <1>2 DEF TableStep, Inserts, Reopens, Orders, Closes

LEMMA RowAgreesStep ==
  ASSUME TypeOK, RowsWellFormed, CallsInPlace, OutboxOfStored, RowAgreesWithOutbox,
         TableStep
  PROVE  RowAgreesWithOutbox'
<1>1. ASSUME NEW c \in Calls, Inserts(c) PROVE RowAgreesWithOutbox'
  <2>1. KeyOf(c) \in Keys /\ ~Stored(c)
    BY <1>1, CallFacts DEF Inserts, Stored
  <2>2. outbox[c] = <<>>
    BY <2>1 DEF OutboxOfStored
  <2>3. row'[KeyOf(c)] = ClaimedRow(c)
    BY <1>1, <2>1 DEF Inserts, TypeOK
  <2>4. \A k \in Keys : k # KeyOf(c) => row'[k] = row[k]
    BY <1>1, <2>1 DEF Inserts, TypeOK
  <2> QED
    BY <1>1, <2>2, <2>3, <2>4 DEF Inserts, ClaimedRow, RowAgreesWithOutbox, HasRow, LastOf
<1>2. ASSUME NEW c \in Calls, Reopens(c) PROVE RowAgreesWithOutbox'
  <2>1. KeyOf(c) \in Keys /\ row[KeyOf(c)] \in Row
    BY CallFacts
  <2>2. /\ row'[KeyOf(c)].status = "received"
        /\ row'[KeyOf(c)].id = row[KeyOf(c)].id
    BY <1>2, <2>1 DEF Reopens, ResetRow, TypeOK, Row
  <2>3. \A k \in Keys : k # KeyOf(c) => row'[k] = row[k]
    BY <1>2, <2>1 DEF Reopens, TypeOK
  <2>4. LET log == outbox[row[KeyOf(c)].id]
        IN  log = <<>> \/ LastOf(log).type = "failed"
    BY <1>2, <2>1 DEF Reopens, RowAgreesWithOutbox, HasRow
  <2>5. ASSUME NEW k \in Keys, HasRow(k)'
        PROVE  LET r == row'[k]
                   log == outbox'[r.id]
               IN  /\ r.status = "received" => log = <<>> \/ LastOf(log).type = "failed"
                   /\ r.status = "mapped" =>
                        log # <<>> /\ LastOf(log).type = "mapped" /\ LastOf(log).ref = r.ref
                   /\ r.status = "failed" =>
                        log # <<>> /\ LastOf(log).type = "failed" /\ LastOf(log).by = r.error
                   /\ r.status = "acknowledged" => log # <<>>
    <3>1. CASE k = KeyOf(c)
      BY <1>2, <2>2, <2>4, <3>1 DEF Reopens
    <3>2. CASE k # KeyOf(c)
      BY <1>2, <2>3, <2>5, <3>2 DEF Reopens, RowAgreesWithOutbox, HasRow
    <3> QED
      BY <3>1, <3>2
  <2> QED
    BY <2>5 DEF RowAgreesWithOutbox, LastOf
<1>3. ASSUME NEW c \in Calls, Settles(c) PROVE RowAgreesWithOutbox'
  <2>1. LifecycleEvent(c).type = IF answer[c] # NoCall THEN "mapped" ELSE "failed"
    BY DEF LifecycleEvent
  <2>2. LifecycleEvent(c).by = c /\ LifecycleEvent(c).ref = answer[c]
    BY DEF LifecycleEvent
  <2>3. outbox'[doc[c]] # <<>>
    <3>1. Len(outbox'[doc[c]]) = Len(outbox[doc[c]]) + 1 /\ Len(outbox[doc[c]]) \in Nat
      BY <1>3, SettlesShape DEF TypeOK
    <3> QED
      BY <3>1
  <2>4. ASSUME NEW k \in Keys, HasRow(k)'
        PROVE  LET r == row'[k]
                   log == outbox'[r.id]
               IN  /\ r.status = "received" => log = <<>> \/ LastOf(log).type = "failed"
                   /\ r.status = "mapped" =>
                        log # <<>> /\ LastOf(log).type = "mapped" /\ LastOf(log).ref = r.ref
                   /\ r.status = "failed" =>
                        log # <<>> /\ LastOf(log).type = "failed" /\ LastOf(log).by = r.error
                   /\ r.status = "acknowledged" => log # <<>>
    <3>1. CASE k = KeyOf(c)
      BY <1>3, <2>1, <2>2, <2>3, <3>1, SettlesShape
    <3>2. CASE k # KeyOf(c)
      <4>1. row'[k] = row[k] /\ HasRow(k) /\ row[k].id \in Calls
        BY <1>3, <2>4, <3>2, SettlesShape DEF HasRow, RowsWellFormed
      <4>2. outbox'[row[k].id] = outbox[row[k].id]
        BY <1>3, <3>2, <4>1, SettlesShape
      <4> QED
        BY <4>1, <4>2 DEF RowAgreesWithOutbox
    <3> QED
      BY <3>1, <3>2
  <2> QED
    BY <2>4 DEF RowAgreesWithOutbox, LastOf
<1>4. ASSUME NEW k \in Keys, Closes(k) PROVE RowAgreesWithOutbox'
  <2>1. /\ row'[k].status = "acknowledged" /\ row'[k].id = row[k].id
        /\ outbox[row[k].id] # <<>>
    BY <1>4 DEF Closes, AcknowledgedRow, RowAgreesWithOutbox, HasRow, TypeOK, Row
  <2>2. \A j \in Keys : j # k => row'[j] = row[j]
    BY <1>4 DEF Closes, TypeOK
  <2>3. ASSUME NEW j \in Keys, HasRow(j)'
        PROVE  LET r == row'[j]
                   log == outbox'[r.id]
               IN  /\ r.status = "received" => log = <<>> \/ LastOf(log).type = "failed"
                   /\ r.status = "mapped" =>
                        log # <<>> /\ LastOf(log).type = "mapped" /\ LastOf(log).ref = r.ref
                   /\ r.status = "failed" =>
                        log # <<>> /\ LastOf(log).type = "failed" /\ LastOf(log).by = r.error
                   /\ r.status = "acknowledged" => log # <<>>
    <3>1. CASE j = k
      BY <1>4, <2>1, <3>1 DEF Closes
    <3>2. CASE j # k
      BY <1>4, <2>2, <2>3, <3>2 DEF Closes, RowAgreesWithOutbox, HasRow
    <3> QED
      BY <3>1, <3>2
  <2> QED
    BY <2>3 DEF RowAgreesWithOutbox, LastOf
<1>5. CASE UNCHANGED <<row, outbox>>
  BY <1>5 DEF RowAgreesWithOutbox, HasRow, LastOf
<1> QED
  BY <1>1, <1>2, <1>3, <1>4, <1>5 DEF TableStep, Orders

LEMMA RefsAreOrdersStep ==
  ASSUME TypeOK, RowsWellFormed, CallsInPlace, RowAgreesWithOutbox, RefsAreOrders,
         TableStep
  PROVE  RefsAreOrders'
<1> SUFFICES ASSUME NEW k \in Keys
             PROVE  /\ row'[k].ref # NoCall => orders'[row'[k].id] = row'[k].ref
                    /\ row'[k].status = "acknowledged" =>
                         (row'[k].ref # NoCall
                            <=> LastOf(outbox'[row'[k].id]).type = "mapped")
  BY DEF RefsAreOrders, LastOf
<1> DEFINE Sound == /\ row'[k].ref # NoCall => orders'[row'[k].id] = row'[k].ref
                    /\ row'[k].status = "acknowledged" =>
                         (row'[k].ref # NoCall
                            <=> LastOf(outbox'[row'[k].id]).type = "mapped")
<1> DEFINE Kept == row'[k] = row[k] /\ UNCHANGED <<outbox, orders>>
<1>1. ASSUME Kept PROVE Sound
  BY <1>1 DEF RefsAreOrders
<1>2. ASSUME NEW c \in Calls, Inserts(c) PROVE Sound
  <2>1. Kept \/ row'[k] = ClaimedRow(c)
    BY <1>2 DEF Inserts, TypeOK
  <2> QED
    BY <1>1, <2>1 DEF ClaimedRow
<1>3. ASSUME NEW c \in Calls, Reopens(c)
      PROVE  Sound
  <2>1. Kept \/ (row'[k].status = "received" /\ row'[k].ref = NoCall)
    BY <1>3 DEF Reopens, ResetRow, TypeOK, Row
  <2> QED
    BY <1>1, <2>1
<1>4. ASSUME NEW c \in Calls, Orders(c)
      PROVE  Sound
  <2>1. row' = row /\ outbox' = outbox
    BY <1>4 DEF Orders
  <2>2. row[k].ref # NoCall => row[k].id \in Calls
    BY DEF RowsWellFormed, HasRow, NoRow
  <2>3. OrdersPersist
    BY TablesGrow
  <2> QED
    BY <2>1, <2>2, <2>3 DEF OrdersPersist, RefsAreOrders
<1>5. ASSUME NEW c \in Calls, Settles(c)
      PROVE  Sound
  <2>1. orders' = orders
    BY <1>5 DEF Settles
  <2>2. CASE k = KeyOf(c)
    <3>1. row'[k].status # "acknowledged"
      BY <1>5, <2>2, SettlesShape
    <3>2. row'[k].ref # NoCall => orders[row'[k].id] = row'[k].ref
      BY <1>5, <2>2, SettlesShape
    <3> QED
      BY <2>1, <3>1, <3>2
  <2>3. CASE k # KeyOf(c)
    <3>1. row'[k] = row[k]
      BY <1>5, <2>3, SettlesShape
    <3>2. HasRow(k) => outbox'[row[k].id] = outbox[row[k].id]
      BY <1>5, <2>3, SettlesShape DEF RowsWellFormed
    <3> QED
      BY <2>1, <3>1, <3>2 DEF RefsAreOrders, HasRow
  <2> QED
    BY <2>2, <2>3
<1>6. ASSUME NEW j \in Keys, Closes(j)
      PROVE  Sound
  <2>1. CASE k # j
    BY <1>1, <1>6, <2>1 DEF Closes, TypeOK
  <2>2. CASE k = j
    <3>1. /\ row'[k].ref = row[k].ref /\ row'[k].id = row[k].id
          /\ row[k].status \in {"mapped", "failed"}
      BY <1>6, <2>2 DEF Closes, AcknowledgedRow, TypeOK, Row
    <3>2. row[k].ref # NoCall <=> LastOf(outbox[row[k].id]).type = "mapped"
      BY <3>1, CallsAssumption DEF RowsWellFormed, RowAgreesWithOutbox, HasRow
    <3> QED
      BY <1>6, <3>1, <3>2 DEF Closes, RefsAreOrders
  <2> QED
    BY <2>1, <2>2
<1>7. ASSUME UNCHANGED <<row, outbox, orders>> PROVE Sound
  BY <1>1, <1>7
<1> HIDE DEF Sound
<1>8. Sound
  BY <1>2, <1>3, <1>4, <1>5, <1>6, <1>7 DEF TableStep
<1> QED
  BY <1>8 DEF Sound

-------------------------------------------------------------------------------
(* The conjuncts that speak of the calls *)

LEMMA CallsInPlaceStep ==
  ASSUME TypeOK, RowsWellFormed, CallsInPlace, OrdersOfStored, TypeOK',
         TableStep, msg' = msg, [Next]_vars
  PROVE  CallsInPlace'
<1> USE CallsAssumption
<1> SUFFICES ASSUME NEW d \in Calls PROVE CallInPlace(d)'
  BY DEF CallsInPlace
<1>1. /\ KeyOf(d) \in Keys
      /\ HasRow(KeyOf(d)) => HasRow(KeyOf(d))'
  BY CallFacts, TablesGrow DEF RowsPersist, HasRow, KeyOf
<1>2. doc[d] # NoCall => /\ doc[d] \in Calls /\ KeyOf(doc[d]) = KeyOf(d)
                         /\ row'[KeyOf(d)].status # "absent"
                         /\ row'[KeyOf(d)].id = doc[d]
  BY <1>1, CallFacts, TablesGrow DEF RowsPersist, HasRow
<1>3. answer[d] # NoCall => doc[d] # NoCall /\ orders'[doc[d]] = answer[d]
  BY <1>2, TablesGrow DEF CallsInPlace, CallInPlace, OrdersPersist
<1>4. ASSUME pc'[d] = pc[d], doc'[d] = doc[d], answer'[d] = answer[d] PROVE CallInPlace(d)'
  BY <1>1, <1>2, <1>3, <1>4 DEF CallsInPlace, CallInPlace, Stored, HasRow, KeyOf
<1>5. ASSUME Claim(d) PROVE CallInPlace(d)'
  <2>1. answer'[d] = NoCall /\ pc'[d] \in {"fetch", "map", "refuse"}
    BY <1>5 DEF Claim, CallsInPlace, CallInPlace, Goto, OpenedPlace, TypeOK
  <2>2. CASE ~HasRow(KeyOf(d))
    <3>1. doc'[d] = d /\ pc'[d] # "fetch" /\ row'[KeyOf(d)] = ClaimedRow(d)
      BY <1>1, <1>5, <2>2 DEF Claim, ClaimWins, HasRow, TypeOK, Goto, OpenedPlace
    <3> QED
      BY <2>1, <3>1 DEF CallInPlace, Stored, HasRow, KeyOf, ClaimedRow
  <2>3. CASE HasRow(KeyOf(d))
    <3>1. doc'[d] = doc[d] /\ pc'[d] = "fetch"
      BY <1>5, <2>3 DEF Claim, ClaimWins, HasRow, TypeOK, Goto
    <3> QED
      BY <1>1, <1>2, <2>1, <2>3, <3>1 DEF CallInPlace, Stored, HasRow, KeyOf
  <2> QED
    BY <2>2, <2>3
<1>6. ASSUME Fetch(d) PROVE CallInPlace(d)'
  <2>1. /\ pc[d] = "fetch" /\ pc'[d] \in {"reset", "done"}
        /\ doc'[d] = doc[d] /\ answer'[d] = answer[d]
    BY <1>6 DEF Fetch, Goto, TypeOK
  <2> QED
    BY <1>1, <1>2, <1>3, <2>1 DEF CallsInPlace, CallInPlace, Stored, HasRow, KeyOf
<1>7. ASSUME Reset(d) PROVE CallInPlace(d)'
  <2>1. pc[d] = "reset" /\ answer'[d] = NoCall /\ HasRow(KeyOf(d))
    BY <1>7 DEF Reset, CallsInPlace, CallInPlace
  <2>2. CASE ResetMatches(row[KeyOf(d)])
    <3>1. doc'[d] = row[KeyOf(d)].id /\ pc'[d] \in {"map", "refuse"}
      BY <1>7, <2>2 DEF Reset, TypeOK, Goto, OpenedPlace
    <3>2. /\ row[KeyOf(d)].id \in Calls /\ KeyOf(row[KeyOf(d)].id) = KeyOf(d)
      BY <1>1, <2>1 DEF RowsWellFormed
    <3>3. row'[KeyOf(d)].status # "absent" /\ row'[KeyOf(d)].id = row[KeyOf(d)].id
      BY <1>1, <2>1, TablesGrow DEF RowsPersist, HasRow
    <3> QED
      BY <2>1, <3>1, <3>2, <3>3 DEF CallInPlace, Stored, HasRow, KeyOf
  <2>3. CASE ~ResetMatches(row[KeyOf(d)])
    <3>1. doc'[d] = doc[d] /\ pc'[d] = "done"
      BY <1>7, <2>3 DEF Reset, TypeOK, Goto
    <3> QED
      BY <1>2, <2>1, <3>1 DEF CallInPlace, Stored, HasRow, KeyOf
  <2> QED
    BY <2>2, <2>3
<1>8. ASSUME MapAccepted(d) PROVE CallInPlace(d)'
  <2>1. /\ pc'[d] = "settle" /\ doc'[d] = doc[d] /\ doc[d] # NoCall
        /\ answer'[d] = orders'[doc[d]]
    <3>1. pc[d] = "map" /\ doc[d] # NoCall /\ doc[d] \in Calls
      BY <1>2, <1>8 DEF MapAccepted, CallsInPlace, CallInPlace
    <3> QED
      BY <1>8, <3>1 DEF MapAccepted, IdempotencyKey, Goto, TypeOK
  <2> QED
    BY <1>2, <2>1 DEF CallInPlace, Stored, HasRow, KeyOf
<1>9. ASSUME \/ MapRejected(d) \/ SettleMapped(d) \/ SettleFailed(d)
             \/ LoseSettlement(d) \/ RecordRefusal(d) \/ LoseRefusal(d)
             \/ Publish(d) \/ Reread(d) \/ Die(d)
      PROVE  CallInPlace(d)'
  <2>1. /\ doc'[d] = doc[d] /\ answer'[d] = answer[d]
        /\ pc'[d] \in {"settle", "publish", "reread", "done", "dead"}
        /\ pc'[d] \in {"settle", "publish", "reread"} =>
             pc[d] \in {"map", "settle", "refuse"}
    BY <1>9 DEF MapRejected, SettleMapped, SettleFailed, LoseSettlement,
       RecordRefusal, LoseRefusal, Publish, Reread, Die, CommitSettlement, Goto, TypeOK
  <2> QED
    BY <1>2, <1>3, <2>1 DEF CallsInPlace, CallInPlace, Stored, HasRow, KeyOf
<1>10. ASSUME NEW c \in Calls, c # d, Claim(c) \/ Step(c) \/ Die(c)
       PROVE  pc'[d] = pc[d] /\ doc'[d] = doc[d] /\ answer'[d] = answer[d]
  BY <1>10 DEF TypeOK, Goto, Claim, Fetch, Reset, MapAccepted, MapRejected,
     SettleMapped, SettleFailed, LoseSettlement, RecordRefusal, LoseRefusal,
     Publish, Reread, Die, CommitSettlement, Step
<1>11. ASSUME \/ \E k \in Keys : Acknowledge(k)
              \/ \E a \in ackPending : PublishAck(a) \/ DropAck(a)
              \/ UNCHANGED vars
       PROVE  pc'[d] = pc[d] /\ doc'[d] = doc[d] /\ answer'[d] = answer[d]
  BY <1>11 DEF Acknowledge, PublishAck, DropAck, vars
<1> QED
  BY <1>4, <1>5, <1>6, <1>7, <1>8, <1>9, <1>10, <1>11 DEF Next, Step

LEMMA CommittedWasStagedStep ==
  ASSUME TypeOK, RowsWellFormed, CallsInPlace, CommittedWasStaged,
         TableStep, msg' = msg, [Next]_vars
  PROVE  CommittedWasStaged'
<1> SUFFICES ASSUME NEW d \in Calls, pc'[d] = "publish"
             PROVE  /\ \E i \in 1 .. Len(outbox'[doc'[d]]) :
                         outbox'[doc'[d]][i] = LifecycleEvent(d)'
                    /\ answer'[d] # NoCall =>
                         /\ row'[KeyOf(d)].status \in {"mapped", "acknowledged"}
                         /\ row'[KeyOf(d)].ref = answer'[d]
  BY DEF CommittedWasStaged, KeyOf
<1> DEFINE Good == /\ \E i \in 1 .. Len(outbox'[doc'[d]]) :
                        outbox'[doc'[d]][i] = LifecycleEvent(d)'
                   /\ answer'[d] # NoCall =>
                        /\ row'[KeyOf(d)].status \in {"mapped", "acknowledged"}
                        /\ row'[KeyOf(d)].ref = answer'[d]
<1>1. ASSUME pc[d] = "publish", doc'[d] = doc[d], answer'[d] = answer[d] PROVE Good
  <2>1. KeyOf(d) \in Keys /\ doc[d] \in Calls
    BY <1>1, CallFacts DEF CallsInPlace, CallInPlace
  <2>2. PICK i \in 1 .. Len(outbox[doc[d]]) : outbox[doc[d]][i] = LifecycleEvent(d)
    BY <1>1 DEF CommittedWasStaged
  <2>3. i \in 1 .. Len(outbox'[doc[d]]) /\ outbox'[doc[d]][i] = LifecycleEvent(d)
    BY <2>1, <2>2, HistoryPersists
  <2>4. LifecycleEvent(d)' = LifecycleEvent(d)
    BY <1>1 DEF LifecycleEvent
  <2>5. answer[d] # NoCall =>
          /\ row'[KeyOf(d)].status \in {"mapped", "acknowledged"}
          /\ row'[KeyOf(d)].ref = answer[d]
    BY <1>1, <2>1, TablesGrow DEF CommittedWasStaged, RowsPersist
  <2> QED
    BY <1>1, <2>3, <2>4, <2>5
<1>2. ASSUME SettleMapped(d) \/ SettleFailed(d) \/ RecordRefusal(d) PROVE Good
  <2>1. Settles(d) /\ doc' = doc /\ answer' = answer
    BY <1>2, SettlesByAction
    DEF SettleMapped, SettleFailed, RecordRefusal, CommitSettlement
  <2>2. LifecycleEvent(d)' = LifecycleEvent(d)
    BY <2>1 DEF LifecycleEvent
  <2>3. /\ doc[d] \in Calls /\ Len(outbox'[doc[d]]) = Len(outbox[doc[d]]) + 1
        /\ LastOf(outbox'[doc[d]]) = LifecycleEvent(d)
    BY <2>1, SettlesShape
  <2>4. Len(outbox[doc[d]]) \in Nat
    BY <2>3 DEF TypeOK
  <2>5. \E i \in 1 .. Len(outbox'[doc[d]]) : outbox'[doc[d]][i] = LifecycleEvent(d)
    <3>1. Len(outbox'[doc[d]]) \in 1 .. Len(outbox'[doc[d]])
      BY <2>3, <2>4
    <3> QED
      BY <2>3, <3>1 DEF LastOf
  <2>6. answer[d] # NoCall =>
          row'[KeyOf(d)].status = "mapped" /\ row'[KeyOf(d)].ref = answer[d]
    BY <2>1, SettlesShape
  <2> QED
    BY <2>1, <2>2, <2>5, <2>6
<1> HIDE DEF Good
<1>3. ASSUME \/ Claim(d) \/ Fetch(d) \/ Reset(d) \/ MapAccepted(d) \/ MapRejected(d)
             \/ LoseSettlement(d) \/ LoseRefusal(d) \/ Publish(d) \/ Reread(d) \/ Die(d)
      PROVE  FALSE
  BY <1>3 DEF Claim, Fetch, Reset, MapAccepted, MapRejected, LoseSettlement,
     LoseRefusal, Publish, Reread, Die, Goto, OpenedPlace, TypeOK
<1>4. ASSUME NEW c \in Calls, c # d, Claim(c) \/ Step(c) \/ Die(c)
      PROVE  pc'[d] = pc[d] /\ doc'[d] = doc[d] /\ answer'[d] = answer[d]
  BY <1>4 DEF TypeOK, Goto, Claim, Fetch, Reset, MapAccepted, MapRejected,
     SettleMapped, SettleFailed, LoseSettlement, RecordRefusal, LoseRefusal,
     Publish, Reread, Die, CommitSettlement, Step
<1>5. ASSUME \/ \E k \in Keys : Acknowledge(k)
             \/ \E a \in ackPending : PublishAck(a) \/ DropAck(a)
             \/ UNCHANGED vars
      PROVE  pc'[d] = pc[d] /\ doc'[d] = doc[d] /\ answer'[d] = answer[d]
  BY <1>5 DEF Acknowledge, PublishAck, DropAck, vars
<1>6. Good
  BY <1>1, <1>2, <1>3, <1>4, <1>5 DEF Next, Step
<1> QED
  BY <1>6 DEF Good

LEMMA PublishedWasStagedStep ==
  ASSUME TypeOK, RowsWellFormed, CallsInPlace, CommittedWasStaged,
         PublishedWasStaged, TableStep, msg' = msg, [Next]_vars
  PROVE  PublishedWasStaged'
<1> SUFFICES ASSUME NEW e \in published'
             PROVE  \E i \in 1 .. Len(outbox'[e.doc]) : outbox'[e.doc][i] = e
  BY DEF PublishedWasStaged
<1>1. ASSUME e.doc \in Calls,
             \E i \in 1 .. Len(outbox[e.doc]) : outbox[e.doc][i] = e
      PROVE  \E i \in 1 .. Len(outbox'[e.doc]) : outbox'[e.doc][i] = e
  BY <1>1, HistoryPersists
<1>2. e \in published => e.doc \in Calls
  BY DEF TypeOK, Event
<1>3. ASSUME NEW c \in Calls, Publish(c), e = LifecycleEvent(c)
      PROVE  e.doc \in Calls /\ \E i \in 1 .. Len(outbox[e.doc]) : outbox[e.doc][i] = e
  <2>1. e.doc = doc[c] /\ pc[c] = "publish" /\ doc[c] \in Calls
    BY <1>3, CallFacts DEF Publish, LifecycleEvent, CallsInPlace, CallInPlace
  <2> QED
    BY <1>3, <2>1 DEF CommittedWasStaged
<1>4. e \in published \/ \E c \in Calls : Publish(c) /\ e = LifecycleEvent(c)
  BY DEF Next, Step, vars, Claim, Fetch, Reset, MapAccepted, MapRejected,
     SettleMapped, SettleFailed, LoseSettlement, RecordRefusal, LoseRefusal,
     Publish, Reread, Die, CommitSettlement, Acknowledge, PublishAck, DropAck
<1> QED
  BY <1>1, <1>2, <1>3, <1>4 DEF PublishedWasStaged

LEMMA RepliesHoldStep ==
  ASSUME TypeOK, RowsWellFormed, CallsInPlace, CommittedWasStaged, RepliesHold,
         TableStep, msg' = msg, [Next]_vars
  PROVE  RepliesHold'
<1> SUFFICES ASSUME NEW d \in Calls
             PROVE  /\ reply'[d].status = "mapped" =>
                         /\ row'[KeyOf(d)].status \in {"mapped", "acknowledged"}
                         /\ row'[KeyOf(d)].ref = reply'[d].ref
                    /\ reply'[d].status = "acknowledged" =>
                         /\ row'[KeyOf(d)].status = "acknowledged"
                         /\ row'[KeyOf(d)].ref = reply'[d].ref
  BY DEF RepliesHold, KeyOf
<1> DEFINE Held == /\ reply'[d].status = "mapped" =>
                        /\ row'[KeyOf(d)].status \in {"mapped", "acknowledged"}
                        /\ row'[KeyOf(d)].ref = reply'[d].ref
                   /\ reply'[d].status = "acknowledged" =>
                        /\ row'[KeyOf(d)].status = "acknowledged"
                        /\ row'[KeyOf(d)].ref = reply'[d].ref
<1>1. ASSUME reply'[d] = reply[d] PROVE Held
  BY <1>1, CallFacts, TablesGrow DEF RepliesHold, RowsPersist
<1>2. ASSUME Fetch(d) \/ Reread(d) PROVE Held
  <2>1. \E dup \in BOOLEAN : reply'[d] = StoredReply(row[KeyOf(d)], dup)
    BY <1>2 DEF Fetch, Reread, TypeOK
  <2>2. row' = row
    BY <1>2 DEF Fetch, Reread
  <2> QED
    BY <2>1, <2>2 DEF StoredReply
<1>3. ASSUME LoseRefusal(d) PROVE Held
  <2>1. reply'[d] = SettledReply(d) /\ answer[d] = NoCall
    BY <1>3 DEF LoseRefusal, TypeOK, CallsInPlace, CallInPlace
  <2> QED
    BY <2>1 DEF SettledReply
<1>4. ASSUME Publish(d) PROVE Held
  <2>1. reply'[d] = SettledReply(d) /\ pc[d] = "publish" /\ row' = row
    BY <1>4 DEF Publish, TypeOK
  <2>2. answer[d] # NoCall =>
          /\ row[KeyOf(d)].status \in {"mapped", "acknowledged"}
          /\ row[KeyOf(d)].ref = answer[d]
    BY <2>1 DEF CommittedWasStaged
  <2> QED
    BY <2>1, <2>2 DEF SettledReply
<1> HIDE DEF Held
<1>5. ASSUME \/ Claim(d) \/ Reset(d) \/ MapAccepted(d) \/ MapRejected(d)
             \/ SettleMapped(d) \/ SettleFailed(d) \/ LoseSettlement(d)
             \/ RecordRefusal(d) \/ Die(d)
      PROVE  reply'[d] = reply[d]
  BY <1>5 DEF Claim, Reset, MapAccepted, MapRejected, SettleMapped, SettleFailed,
     LoseSettlement, RecordRefusal, Die, CommitSettlement
<1>6. ASSUME NEW c \in Calls, c # d, Claim(c) \/ Step(c) \/ Die(c)
      PROVE  reply'[d] = reply[d]
  BY <1>6 DEF TypeOK, Goto, Claim, Fetch, Reset, MapAccepted, MapRejected,
     SettleMapped, SettleFailed, LoseSettlement, RecordRefusal, LoseRefusal,
     Publish, Reread, Die, CommitSettlement, Step
<1>7. ASSUME \/ \E k \in Keys : Acknowledge(k)
             \/ \E a \in ackPending : PublishAck(a) \/ DropAck(a)
             \/ UNCHANGED vars
      PROVE  reply'[d] = reply[d]
  BY <1>7 DEF Acknowledge, PublishAck, DropAck, vars
<1>8. Held
  BY <1>1, <1>2, <1>3, <1>4, <1>5, <1>6, <1>7 DEF Next, Step
<1> QED
  BY <1>8 DEF Held

\* An acknowledgement is issued by Acknowledge alone, from the row it closes.
LEMMA AckOrigin ==
  ASSUME [Next]_vars, NEW a \in ackPending' \cup ackEvents'
  PROVE  \/ a \in ackPending \cup ackEvents
         \/ \E k \in Keys : Acknowledge(k) /\ a = AckOf(row[k])
  BY DEF Next, Step, vars, Claim, Fetch, Reset, MapAccepted, MapRejected,
     SettleMapped, SettleFailed, LoseSettlement, RecordRefusal, LoseRefusal,
     Publish, Reread, Die, CommitSettlement, Acknowledge, PublishAck, DropAck

LEMMA AcksOfAcknowledgedStep ==
  ASSUME TypeOK, RowsWellFormed, CallsInPlace, AcksOfAcknowledged,
         TableStep, msg' = msg, [Next]_vars
  PROVE  AcksOfAcknowledged'
<1> SUFFICES ASSUME NEW a \in ackPending' \cup ackEvents'
             PROVE  Stored(a.doc)' /\ row'[KeyOf(a.doc)].status = "acknowledged"
  BY DEF AcksOfAcknowledged, KeyOf
<1>1. CASE a \in ackPending \cup ackEvents
  <2>1. a.doc \in Calls /\ KeyOf(a.doc) \in Keys
    BY <1>1, CallFacts DEF TypeOK, AckEvent
  <2>2. Stored(a.doc) /\ row[KeyOf(a.doc)].status = "acknowledged"
    BY <1>1 DEF AcksOfAcknowledged
  <2>3. row'[KeyOf(a.doc)] = row[KeyOf(a.doc)]
    BY <2>1, <2>2, TablesGrow DEF RowsPersist
  <2> QED
    BY <2>2, <2>3 DEF Stored, HasRow, KeyOf
<1>2. ASSUME NEW k \in Keys, Acknowledge(k), a = AckOf(row[k])
      PROVE  Stored(a.doc)' /\ row'[KeyOf(a.doc)].status = "acknowledged"
  <2>1. /\ a.doc = row[k].id /\ KeyOf(row[k].id) = k
    BY <1>2 DEF AckOf, Acknowledge, AckMatches, RowsWellFormed, HasRow
  <2>2. row'[k].status = "acknowledged" /\ row'[k].id = row[k].id
    BY <1>2 DEF Acknowledge, AcknowledgedRow, TypeOK, Row
  <2> QED
    BY <2>1, <2>2 DEF Stored, HasRow, KeyOf
<1> QED
  BY <1>1, <1>2, AckOrigin

LEMMA AckAgreesStep ==
  ASSUME TypeOK, RowsWellFormed, CallsInPlace, RowAgreesWithOutbox,
         AcksOfAcknowledged, AckAgreesWithOutbox, TableStep, msg' = msg, [Next]_vars
  PROVE  AckAgreesWithOutbox'
<1> DEFINE Acks == ackPending \cup ackEvents
<1> DEFINE Agrees(a) == /\ outbox[a.doc] # <<>>
                        /\ a.accepted <=> LastOf(outbox[a.doc]).type = "mapped"
                        /\ ~a.accepted => LastOf(outbox[a.doc]).by = a.error
\* The document of an earlier acknowledgement is closed: its log is final.
<1>1. ASSUME NEW a \in Acks
      PROVE  /\ a.doc \in Calls /\ Agrees(a) /\ outbox'[a.doc] = outbox[a.doc]
             /\ row[KeyOf(a.doc)].id = a.doc
             /\ row[KeyOf(a.doc)].status = "acknowledged"
  <2>1. a.doc \in Calls
    BY DEF TypeOK, AckEvent
  <2>2. Stored(a.doc) /\ row[KeyOf(a.doc)].status = "acknowledged"
    BY DEF AcksOfAcknowledged
  <2>3. ASSUME NEW c \in Calls, Settles(c) PROVE a.doc # doc[c]
    BY <2>2, <2>3, CallFacts DEF Settles
  <2>4. outbox'[a.doc] = outbox[a.doc]
    BY <2>1, <2>3, TablesGrow DEF OutboxGrows
  <2> QED
    BY <2>1, <2>2, <2>4 DEF AckAgreesWithOutbox, Stored
<1>2. ASSUME NEW k \in Keys, Acknowledge(k)
      PROVE  /\ Agrees(AckOf(row[k])) /\ outbox' = outbox
             /\ AckOf(row[k]).doc = row[k].id
             /\ \A b \in Acks : b.doc # row[k].id
  <2>1. /\ row[k].status \in {"mapped", "failed"} /\ HasRow(k)
        /\ KeyOf(row[k].id) = k
    BY <1>2 DEF Acknowledge, AckMatches, HasRow, RowsWellFormed
  <2>2. AckOf(row[k]).doc = row[k].id /\ outbox' = outbox
    BY <1>2 DEF AckOf, Acknowledge
  <2>3. Agrees(AckOf(row[k]))
    <3>1. CASE row[k].status = "mapped"
      BY <2>1, <3>1 DEF AckOf, RowAgreesWithOutbox
    <3>2. CASE row[k].status = "failed"
      BY <2>1, <3>2 DEF AckOf, RowAgreesWithOutbox
    <3> QED
      BY <2>1, <3>1, <3>2
  <2>4. \A b \in Acks : b.doc # row[k].id
    BY <1>1, <2>1
  <2> QED
    BY <2>2, <2>3, <2>4
<1>3. \A j, k \in Keys : Acknowledge(j) /\ Acknowledge(k) =>
        AckOf(row[j]) = AckOf(row[k])
  <2> SUFFICES ASSUME NEW j \in Keys, NEW k \in Keys, Acknowledge(j), Acknowledge(k)
               PROVE  j = k
    OBVIOUS
  <2>1. row'[j].status = "acknowledged" /\ row[j].status # "acknowledged"
    BY DEF Acknowledge, AckMatches, AcknowledgedRow, TypeOK, Row
  <2>2. j # k => row'[j] = row[j]
    BY DEF Acknowledge, TypeOK
  <2> QED
    BY <2>1, <2>2
<1>4. ASSUME NEW a \in Acks' PROVE Agrees(a)'
  <2>1. CASE a \in Acks
    BY <1>1, <2>1 DEF LastOf
  <2>2. ASSUME NEW k \in Keys, Acknowledge(k), a = AckOf(row[k]) PROVE Agrees(a)'
    BY <1>2, <2>2 DEF LastOf
  <2> QED
    BY <2>1, <2>2, AckOrigin
<1>5. ASSUME NEW a \in Acks', NEW b \in Acks', a.doc = b.doc PROVE a = b
  <2> HIDE DEF Agrees
  <2>1. CASE a \in Acks /\ b \in Acks
    BY <1>5, <2>1 DEF AckAgreesWithOutbox
  <2>2. ASSUME NEW k \in Keys, Acknowledge(k), a = AckOf(row[k]) PROVE a = b
    BY <1>2, <1>3, <1>5, <2>2, AckOrigin
  <2>3. ASSUME NEW k \in Keys, Acknowledge(k), b = AckOf(row[k]) PROVE a = b
    BY <1>2, <1>3, <1>5, <2>3, AckOrigin
  <2> QED
    BY <2>1, <2>2, <2>3, AckOrigin
<1> QED
  BY <1>4, <1>5 DEF AckAgreesWithOutbox, LastOf

\* Where a call stands on a row it has opened and not yet settled.
LEMMA StrandedStep ==
  ASSUME TypeOK, RowsWellFormed, CallsInPlace, StrandedOnlyByDeath,
         TableStep, msg' = msg, [Next]_vars
  PROVE  StrandedOnlyByDeath'
<1> DEFINE At == {"map", "settle", "refuse", "dead"}
<1> SUFFICES ASSUME NEW k \in Keys, row'[k].status = "received"
             PROVE  \E c \in Calls : doc'[c] = row'[k].id /\ pc'[c] \in At
  BY DEF StrandedOnlyByDeath
\* The row was open before the step: its call is still there.
<1>1. ASSUME row[k].status = "received", row'[k].id = row[k].id
      PROVE  \E c \in Calls : doc'[c] = row'[k].id /\ pc'[c] \in At
  <2>1. PICK c \in Calls : doc[c] = row[k].id /\ pc[c] \in At
    BY <1>1 DEF StrandedOnlyByDeath
  <2>2. row[k].id \in Calls /\ KeyOf(row[k].id) = k
    BY <1>1 DEF RowsWellFormed, HasRow
  <2>3. /\ doc[c] # NoCall /\ KeyOf(c) = k /\ row[KeyOf(c)].id = doc[c]
        /\ row[KeyOf(c)].status = "received"
    BY <1>1, <2>1, <2>2, CallFacts, CallsAssumption DEF CallsInPlace, CallInPlace
  <2>4. ~Settles(c)
    BY <2>3, SettlesShape
  <2>5. ~LoseSettlement(c) /\ ~LoseRefusal(c)
    BY <2>3 DEF LoseSettlement, LoseRefusal, MarkMappedMatches, MarkFailedMatches
  <2>6. ASSUME SettleMapped(c) \/ SettleFailed(c) \/ RecordRefusal(c) PROVE FALSE
    BY <2>4, <2>6, SettlesByAction
  <2>7. ASSUME Claim(c) \/ Fetch(c) \/ Reset(c) \/ Publish(c) \/ Reread(c) PROVE FALSE
    BY <2>1, <2>7 DEF Claim, Fetch, Reset, Publish, Reread
  <2>8. ASSUME MapAccepted(c) \/ MapRejected(c) \/ Die(c)
        PROVE  doc'[c] = doc[c] /\ pc'[c] \in At
    BY <2>8 DEF MapAccepted, MapRejected, Die, Goto, TypeOK
  <2>9. ASSUME NEW b \in Calls, b # c, Claim(b) \/ Step(b) \/ Die(b)
        PROVE  doc'[c] = doc[c] /\ pc'[c] = pc[c]
    BY <2>9 DEF TypeOK, Goto, Claim, Fetch, Reset, MapAccepted, MapRejected,
       SettleMapped, SettleFailed, LoseSettlement, RecordRefusal, LoseRefusal,
       Publish, Reread, Die, CommitSettlement, Step
  <2>10. ASSUME \/ \E j \in Keys : Acknowledge(j)
                \/ \E a \in ackPending : PublishAck(a) \/ DropAck(a)
                \/ UNCHANGED vars
         PROVE  doc'[c] = doc[c] /\ pc'[c] = pc[c]
    BY <2>10 DEF Acknowledge, PublishAck, DropAck, vars
  <2>11. doc'[c] = doc[c] /\ pc'[c] \in At
    BY <2>1, <2>5, <2>6, <2>7, <2>8, <2>9, <2>10 DEF Next, Step
  <2> QED
    BY <1>1, <2>1, <2>11
\* The step opened it: a claim or a reset, whose call goes on to map or refuse.
<1>2. ASSUME NEW c \in Calls, Claim(c) \/ Reset(c), row'[k] # row[k]
      PROVE  \E b \in Calls : doc'[b] = row'[k].id /\ pc'[b] \in At
  <2>1. k = KeyOf(c) /\ row[k] \in Row
    BY <1>2 DEF Claim, Reset, TypeOK
  <2>2. doc'[c] = row'[k].id
    <3>1. CASE Claim(c)
      <4>1. row'[k] = ClaimedRow(c) /\ doc'[c] = c
        BY <1>2, <2>1, <3>1 DEF Claim, TypeOK
      <4> QED
        BY <4>1 DEF ClaimedRow
    <3>2. CASE Reset(c)
      <4>1. row'[k] = ResetRow(row[k], c) /\ doc'[c] = row[k].id
        BY <1>2, <2>1, <3>2 DEF Reset, TypeOK
      <4> QED
        BY <2>1, <4>1 DEF ResetRow, Row
    <3> QED
      BY <1>2, <3>1, <3>2
  <2>3. pc'[c] \in {"map", "refuse"}
    BY <1>2, <2>1 DEF Claim, Reset, TypeOK, Goto, OpenedPlace
  <2> QED
    BY <2>2, <2>3
<1>3. ASSUME NEW c \in Calls, SettleMapped(c) \/ SettleFailed(c) \/ RecordRefusal(c)
      PROVE  row'[k] = row[k]
  <2>1. Settles(c)
    BY <1>3, SettlesByAction
  <2> QED
    BY <2>1, SettlesShape
<1>4. ASSUME NEW j \in Keys, Acknowledge(j) PROVE row'[k] = row[k]
  BY <1>4 DEF Acknowledge, AcknowledgedRow, TypeOK, Row
<1>5. row'[k] = row[k] \/ \E c \in Calls : Claim(c) \/ Reset(c)
  BY <1>3, <1>4 DEF Next, Step, vars, Fetch, MapAccepted, MapRejected,
     LoseSettlement, LoseRefusal, Publish, Reread, Die, PublishAck, DropAck
<1>6. CASE row'[k] = row[k]
  BY <1>1, <1>6
<1> QED
  BY <1>2, <1>5, <1>6

-------------------------------------------------------------------------------
(* The invariant and the properties *)

LEMMA InitIInv == Init => IInv
<1> SUFFICES ASSUME Init PROVE IInv
  OBVIOUS
<1>1. TypeOK
  BY InitTypeOK
<1>2. \A k \in Keys : row[k] = NoRow
  BY DEF Init
<1>3. RowsWellFormed
  BY <1>2 DEF RowsWellFormed, HasRow, NoRow
<1>4. CallsInPlace
  BY DEF Init, CallsInPlace, CallInPlace
<1>5. OutboxOfStored /\ OrdersOfStored /\ MappedIsFinal
  BY DEF Init, OutboxOfStored, OrdersOfStored, MappedIsFinal
<1>6. RowAgreesWithOutbox /\ RefsAreOrders /\ StrandedOnlyByDeath
  BY <1>2 DEF RowAgreesWithOutbox, RefsAreOrders, StrandedOnlyByDeath, HasRow, NoRow
<1>7. CommittedWasStaged /\ PublishedWasStaged /\ RepliesHold
  BY DEF Init, CommittedWasStaged, PublishedWasStaged, RepliesHold, NoReply
<1>8. AcksOfAcknowledged /\ AckAgreesWithOutbox
  BY DEF Init, AcksOfAcknowledged, AckAgreesWithOutbox
<1> QED
  BY <1>1, <1>3, <1>4, <1>5, <1>6, <1>7, <1>8 DEF IInv

LEMMA NextIInv == IInv /\ [Next]_vars => IInv'
<1> SUFFICES ASSUME IInv, [Next]_vars PROVE IInv'
  OBVIOUS
<1> USE DEF IInv
<1>1. TypeOK'
  BY NextTypeOK
<1>2. TableStep /\ msg' = msg
  BY TableSteps
<1>3. RowsWellFormed'
  BY <1>2, RowsWellFormedStep
<1>4. CallsInPlace'
  BY <1>1, <1>2, CallsInPlaceStep
<1>5. OutboxOfStored' /\ OrdersOfStored'
  BY <1>2, OutboxOfStoredStep, OrdersOfStoredStep
<1>6. RowAgreesWithOutbox' /\ MappedIsFinal' /\ RefsAreOrders'
  BY <1>2, RowAgreesStep, MappedIsFinalStep, RefsAreOrdersStep
<1>7. CommittedWasStaged' /\ PublishedWasStaged' /\ RepliesHold'
  BY <1>2, CommittedWasStagedStep, PublishedWasStagedStep, RepliesHoldStep
<1>8. AcksOfAcknowledged' /\ AckAgreesWithOutbox' /\ StrandedOnlyByDeath'
  BY <1>2, AcksOfAcknowledgedStep, AckAgreesStep, StrandedStep
<1> QED
  BY <1>1, <1>3, <1>4, <1>5, <1>6, <1>7, <1>8

\* Every reachable state of the exchange satisfies the inductive invariant.
THEOREM Invariance == Spec => []IInv
  BY InitIInv, NextIInv, PTL DEF Spec

\* Every variable keeps its type: no statement leaves a column, an event, an
\* answer or a reply outside what its table or its struct can hold.
THEOREM TypeCorrect == Spec => []TypeOK
<1>1. IInv => TypeOK
  BY DEF IInv
<1> QED
  BY <1>1, Invariance, PTL

\* The last staged event of a document is what its row says (settle_inbound and
\* record_parse_failure stage in the transaction of the status UPDATE).
THEOREM RowsAgree == Spec => []RowAgreesWithOutbox
<1>1. IInv => RowAgreesWithOutbox
  BY DEF IInv
<1> QED
  BY <1>1, Invariance, PTL

\* However many copies race, EdiDocumentMapped is staged at most once for a
\* document and nothing is staged after it (the guards of mark_mapped and
\* mark_failed).
THEOREM MappedLast == Spec => []MappedIsFinal
<1>1. IInv => MappedIsFinal
  BY DEF IInv
<1> QED
  BY <1>1, Invariance, PTL

\* All transmissions of a business document lead to at most one internal order,
\* and the row links to that order (the document id as idempotency key).
THEOREM OneOrder == Spec => []OneOrderPerBusinessDocument
<1>1. IInv => OneOrderPerBusinessDocument
  <2> SUFFICES ASSUME IInv PROVE OneOrderPerBusinessDocument
    OBVIOUS
  <2>1. ASSUME NEW d \in Calls, NEW e \in Calls, orders[d] # NoCall,
               orders[e] # NoCall, KeyOf(d) = KeyOf(e)
        PROVE  d = e
    BY <2>1 DEF IInv, OrdersOfStored, Stored
  <2> QED
    BY <2>1 DEF IInv, RefsAreOrders, OneOrderPerBusinessDocument
<1> QED
  BY <1>1, Invariance, PTL

\* A document is acknowledged at most once, with the polarity and the reason of
\* its last staged event (the pre-update state acknowledge's CTE returns).
THEOREM AcksAgree == Spec => []AckAgreesWithOutbox
<1>1. IInv => AckAgreesWithOutbox
  BY DEF IInv
<1> QED
  BY <1>1, Invariance, PTL

\* The in-process sink hears only of committed settlements.
THEOREM PublishedStaged == Spec => []PublishedWasStaged
<1>1. IInv => PublishedWasStaged
  BY DEF IInv
<1> QED
  BY <1>1, Invariance, PTL

\* A call that answered "mapped" or "acknowledged" is never contradicted by the
\* row, whatever later transmissions do.
THEOREM PositiveReplies == Spec => []PositiveRepliesHold
<1>1. IInv => PositiveRepliesHold
  BY DEF IInv, RepliesHold, PositiveRepliesHold
<1> QED
  BY <1>1, Invariance, PTL

\* A row is open only while a call works on it or after one died on it.
THEOREM Stranded == Spec => []StrandedOnlyByDeath
<1>1. IInv => StrandedOnlyByDeath
  BY DEF IInv
<1> QED
  BY <1>1, Invariance, PTL

\* Every row that is not settled can be driven again: none carries a reference.
THEOREM Redrive == Spec => []OpenRowsCanBeRedriven
<1>1. IInv => OpenRowsCanBeRedriven
  BY DEF IInv, RowsWellFormed, OpenRowsCanBeRedriven
<1> QED
  BY <1>1, Invariance, PTL

\* A row that is no longer received has been announced.
LEMMA SettledHasLog ==
  ASSUME IInv, NEW k \in Keys, HasRow(k), row[k].status # "received"
  PROVE  outbox[row[k].id] # <<>>
<1>1. row[k].status \in {"mapped", "failed", "acknowledged"}
  BY DEF IInv, TypeOK, Row, Statuses, HasRow
<1> QED
  BY <1>1 DEF IInv, RowAgreesWithOutbox

\* Whatever a caller is told, a settlement of its document was staged before
\* (the order of commit, publish and return in settle_inbound, and the test that
\* sends a losing claim to the stored outcome).
THEOREM Backed == Spec => []OutcomesAreBacked
<1>1. Init => OutcomesAreBacked
  BY DEF Init, OutcomesAreBacked
<1>2. IInv /\ IInv' /\ OutcomesAreBacked /\ [Next]_vars => OutcomesAreBacked'
  <2> SUFFICES ASSUME IInv, IInv', OutcomesAreBacked, [Next]_vars, NEW c \in Calls,
                      pc'[c] \in {"publish", "reread", "done"}
               PROVE  (HasRow(KeyOf(c)) /\ outbox[row[KeyOf(c)].id] # <<>>)'
    BY DEF OutcomesAreBacked
  <2>1. TypeOK /\ RowsWellFormed /\ CallsInPlace /\ TableStep /\ msg' = msg
    BY TableSteps DEF IInv
  <2>2. /\ NoCall \notin Calls /\ KeyOf(c) \in Keys /\ KeyOf(c)' = KeyOf(c)
        /\ row[KeyOf(c)] \in Row
    BY <2>1, CallFacts DEF KeyOf
  <2> DEFINE Log == outbox[row[KeyOf(c)].id]
  \* Once backed, always backed.
  <2>3. ASSUME HasRow(KeyOf(c)), Log # <<>>
        PROVE  (HasRow(KeyOf(c)) /\ outbox[row[KeyOf(c)].id] # <<>>)'
    <3>1. row[KeyOf(c)].id \in Calls
      BY <2>1, <2>2, <2>3 DEF RowsWellFormed
    <3>2. HasRow(KeyOf(c))' /\ row'[KeyOf(c)].id = row[KeyOf(c)].id
      BY <2>1, <2>2, <2>3, TablesGrow DEF RowsPersist, HasRow
    <3>3. Log \in Seq(Event) /\ Len(Log) \in Nat
          /\ \A i \in 1 .. Len(Log) : i \in 1 .. Len(outbox'[row[KeyOf(c)].id])
      BY <2>1, <3>1, HistoryPersists
    <3>4. 1 \in 1 .. Len(Log)
      BY <2>3, <3>3
    <3>5. 1 \in 1 .. Len(outbox'[row[KeyOf(c)].id])
      BY <3>3, <3>4
    <3>6. outbox'[row[KeyOf(c)].id] # <<>>
      BY <3>5
    <3> QED
      BY <2>2, <3>2, <3>6
  <2>4. CASE pc[c] \in {"publish", "reread", "done"}
    BY <2>3, <2>4 DEF OutcomesAreBacked
  <2>5. CASE SettleMapped(c) \/ SettleFailed(c) \/ RecordRefusal(c)
    <3>1. Settles(c)
      BY <2>1, <2>5, SettlesByAction
    <3>2. doc[c] \in Calls /\ row[KeyOf(c)].id = doc[c] /\ HasRow(KeyOf(c))
      BY <2>1, <3>1, SettlesShape DEF HasRow
    <3>3. HasRow(KeyOf(c))' /\ row'[KeyOf(c)].id = doc[c]
      BY <2>1, <2>2, <3>2, TablesGrow DEF RowsPersist, HasRow
    <3>4. outbox[doc[c]] \in Seq(Event)
          /\ outbox'[doc[c]] = Append(outbox[doc[c]], LifecycleEvent(c))
      BY <2>1, <3>1, <3>2 DEF Settles, TypeOK
    <3>5. outbox'[doc[c]] # <<>>
      BY <3>4
    <3> QED
      BY <2>2, <3>3, <3>5
  <2>6. CASE LoseSettlement(c) \/ LoseRefusal(c)
    <3>1. HasRow(KeyOf(c)) /\ row[KeyOf(c)].id = doc[c]
      BY <2>1, <2>6, CallFacts
      DEF LoseSettlement, LoseRefusal, CallsInPlace, CallInPlace, HasRow
    <3>2. row[KeyOf(c)].status # "received"
      BY <2>6, <3>1
      DEF LoseSettlement, LoseRefusal, MarkMappedMatches, MarkFailedMatches
    <3> QED
      BY <2>2, <2>3, <3>1, <3>2, SettledHasLog
  <2>7. CASE (Fetch(c) \/ Reset(c)) /\ pc'[c] = "done"
    <3>1. HasRow(KeyOf(c))
      BY <2>1, <2>7 DEF Fetch, Reset, CallsInPlace, CallInPlace
    <3>2. ~Redrivable(row[KeyOf(c)])
      BY <2>1, <2>7 DEF Fetch, Reset, Goto, TypeOK, Redrivable, ResetMatches, OpenedPlace
    <3>3. row[KeyOf(c)].status # "received"
      BY <2>1, <2>2, <3>2 DEF Redrivable, RowsWellFormed
    <3> QED
      BY <2>2, <2>3, <3>1, <3>3, SettledHasLog
  \* No other step brings c to such a place.
  <2>8. \/ pc[c] \in {"publish", "reread", "done"}
        \/ SettleMapped(c) \/ SettleFailed(c) \/ RecordRefusal(c)
        \/ LoseSettlement(c) \/ LoseRefusal(c)
        \/ (Fetch(c) \/ Reset(c)) /\ pc'[c] = "done"
    <3>1. CASE UNCHANGED vars
      BY <3>1 DEF vars
    <3>2. CASE \E k \in Keys : Acknowledge(k)
      BY <3>2 DEF Acknowledge
    <3>3. CASE \E a \in ackPending : PublishAck(a) \/ DropAck(a)
      BY <3>3 DEF PublishAck, DropAck
    <3>4. CASE \E b \in Calls : Claim(b) \/ Step(b) \/ Die(b)
      <4>1. PICK b \in Calls : Claim(b) \/ Step(b) \/ Die(b)
        BY <3>4
      <4>2. CASE b # c
        <5>1. pc'[c] = pc[c]
          BY <2>1, <4>1, <4>2
          DEF TypeOK, Goto, Claim, Fetch, Reset, MapAccepted, MapRejected,
              SettleMapped, SettleFailed, LoseSettlement, RecordRefusal, LoseRefusal,
              Publish, Reread, Die, CommitSettlement, Step
        <5> QED
          BY <5>1
      <4>3. CASE b = c
        <5>1. Claim(c) \/ Step(c) \/ Die(c)
          BY <4>1, <4>3
        <5>2. CASE Claim(c)
          BY <2>1, <5>2 DEF Claim, Goto, TypeOK, OpenedPlace
        <5>3. CASE Die(c)
          BY <2>1, <5>3 DEF Die, Goto, TypeOK
        <5>4. CASE MapAccepted(c) \/ MapRejected(c)
          BY <2>1, <5>4 DEF MapAccepted, MapRejected, Goto, TypeOK
        <5>5. CASE Publish(c) \/ Reread(c)
          BY <5>5 DEF Publish, Reread
        <5>6. CASE Fetch(c) \/ Reset(c)
          <6>1. pc'[c] \in {"reset", "map", "refuse", "done"}
            BY <2>1, <5>6 DEF Fetch, Reset, Goto, TypeOK, OpenedPlace
          <6> QED
            BY <5>6, <6>1
        <5> QED
          BY <5>1, <5>2, <5>3, <5>4, <5>5, <5>6 DEF Step
      <4> QED
        BY <4>2, <4>3
    <3> QED
      BY <3>1, <3>2, <3>3, <3>4 DEF Next
  <2> QED
    BY <2>4, <2>5, <2>6, <2>7, <2>8
<1> QED
  BY <1>1, <1>2, Invariance, PTL DEF Spec

\* No step touches an acknowledged row, and the only thing that can happen to a
\* mapped one is its acknowledgement.
THEOREM SettledStay == Spec => SettledRowsStaySettled
<1> DEFINE Stay == \A k \in Keys :
             /\ row[k].status = "acknowledged" => row'[k] = row[k]
             /\ row[k].status = "mapped" => row'[k] \in {row[k], AcknowledgedRow(row[k])}
<1>1. IInv /\ [Next]_vars => Stay
  <2> SUFFICES ASSUME IInv, [Next]_vars, NEW k \in Keys,
                      row[k].status \in {"mapped", "acknowledged"}
               PROVE  row'[k] = row[k] \/ (row[k].status = "mapped"
                                             /\ row'[k] = AcknowledgedRow(row[k]))
    BY CallsAssumption
  <2>1. TableStep
    BY TableSteps DEF IInv
  <2>2. TypeOK /\ RowsWellFormed /\ CallsInPlace
    BY DEF IInv
  <2>3. ASSUME NEW c \in Calls, Inserts(c) PROVE row'[k] = row[k]
    BY <2>2, <2>3 DEF Inserts, HasRow, TypeOK
  <2>4. ASSUME NEW c \in Calls, Reopens(c) PROVE row'[k] = row[k]
    BY <2>2, <2>4 DEF Reopens, TypeOK
  <2>5. ASSUME NEW c \in Calls, Settles(c) PROVE row'[k] = row[k]
    BY <2>2, <2>5, SettlesShape
  <2>6. ASSUME NEW j \in Keys, Closes(j)
        PROVE  row'[k] = row[k] \/ (row[k].status = "mapped"
                                      /\ row'[k] = AcknowledgedRow(row[k]))
    BY <2>2, <2>6 DEF Closes, TypeOK
  <2> QED
    BY <2>1, <2>3, <2>4, <2>5, <2>6 DEF TableStep, Orders
<1> QED
  BY <1>1, Invariance, PTL DEF Spec, SettledRowsStaySettled

-------------------------------------------------------------------------------
(* Whose control number an acknowledgement carries *)

\* The envelope of a row is that of a call which drove its document.
CopiesDrive == \A k \in Keys : HasRow(k) => doc[row[k].copy] = row[k].id

\* A call that holds a document keeps it.
LEMMA DocPersists ==
  ASSUME IInv, [Next]_vars, NEW c \in Calls, doc[c] # NoCall
  PROVE  doc'[c] = doc[c]
<1>1. TypeOK /\ RowsWellFormed /\ CallsInPlace
  BY DEF IInv
<1>2. row[KeyOf(c)].id = doc[c] /\ row[KeyOf(c)].status # "absent"
  BY <1>1, CallFacts
<1>3. ASSUME NEW b \in Calls, Claim(b) PROVE doc'[c] = doc[c]
  BY <1>1, <1>2, <1>3 DEF Claim, ClaimWins, TypeOK
<1>4. ASSUME NEW b \in Calls, Reset(b) PROVE doc'[c] = doc[c]
  BY <1>1, <1>2, <1>4 DEF Reset, TypeOK
<1>5. ASSUME UNCHANGED doc PROVE doc'[c] = doc[c]
  BY <1>5
<1> QED
  BY <1>3, <1>4, <1>5
  DEF Next, Step, vars, Fetch, MapAccepted, MapRejected, SettleMapped, SettleFailed,
      LoseSettlement, RecordRefusal, LoseRefusal, Publish, Reread, Die,
      CommitSettlement, Acknowledge, PublishAck, DropAck

LEMMA CopiesDriveStep ==
  ASSUME IInv, CopiesDrive, [Next]_vars
  PROVE  CopiesDrive'
<1> SUFFICES ASSUME NEW k \in Keys, HasRow(k)'
             PROVE  doc'[row'[k].copy] = row'[k].id
  BY DEF CopiesDrive
<1>1. TypeOK /\ RowsWellFormed /\ CallsInPlace
  BY DEF IInv
\* A row that keeps its id and its envelope keeps its driver.
<1>2. ASSUME HasRow(k), row'[k].id = row[k].id, row'[k].copy = row[k].copy
      PROVE  doc'[row'[k].copy] = row'[k].id
  <2>1. /\ row[k].copy \in Calls /\ row[k].id \in Calls
        /\ doc[row[k].copy] = row[k].id
    BY <1>1, <1>2 DEF RowsWellFormed, CopiesDrive
  <2>2. doc[row[k].copy] # NoCall
    BY <2>1, CallsAssumption
  <2> QED
    BY <1>2, <2>1, <2>2, DocPersists
<1>3. ASSUME NEW c \in Calls, Claim(c), row'[k] # row[k]
      PROVE  doc'[row'[k].copy] = row'[k].id
  <2>1. row'[k] = ClaimedRow(c) /\ doc'[c] = c
    BY <1>1, <1>3 DEF Claim, TypeOK
  <2> QED
    BY <2>1 DEF ClaimedRow
<1>4. ASSUME NEW c \in Calls, Reset(c), row'[k] # row[k]
      PROVE  doc'[row'[k].copy] = row'[k].id
  <2>1. row'[k] = ResetRow(row[k], c) /\ doc'[c] = row[k].id
    BY <1>1, <1>4 DEF Reset, TypeOK
  <2>2. row'[k].copy = c /\ row'[k].id = row[k].id
    BY <1>1, <2>1 DEF ResetRow, TypeOK, Row
  <2> QED
    BY <2>1, <2>2
<1>5. ASSUME NEW c \in Calls, SettleMapped(c) \/ SettleFailed(c) \/ RecordRefusal(c)
      PROVE  doc'[row'[k].copy] = row'[k].id
  <2>1. \/ row' = [row EXCEPT ![KeyOf(c)] = MappedRow(row[KeyOf(c)], answer[c])]
        \/ row' = [row EXCEPT ![KeyOf(c)] = FailedRow(row[KeyOf(c)], c)]
    BY <1>5 DEF SettleMapped, SettleFailed, RecordRefusal, CommitSettlement
  <2>2. KeyOf(c) \in Keys /\ row[k] \in Row /\ row[KeyOf(c)] \in Row
    BY <1>1, CallFacts DEF TypeOK
  <2>3. row'[k].id = row[k].id /\ row'[k].copy = row[k].copy
    <3>1. CASE k = KeyOf(c)
      <4>1. row'[k] = MappedRow(row[k], answer[c]) \/ row'[k] = FailedRow(row[k], c)
        BY <1>1, <2>1, <2>2, <3>1 DEF TypeOK
      <4> QED
        BY <2>2, <4>1 DEF MappedRow, FailedRow, Row
    <3>2. CASE k # KeyOf(c)
      BY <1>1, <2>1, <3>2 DEF TypeOK
    <3> QED
      BY <3>1, <3>2
  <2>4. HasRow(k)
    <3>1. doc[c] # NoCall
      BY <1>1, <1>5, SettlesByAction DEF Settles
    <3>2. HasRow(KeyOf(c))
      BY <1>1, <3>1, CallFacts DEF HasRow
    <3>3. k # KeyOf(c) => row'[k] = row[k]
      BY <1>1, <2>1 DEF TypeOK
    <3> QED
      BY <3>2, <3>3 DEF HasRow
  <2> QED
    BY <1>2, <2>3, <2>4
<1>6. ASSUME NEW j \in Keys, Acknowledge(j)
      PROVE  doc'[row'[k].copy] = row'[k].id
  <2>1. row'[k].id = row[k].id /\ row'[k].copy = row[k].copy /\ HasRow(k)
    BY <1>1, <1>6 DEF Acknowledge, AckMatches, AcknowledgedRow, HasRow, TypeOK, Row
  <2> QED
    BY <1>2, <2>1
<1>7. ASSUME row'[k] = row[k]
      PROVE  doc'[row'[k].copy] = row'[k].id
  BY <1>2, <1>7 DEF HasRow
<1> QED
  BY <1>3, <1>4, <1>5, <1>6, <1>7
  DEF Next, Step, vars, Fetch, MapAccepted, MapRejected, LoseSettlement, LoseRefusal,
      Publish, Reread, Die, PublishAck, DropAck

LEMMA AcksNameADriverStep ==
  ASSUME IInv, CopiesDrive, AcksNameADriver, [Next]_vars
  PROVE  AcksNameADriver'
<1> SUFFICES ASSUME NEW a \in ackPending' \cup ackEvents'
             PROVE  doc'[a.copy] = a.doc
  BY DEF AcksNameADriver
<1>1. TypeOK /\ RowsWellFormed
  BY DEF IInv
<1>2. CASE a \in ackPending \cup ackEvents
  <2>1. a.doc \in Calls /\ a.copy \in Calls /\ doc[a.copy] = a.doc
    BY <1>1, <1>2 DEF TypeOK, AckEvent, AcksNameADriver
  <2>2. doc[a.copy] # NoCall
    BY <2>1, CallsAssumption
  <2> QED
    BY <2>1, <2>2, DocPersists
<1>3. ASSUME NEW k \in Keys, Acknowledge(k), a = AckOf(row[k])
      PROVE  doc'[a.copy] = a.doc
  <2>1. HasRow(k)
    BY <1>3 DEF Acknowledge, AckMatches, HasRow
  <2>2. a.copy = row[k].copy /\ a.doc = row[k].id
    BY <1>3 DEF AckOf
  <2> QED
    BY <1>3, <2>1, <2>2 DEF CopiesDrive, Acknowledge
<1> QED
  BY <1>2, <1>3, AckOrigin

\* An acknowledgement carries the control number of a transmission that drove
\* the acknowledged document.
THEOREM AcksNamed == Spec => []AcksNameADriver
<1>1. Init => CopiesDrive /\ AcksNameADriver
  BY DEF Init, CopiesDrive, AcksNameADriver, HasRow, NoRow
<1>2. /\ IInv /\ IInv' /\ CopiesDrive /\ AcksNameADriver /\ [Next]_vars
      => (CopiesDrive /\ AcksNameADriver)'
  BY CopiesDriveStep, AcksNameADriverStep
<1> QED
  BY <1>1, <1>2, Invariance, PTL DEF Spec

===============================================================================
