----------------------------- MODULE EdiExchangeInv -----------------------------
(***************************************************************************)
(* The inductive invariant of EdiExchange: what the safety properties need *)
(* to know of the states between the statements of a call.                 *)
(***************************************************************************)
EXTENDS EdiExchange

\* d is the document of a stored row.
Stored(d) == HasRow(KeyOf(d)) /\ row[KeyOf(d)].id = d

\* A row carries the identifiers it was inserted with, and which of its nullable
\* columns are set follows from its status.
RowsWellFormed ==
  \A k \in Keys :
    /\ ~HasRow(k) => row[k] = NoRow
    /\ HasRow(k) => /\ row[k].id \in Calls /\ row[k].copy \in Calls
                    /\ KeyOf(row[k].id) = k
    /\ row[k].status \in {"received", "failed"} => row[k].ref = NoCall
    /\ row[k].status = "mapped" => row[k].ref \in Calls
    /\ row[k].status = "failed" => row[k].error \in Calls

\* What a call knows at each place: past a claim or a reset it holds the
\* document of its own key; an answer is the target's order for that document.
CallInPlace(c) ==
  /\ pc[c] \in {"map", "settle", "refuse", "publish", "reread"} => doc[c] # NoCall
  /\ pc[c] \in {"fetch", "reset"} => HasRow(KeyOf(c))
  /\ pc[c] \in {"idle", "fetch", "reset", "map", "refuse"} => answer[c] = NoCall
  /\ doc[c] # NoCall => Stored(doc[c]) /\ KeyOf(doc[c]) = KeyOf(c)
  /\ answer[c] # NoCall => doc[c] # NoCall /\ orders[doc[c]] = answer[c]

CallsInPlace == \A c \in Calls : CallInPlace(c)

\* Only stored documents have events and orders.
OutboxOfStored == \A d \in Calls : outbox[d] # <<>> => Stored(d)

OrdersOfStored == \A d \in Calls : orders[d] # NoCall => Stored(d)

\* A row's reference is the order the target opened for it; an acknowledged row
\* has one exactly when its last event says mapped.
RefsAreOrders ==
  \A k \in Keys :
    /\ row[k].ref # NoCall => orders[row[k].id] = row[k].ref
    /\ row[k].status = "acknowledged" =>
         (row[k].ref # NoCall <=> LastOf(outbox[row[k].id]).type = "mapped")

\* A call that committed and has not yet published staged its event, and a
\* mapped row stays mapped meanwhile.
CommittedWasStaged ==
  \A c \in Calls : pc[c] = "publish" =>
    /\ \E i \in 1 .. Len(outbox[doc[c]]) : outbox[doc[c]][i] = LifecycleEvent(c)
    /\ answer[c] # NoCall =>
         /\ row[KeyOf(c)].status \in {"mapped", "acknowledged"}
         /\ row[KeyOf(c)].ref = answer[c]

\* A reply is never taken back, returned or not.
RepliesHold ==
  \A c \in Calls :
    LET r == row[KeyOf(c)] IN
    /\ reply[c].status = "mapped" =>
         r.status \in {"mapped", "acknowledged"} /\ r.ref = reply[c].ref
    /\ reply[c].status = "acknowledged" =>
         r.status = "acknowledged" /\ r.ref = reply[c].ref

\* An acknowledgement was captured from a row that is acknowledged now.
AcksOfAcknowledged ==
  \A a \in ackPending \cup ackEvents :
    Stored(a.doc) /\ row[KeyOf(a.doc)].status = "acknowledged"

IInv ==
  /\ TypeOK
  /\ RowsWellFormed
  /\ CallsInPlace
  /\ OutboxOfStored
  /\ OrdersOfStored
  /\ RowAgreesWithOutbox
  /\ MappedIsFinal
  /\ RefsAreOrders
  /\ CommittedWasStaged
  /\ PublishedWasStaged
  /\ RepliesHold
  /\ AcksOfAcknowledged
  /\ AckAgreesWithOutbox
  /\ StrandedOnlyByDeath

=================================================================================
