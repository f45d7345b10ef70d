------------------------------ MODULE EdiExchange ------------------------------
(***************************************************************************)
(* The inbound exchange core of backbone-edi: EdiWriteService's receive    *)
(* paths (claim, fetch, re-drive, map, settle, publish), acknowledge, and  *)
(* the guarded SQL of EdiDocumentRepository they run.                      *)
(*                                                                         *)
(* Any number of calls run at once (tasks of one process or several        *)
(* replicas).  Every pool statement autocommits, so a call may be          *)
(* overtaken between any two of its statements; the guarded UPDATE and the *)
(* outbox INSERT of a settlement share one transaction and one row lock,   *)
(* and are one step.  A call may die at any step: a `?` on a database      *)
(* error, a dropped request future, a process crash.                       *)
(*                                                                         *)
(* A call identifier also names everything the call creates: the document  *)
(* row it inserts (Uuid::new_v4), the copy of the envelope it carries      *)
(* (control number and payload) and the internal order the target opens    *)
(* for it.                                                                 *)
(***************************************************************************)
EXTENDS Naturals, Sequences

CONSTANTS
  Calls,          \* one per transmission a partner makes
  Fallible,       \* the calls that may die before they return
  Keys,           \* dedup slots: (partner, inbound, business_key)
  DocTypes,       \* edi_doc_type
  PurchaseOrder,  \* the type of every UBL document
  NoCall          \* SQL NULL / Option::None

ASSUME CallsAssumption == NoCall \notin Calls /\ Fallible \subseteq Calls
ASSUME DocTypesAssumption == PurchaseOrder \in DocTypes /\ NoCall \notin DocTypes

VARIABLES
  \* durable
  row,         \* edi.edi_documents, by dedup slot
  outbox,      \* the staged events of each document, in commit order
  orders,      \* the target's internal order for each idempotency key
  \* in memory
  msg,         \* what each call delivers
  pc,          \* where each call is
  doc,         \* the document a call has claimed or re-opened
  answer,      \* what the mapping port returned to a call
  reply,       \* the ReceiveOutcome a call is about to return, or returned
  ackPending,  \* AckRows whose event is not yet published
  \* the in-process sink
  published,   \* EdiDocumentMapped / EdiDocumentFailed it received
  ackEvents    \* EdiDocumentAcknowledged it received

vars == <<row, outbox, orders, msg, pc, doc, answer, reply, ackPending,
          published, ackEvents>>

-------------------------------------------------------------------------------
(* Types *)

CallOrNone == Calls \cup {NoCall}

Statuses == {"received", "mapped", "failed", "acknowledged"}

\* A document that reaches the exchange: one to map, or a UBL document refused
\* by the parser that still carries a usable business key.
Message ==
  [key: Keys, doc_type: DocTypes, refused: {FALSE}]
    \cup [key: Keys, doc_type: {PurchaseOrder}, refused: {TRUE}]

\* The columns the exchange reads and writes.  copy is the call whose
\* control_number and payload are stored, error the call whose refusal
\* error_detail renders, ref the mapped_ref pair.
Row == [status: Statuses \cup {"absent"}, id: CallOrNone,
        doc_type: DocTypes \cup {NoCall}, copy: CallOrNone,
        ref: CallOrNone, error: CallOrNone]

NoRow == [status |-> "absent", id |-> NoCall, doc_type |-> NoCall,
          copy |-> NoCall, ref |-> NoCall, error |-> NoCall]

Event == [doc: Calls, type: {"mapped"}, by: Calls, ref: Calls]
           \cup [doc: Calls, type: {"failed"}, by: Calls, ref: {NoCall}]

AckEvent == [doc: Calls, copy: Calls, accepted: {TRUE}, error: {NoCall}]
              \cup [doc: Calls, copy: Calls, accepted: {FALSE}, error: Calls]

Reply == [status: Statuses \cup {"none"}, ref: CallOrNone, duplicate: BOOLEAN]

NoReply == [status |-> "none", ref |-> NoCall, duplicate |-> FALSE]

Places == {"idle", "fetch", "reset", "map", "settle", "refuse", "publish",
           "reread", "done", "dead"}

TypeOK ==
  /\ row \in [Keys -> Row]
  /\ outbox \in [Calls -> Seq(Event)]
  /\ orders \in [Calls -> CallOrNone]
  /\ msg \in [Calls -> Message]
  /\ pc \in [Calls -> Places]
  /\ doc \in [Calls -> CallOrNone]
  /\ answer \in [Calls -> CallOrNone]
  /\ reply \in [Calls -> Reply]
  /\ ackPending \subseteq AckEvent
  /\ published \subseteq Event
  /\ ackEvents \subseteq AckEvent

-------------------------------------------------------------------------------
(* The guarded SQL: what a statement's WHERE clause matches, and the row it *)
(* leaves.                                                                  *)

KeyOf(c) == msg[c].key

\* INSERT ... ON CONFLICT DO NOTHING returns an id.
ClaimWins(r) == r.status = "absent"

ClaimedRow(c) ==
  [status |-> "received", id |-> c, doc_type |-> msg[c].doc_type, copy |-> c,
   ref |-> NoCall, error |-> NoCall]

\* A stored row that never completed mapping may be driven again.
Redrivable(r) == r.status \in {"received", "failed"} /\ r.ref = NoCall

\* Mutants: the guard without its status test; one that lets a mapped row through.
ResetMatches_NoStatus(r) == r.ref = NoCall

ResetMatches_Mapped(r) == r.status \in {"received", "failed", "mapped"}

ResetMatches(r) == r.status \in {"received", "failed"} /\ r.ref = NoCall

ResetRow(r, c) ==
  [r EXCEPT !.status = "received", !.copy = c, !.error = NoCall, !.ref = NoCall]

\* Mutant: the UPDATE finds its row by id alone.
MarkMappedMatches_Unguarded(r, d) == r.id = d

MarkMappedMatches(r, d) == r.id = d /\ r.status \in {"received", "failed"}

MappedRow(r, ref) ==
  [r EXCEPT !.status = "mapped", !.ref = ref, !.error = NoCall]

\* Mutants: no status guard; the same guard as mark_mapped.
MarkFailedMatches_Unguarded(r, d) == r.id = d

MarkFailedMatches_Refails(r, d) == r.id = d /\ r.status \in {"received", "failed"}

MarkFailedMatches(r, d) == r.id = d /\ r.status = "received"

FailedRow(r, c) == [r EXCEPT !.status = "failed", !.error = c]

\* Mutant: an acknowledgement that does not wait for the settlement.
AckMatches_Unsettled(r) == r.status \in {"received", "mapped", "failed"}

AckMatches(r) == r.status \in {"mapped", "failed"}

\* The pre-update state the CTE captures is the event's polarity and reason.
AckOf(r) ==
  LET accepted == r.status = "mapped" IN
  [doc |-> r.id, copy |-> r.copy, accepted |-> accepted,
   error |-> IF accepted THEN NoCall ELSE r.error]

AcknowledgedRow(r) == [r EXCEPT !.status = "acknowledged"]

-------------------------------------------------------------------------------
(* The events and replies a call builds *)

\* EdiDocumentMapped when the port accepted, EdiDocumentFailed otherwise (a
\* refused document never asks the port).
LifecycleEvent(c) ==
  [doc |-> doc[c], type |-> IF answer[c] # NoCall THEN "mapped" ELSE "failed",
   by |-> c, ref |-> answer[c]]

\* The outcome of a settlement this call performed itself.
SettledReply(c) ==
  [status |-> IF answer[c] # NoCall THEN "mapped" ELSE "failed",
   ref |-> answer[c], duplicate |-> FALSE]

\* The outcome read from a stored row.
StoredReply(r, dup) == [status |-> r.status, ref |-> r.ref, duplicate |-> dup]

\* Mutant: a token of its own for every mapping attempt.
IdempotencyKey_PerCall(c) == c

\* The token the MapRequest carries.
IdempotencyKey(c) == doc[c]

Goto(c, place) == pc' = [pc EXCEPT ![c] = place]

\* Mutant: a refusal is claimed but never recorded.
OpenedPlace_Unrecorded(c) == IF msg[c].refused THEN "done" ELSE "map"

\* After a claim or a reset: a refused document is recorded, any other mapped.
OpenedPlace(c) == IF msg[c].refused THEN "refuse" ELSE "map"

-------------------------------------------------------------------------------
Init ==
  /\ row = [k \in Keys |-> NoRow]
  /\ outbox = [d \in Calls |-> <<>>]
  /\ orders = [d \in Calls |-> NoCall]
  /\ msg \in [Calls -> Message]
  /\ pc = [c \in Calls |-> "idle"]
  /\ doc = [c \in Calls |-> NoCall]
  /\ answer = [c \in Calls |-> NoCall]
  /\ reply = [c \in Calls |-> NoReply]
  /\ ackPending = {}
  /\ published = {}
  /\ ackEvents = {}

\* A transmission arrives and tries to claim its dedup slot.
Claim(c) ==
  /\ pc[c] = "idle"
  /\ \/ /\ ClaimWins(row[KeyOf(c)])
        /\ row' = [row EXCEPT ![KeyOf(c)] = ClaimedRow(c)]
        /\ doc' = [doc EXCEPT ![c] = c]
        /\ Goto(c, OpenedPlace(c))
     \/ /\ ~ClaimWins(row[KeyOf(c)])
        /\ Goto(c, "fetch")
        /\ UNCHANGED <<row, doc>>
  /\ UNCHANGED <<outbox, orders, msg, answer, reply, ackPending, published,
                 ackEvents>>

\* The losing claim re-reads the original; what it saw is its reply unless a
\* re-drive follows.
Fetch(c) ==
  /\ pc[c] = "fetch"
  /\ reply' = [reply EXCEPT ![c] = StoredReply(row[KeyOf(c)], TRUE)]
  /\ Goto(c, IF Redrivable(row[KeyOf(c)]) THEN "reset" ELSE "done")
  /\ UNCHANGED <<row, outbox, orders, msg, doc, answer, ackPending, published,
                 ackEvents>>

\* Mutant: the incoming envelope is stored although the guard does not match.
Reset_Refreshes(c) ==
  /\ pc[c] = "reset"
  /\ \/ /\ ResetMatches(row[KeyOf(c)])
        /\ row' = [row EXCEPT ![KeyOf(c)] = ResetRow(@, c)]
        /\ doc' = [doc EXCEPT ![c] = row[KeyOf(c)].id]
        /\ Goto(c, OpenedPlace(c))
     \/ /\ ~ResetMatches(row[KeyOf(c)])
        /\ row' = [row EXCEPT ![KeyOf(c)].copy = c]
        /\ Goto(c, "done")
        /\ UNCHANGED doc
  /\ UNCHANGED <<outbox, orders, msg, answer, reply, ackPending, published,
                 ackEvents>>

\* The re-drive: re-open the row with this copy's envelope, or return the
\* outcome fetched earlier when the row has been settled meanwhile.
Reset(c) ==
  /\ pc[c] = "reset"
  /\ \/ /\ ResetMatches(row[KeyOf(c)])
        /\ row' = [row EXCEPT ![KeyOf(c)] = ResetRow(@, c)]
        /\ doc' = [doc EXCEPT ![c] = row[KeyOf(c)].id]
        /\ Goto(c, OpenedPlace(c))
     \/ /\ ~ResetMatches(row[KeyOf(c)])
        /\ Goto(c, "done")
        /\ UNCHANGED <<row, doc>>
  /\ UNCHANGED <<outbox, orders, msg, answer, reply, ackPending, published,
                 ackEvents>>

\* The target opens an order, or hands back the one it already opened for this
\* idempotency key.
MapAccepted(c) ==
  /\ pc[c] = "map"
  /\ LET d == IdempotencyKey(c)
         order == IF orders[d] = NoCall THEN c ELSE orders[d]
     IN  /\ orders' = [orders EXCEPT ![d] = order]
         /\ answer' = [answer EXCEPT ![c] = order]
  /\ Goto(c, "settle")
  /\ UNCHANGED <<row, outbox, msg, doc, reply, ackPending, published, ackEvents>>

\* The target refuses this copy.  It validates the payload before it looks for
\* an order, so an order opened for an earlier copy does not prevent it.
MapRejected(c) ==
  /\ pc[c] = "map"
  /\ Goto(c, "settle")
  /\ UNCHANGED <<row, outbox, orders, msg, doc, answer, reply, ackPending,
                 published, ackEvents>>

\* One transaction: the guarded UPDATE matched, and the event is staged with it.
CommitSettlement(c, r) ==
  /\ row' = [row EXCEPT ![KeyOf(c)] = r]
  /\ outbox' = [outbox EXCEPT ![doc[c]] = Append(@, LifecycleEvent(c))]
  /\ Goto(c, "publish")
  /\ UNCHANGED <<orders, msg, doc, answer, reply, ackPending, published,
                 ackEvents>>

\* settle_inbound after the port accepted.
SettleMapped(c) ==
  /\ pc[c] = "settle"
  /\ answer[c] # NoCall
  /\ MarkMappedMatches(row[KeyOf(c)], doc[c])
  /\ CommitSettlement(c, MappedRow(row[KeyOf(c)], answer[c]))

\* settle_inbound after the port rejected.
SettleFailed(c) ==
  /\ pc[c] = "settle"
  /\ answer[c] = NoCall
  /\ MarkFailedMatches(row[KeyOf(c)], doc[c])
  /\ CommitSettlement(c, FailedRow(row[KeyOf(c)], c))

\* Mutant: the loser of a settlement publishes its own event all the same.
LoseSettlement_Publishes(c) ==
  /\ pc[c] = "settle"
  /\ IF answer[c] # NoCall
       THEN ~MarkMappedMatches(row[KeyOf(c)], doc[c])
       ELSE ~MarkFailedMatches(row[KeyOf(c)], doc[c])
  /\ Goto(c, "publish")
  /\ UNCHANGED <<row, outbox, orders, msg, doc, answer, reply, ackPending,
                 published, ackEvents>>

\* Another call settled the row first: nothing is staged, the stored outcome is
\* read back.
LoseSettlement(c) ==
  /\ pc[c] = "settle"
  /\ IF answer[c] # NoCall
       THEN ~MarkMappedMatches(row[KeyOf(c)], doc[c])
       ELSE ~MarkFailedMatches(row[KeyOf(c)], doc[c])
  /\ Goto(c, "reread")
  /\ UNCHANGED <<row, outbox, orders, msg, doc, answer, reply, ackPending,
                 published, ackEvents>>

\* record_parse_failure: the port is never asked.
RecordRefusal(c) ==
  /\ pc[c] = "refuse"
  /\ MarkFailedMatches(row[KeyOf(c)], doc[c])
  /\ CommitSettlement(c, FailedRow(row[KeyOf(c)], c))

\* record_parse_failure when the row is no longer `received`: no event, but the
\* call still answers "failed".
LoseRefusal(c) ==
  /\ pc[c] = "refuse"
  /\ ~MarkFailedMatches(row[KeyOf(c)], doc[c])
  /\ reply' = [reply EXCEPT ![c] = SettledReply(c)]
  /\ Goto(c, "done")
  /\ UNCHANGED <<row, outbox, orders, msg, doc, answer, ackPending, published,
                 ackEvents>>

\* After the commit: publish in process and return.
Publish(c) ==
  /\ pc[c] = "publish"
  /\ published' = published \cup {LifecycleEvent(c)}
  /\ reply' = [reply EXCEPT ![c] = SettledReply(c)]
  /\ Goto(c, "done")
  /\ UNCHANGED <<row, outbox, orders, msg, doc, answer, ackPending, ackEvents>>

\* stored_outcome_for.
Reread(c) ==
  /\ pc[c] = "reread"
  /\ reply' = [reply EXCEPT ![c] = StoredReply(row[KeyOf(c)], FALSE)]
  /\ Goto(c, "done")
  /\ UNCHANGED <<row, outbox, orders, msg, doc, answer, ackPending, published,
                 ackEvents>>

\* The call dies where it stands; what it committed stays.
Die(c) ==
  /\ c \in Fallible
  /\ pc[c] \notin {"idle", "done", "dead"}
  /\ Goto(c, "dead")
  /\ UNCHANGED <<row, outbox, orders, msg, doc, answer, reply, ackPending,
                 published, ackEvents>>

\* acknowledge: the guarded UPDATE that also returns the pre-update state.  A
\* row it does not match leaves everything unchanged (Ok(false)).
Acknowledge(k) ==
  /\ AckMatches(row[k])
  /\ row' = [row EXCEPT ![k] = AcknowledgedRow(@)]
  /\ ackPending' = ackPending \cup {AckOf(row[k])}
  /\ UNCHANGED <<outbox, orders, msg, pc, doc, answer, reply, published,
                 ackEvents>>

PublishAck(a) ==
  /\ ackPending' = ackPending \ {a}
  /\ ackEvents' = ackEvents \cup {a}
  /\ UNCHANGED <<row, outbox, orders, msg, pc, doc, answer, reply, published>>

\* The caller of acknowledge dies between the UPDATE and the publish.
DropAck(a) ==
  /\ ackPending' = ackPending \ {a}
  /\ UNCHANGED <<row, outbox, orders, msg, pc, doc, answer, reply, published,
                 ackEvents>>

Step(c) ==
  \/ Fetch(c) \/ Reset(c) \/ MapAccepted(c) \/ MapRejected(c)
  \/ SettleMapped(c) \/ SettleFailed(c) \/ LoseSettlement(c)
  \/ RecordRefusal(c) \/ LoseRefusal(c) \/ Publish(c) \/ Reread(c)

Next ==
  \/ \E c \in Calls : Claim(c) \/ Step(c) \/ Die(c)
  \/ \E k \in Keys : Acknowledge(k)
  \/ \E a \in ackPending : PublishAck(a) \/ DropAck(a)

Spec == Init /\ [][Next]_vars

-------------------------------------------------------------------------------
(* Safety *)

LastOf(log) == log[Len(log)]

HasRow(k) == row[k].status # "absent"

\* What a consumer of the outbox reads last about a document is what its row
\* says: a mapped row was announced with its reference, a failed row with the
\* refusal its error_detail renders, and a row open for (re-)driving was never
\* announced as mapped.  (Staging in the transaction of the status UPDATE.)
RowAgreesWithOutbox ==
  \A k \in Keys : HasRow(k) =>
    LET r == row[k]
        log == outbox[r.id]
    IN  /\ r.status = "received" => log = <<>> \/ LastOf(log).type = "failed"
        /\ r.status = "mapped" =>
             log # <<>> /\ LastOf(log).type = "mapped" /\ LastOf(log).ref = r.ref
        /\ r.status = "failed" =>
             log # <<>> /\ LastOf(log).type = "failed" /\ LastOf(log).by = r.error
        /\ r.status = "acknowledged" => log # <<>>

\* EdiDocumentMapped is the last word on a document: however many copies race,
\* it is staged at most once and no EdiDocumentFailed follows it.
MappedIsFinal ==
  \A d \in Calls : \A i \in 1 .. Len(outbox[d]) :
    outbox[d][i].type = "mapped" => i = Len(outbox[d])

\* Replay safety: all transmissions of one business document lead to at most
\* one internal order, and a row links to the order the target really opened
\* for it.
OneOrderPerBusinessDocument ==
  /\ \A d, e \in Calls :
       orders[d] # NoCall /\ orders[e] # NoCall /\ KeyOf(d) = KeyOf(e) => d = e
  /\ \A k \in Keys : row[k].ref # NoCall => orders[row[k].id] = row[k].ref

\* A functional acknowledgement is issued once per document, with the polarity
\* of the last staged event and, when negative, that event's own refusal: the
\* sink that builds the 997 and the consumer of the outbox agree for ever.
AckAgreesWithOutbox ==
  \A a \in ackPending \cup ackEvents :
    /\ outbox[a.doc] # <<>>
    /\ a.accepted <=> LastOf(outbox[a.doc]).type = "mapped"
    /\ ~a.accepted => LastOf(outbox[a.doc]).by = a.error
    /\ \A b \in ackPending \cup ackEvents : a.doc = b.doc => a = b

\* The control number an acknowledgement answers with is that of a transmission
\* that drove this very document (inserted its row or re-opened it): re-drives
\* exchange the envelope under calls that go on to settle, but a copy that was
\* only answered from the stored row, or came for another document, never gets
\* its envelope into a settled row.
AcksNameADriver ==
  \A a \in ackPending \cup ackEvents : doc[a.copy] = a.doc

\* The in-process sink hears only of settlements that are committed: a lost
\* race or a rolled back transaction publishes nothing.
PublishedWasStaged ==
  \A e \in published : \E i \in 1 .. Len(outbox[e.doc]) : outbox[e.doc][i] = e

\* A call that answered "mapped" or "acknowledged" is never contradicted by the
\* row, whatever other calls do later.
PositiveRepliesHold ==
  \A c \in Calls : pc[c] = "done" =>
    LET r == row[KeyOf(c)] IN
    /\ reply[c].status = "mapped" =>
         r.status \in {"mapped", "acknowledged"} /\ r.ref = reply[c].ref
    /\ reply[c].status = "acknowledged" =>
         r.status = "acknowledged" /\ r.ref = reply[c].ref

\* Every outcome is backed by the outbox: whichever of the racing copies did the
\* work, a settlement of the document was staged before any of them returned.
OutcomesAreBacked ==
  \A c \in Calls : pc[c] \in {"publish", "reread", "done"} =>
    HasRow(KeyOf(c)) /\ outbox[row[KeyOf(c)].id] # <<>>

\* A row is left `received` only by a call that is still at work on it or that
\* died: without a crash no document is stranded.
StrandedOnlyByDeath ==
  \A k \in Keys : row[k].status = "received" =>
    \E c \in Calls : /\ doc[c] = row[k].id
                     /\ pc[c] \in {"map", "settle", "refuse", "dead"}

\* Every row that is not settled can be driven again by the next transmission:
\* the service's test and the repository's guard both see no reference.
OpenRowsCanBeRedriven ==
  \A k \in Keys : row[k].status \in {"received", "failed"} => row[k].ref = NoCall

\* What no step may ever do to a settled row: an acknowledged row is terminal,
\* and a mapped one keeps its envelope and its reference and can only be
\* acknowledged.
SettledRowsStaySettled ==
  [][\A k \in Keys :
       /\ row[k].status = "acknowledged" => row'[k] = row[k]
       /\ row[k].status = "mapped" =>
            row'[k] \in {row[k], AcknowledgedRow(row[k])}]_vars

-------------------------------------------------------------------------------
(* What the repository says of the exchange and the code does not do *)

\* "settled rows return their stored outcome untouched" (record_ubl_refusal):
\* a call answers "failed" only for a document whose failure was recorded.
ReportedFailureWasRecorded ==
  \A c \in Calls : pc[c] = "done" /\ reply[c].status = "failed" =>
    LET log == outbox[row[KeyOf(c)].id]
    IN  \E i \in 1 .. Len(log) : log[i].type = "failed"

\* "The lifecycle event is DURABLE ... a crash between commit and the in-proc
\* publish can't drop it" (ADR-001), EdiDocumentAcknowledged being one of the
\* events "staged to the outbox + published" (FSD): the event of an acknowledged
\* document is published, or something still holds it.
AckEventsAreDurable ==
  \A k \in Keys : row[k].status = "acknowledged" =>
    \E a \in ackPending \cup ackEvents : a.doc = row[k].id

\* "this business document was already received (a partner retransmission)"
\* (claim_inbound): what is dropped as a duplicate is a document of the type
\* that was received.
DuplicatesAreRetransmissions ==
  \A c \in Calls : pc[c] = "done" /\ reply[c].duplicate =>
    msg[c].doc_type = row[KeyOf(c)].doc_type

\* "a document that can't be mapped emits EdiDocumentFailed (the partner needs a
\* negative acknowledgement)", an internal order having been created for one
\* that can (edi_events): a partner told "rejected" for good has no order.
NegativeAckMeansNoOrder ==
  \A a \in ackPending \cup ackEvents : ~a.accepted => orders[a.doc] = NoCall

-------------------------------------------------------------------------------
(* The exchange implements the document lifecycle *)

LifecycleState(r) ==
  CASE r.status = "absent" -> "absent"
    [] r.status = "received" -> "open"
    [] r.status = "mapped" -> "accepted"
    [] r.status = "failed" -> "rejected"
    [] r.status = "acknowledged" -> "closed"

\* The reference that survives the acknowledgement tells its polarity.
LifecycleVerdict(r) ==
  IF r.status # "acknowledged" THEN "none"
  ELSE IF r.ref # NoCall THEN "positive" ELSE "negative"

LifecycleStates == [k \in Keys |-> LifecycleState(row[k])]

LifecycleLogs == [k \in Keys |-> IF HasRow(k) THEN outbox[row[k].id] ELSE <<>>]

LifecycleVerdicts == [k \in Keys |-> LifecycleVerdict(row[k])]

Lifecycle ==
  INSTANCE EdiLifecycle WITH
    Documents <- Keys,
    Mappings <- {e \in Event : e.type = "mapped"},
    Failures <- {e \in Event : e.type = "failed"},
    state <- LifecycleStates,
    log <- LifecycleLogs,
    verdict <- LifecycleVerdicts

\* Under any interleaving of calls, acknowledgements and crashes, the table and
\* the outbox together go through the documented life of a business document.
ImplementsLifecycle == Lifecycle!LifecycleSpec

-------------------------------------------------------------------------------
(* Liveness: the runtime polls every task that can run, and statements and the *)
(* target answer.  Nothing forces a partner to transmit, a call to die or      *)
(* anybody to acknowledge.                                                     *)

Fairness == \A c \in Calls : WF_vars(Step(c))

FairSpec == Spec /\ Fairness

\* A transmission that is not cut short gets its document settled, also when
\* earlier copies died half-way, and whoever else races it.  (A later re-drive
\* that dies may re-open a rejected document.)
DeliveredDocumentsSettle ==
  \A c \in Calls \ Fallible :
    pc[c] \in {"fetch", "reset", "map", "settle", "refuse"}
      ~> row[KeyOf(c)].status \in {"mapped", "failed", "acknowledged"}

===============================================================================
