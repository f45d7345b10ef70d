-------------------------------- MODULE EdiAdmin --------------------------------
(***************************************************************************)
(* The exchange core with the generic CRUD surface of EdiDocument mounted  *)
(* next to it (all_crud_routes, create_edi_document_write_routes): both    *)
(* write edi.edi_documents, and nothing coordinates them but the database. *)
(*                                                                         *)
(* The exchange finds a row by its dedup slot (the claim, the fetch, the   *)
(* re-read) or by its id (the reset, the settlements, the                  *)
(* acknowledgement).  In EdiExchange a row never leaves its slot and the   *)
(* two are the same.  Here an administrator can move a row to another slot *)
(* (partner_id, direction and business_key are not write-protected) or     *)
(* purge it, so every statement looks its row up as its WHERE clause does. *)
(*                                                                         *)
(* Keys are slots of any partner and direction; a slot no message names is *)
(* one of another partner, or an outbound one.  The generic service is     *)
(* outside the repository: it is modelled from its routes, its DTOs and    *)
(* the declarations of EdiDocument that it reads.  A write that the row    *)
(* rules, the unique index or a missing id refuses changes nothing.        *)
(*                                                                         *)
(* A PUT or PATCH loads an entity, works on it and saves it by its id; the *)
(* exchange may settle, re-open or acknowledge the row between the two.    *)
(* That the UPDATE leaves the write-protected columns out is not for this  *)
(* repository to say, so a save may also write back those it loaded: a     *)
(* document this happens to is `reverted`.                                 *)
(***************************************************************************)
EXTENDS EdiExchange

CONSTANT Requests  \* the PUTs and PATCHes that may be under way at once

VARIABLES
  trash,    \* the documents whose metadata.deleted_at is set
  loads,    \* what each PUT or PATCH under way has loaded
  touched,  \* (history) slots an administrator moved a row out of or into, or purged
  purged,   \* (history) the row of each document as it was when it was purged
  reverted  \* (history) documents whose lifecycle columns a save took back

adminVars == <<vars, trash, loads, touched, purged, reverted>>

AdminTypeOK ==
  /\ TypeOK
  /\ trash \subseteq Calls
  /\ loads \subseteq [request: Requests, before: Row]
  /\ touched \subseteq Keys
  /\ purged \in [Calls -> Row]
  /\ reverted \subseteq Calls

-------------------------------------------------------------------------------
(* The exchange, each statement with its own way to the row *)

\* No statement of the exchange reads or writes deleted_at.
CrudUntouched == UNCHANGED <<trash, loads, touched, purged, reverted>>

\* Mutant: the re-read of a losing claim takes for granted that there is a row.
FetchRow_Unchecked(c) == Fetch(c)

\* fetch_inbound_by_business_key: the id it returns is what the reset will name.
\* RowNotFound when the row has left the slot since the claim lost to it.
FetchRow(c) ==
  /\ pc[c] = "fetch"
  /\ \/ /\ HasRow(KeyOf(c))
        /\ reply' = [reply EXCEPT ![c] = StoredReply(row[KeyOf(c)], TRUE)]
        /\ doc' = [doc EXCEPT ![c] = row[KeyOf(c)].id]
        /\ Goto(c, IF Redrivable(row[KeyOf(c)]) THEN "reset" ELSE "done")
     \/ /\ ~HasRow(KeyOf(c))
        /\ Goto(c, "dead")
        /\ UNCHANGED <<reply, doc>>
  /\ UNCHANGED <<row, outbox, orders, msg, answer, ackPending, published,
                 ackEvents>>

\* Mutant: the reset passes over rows in the trash.
ResetById_LiveOnly(c) ==
  LET Hits(k) == row[k].id = doc[c] /\ ResetMatches(row[k]) /\ doc[c] \notin trash IN
  /\ pc[c] = "reset"
  /\ \/ \E k \in Keys : /\ Hits(k)
                        /\ row' = [row EXCEPT ![k] = ResetRow(@, c)]
                        /\ Goto(c, OpenedPlace(c))
     \/ /\ \A k \in Keys : ~Hits(k)
        /\ Goto(c, "done")
        /\ UNCHANGED row
  /\ UNCHANGED <<outbox, orders, msg, doc, answer, reply, ackPending, published,
                 ackEvents>>

\* reset_for_redrive, by id: the row may be in another slot by now, or gone.
ResetById(c) ==
  LET Hits(k) == row[k].id = doc[c] /\ ResetMatches(row[k]) IN
  /\ pc[c] = "reset"
  /\ \/ \E k \in Keys : /\ Hits(k)
                        /\ row' = [row EXCEPT ![k] = ResetRow(@, c)]
                        /\ Goto(c, OpenedPlace(c))
     \/ /\ \A k \in Keys : ~Hits(k)
        /\ Goto(c, "done")
        /\ UNCHANGED row
  /\ UNCHANGED <<outbox, orders, msg, doc, answer, reply, ackPending, published,
                 ackEvents>>

\* Mutant: a settlement writes to the slot the document came for.
SettlementMatches_BySlot(c, k) ==
  k = KeyOf(c) /\ row[k].status \in {"received", "failed"}

\* The guarded UPDATE of a settlement: mark_mapped when the port accepted,
\* mark_failed when it rejected and for a refused document.
SettlementMatches(c, k) ==
  IF answer[c] # NoCall THEN MarkMappedMatches(row[k], doc[c])
                        ELSE MarkFailedMatches(row[k], doc[c])

SettlementRow(c, k) ==
  IF answer[c] # NoCall THEN MappedRow(row[k], answer[c])
                        ELSE FailedRow(row[k], c)

\* settle_inbound and record_parse_failure, won: the row in whatever slot it is,
\* and the event with it.
SettleById(c) ==
  /\ pc[c] \in {"settle", "refuse"}
  /\ \E k \in Keys :
       /\ SettlementMatches(c, k)
       /\ row' = [row EXCEPT ![k] = SettlementRow(c, k)]
  /\ outbox' = [outbox EXCEPT ![doc[c]] = Append(@, LifecycleEvent(c))]
  /\ Goto(c, "publish")
  /\ UNCHANGED <<orders, msg, doc, answer, reply, ackPending, published,
                 ackEvents>>

\* Lost: nothing is staged; a mapping re-reads, a refusal answers "failed".
LoseById(c) ==
  /\ \A k \in Keys : ~SettlementMatches(c, k)
  /\ \/ /\ pc[c] = "settle"
        /\ Goto(c, "reread")
        /\ UNCHANGED reply
     \/ /\ pc[c] = "refuse"
        /\ Goto(c, "done")
        /\ reply' = [reply EXCEPT ![c] = SettledReply(c)]
  /\ UNCHANGED <<row, outbox, orders, msg, doc, answer, ackPending, published,
                 ackEvents>>

\* stored_outcome_for looks in the slot again, not for the id it lost.
RereadSlot(c) ==
  \/ HasRow(KeyOf(c)) /\ Reread(c)
  \/ /\ pc[c] = "reread"
     /\ ~HasRow(KeyOf(c))
     /\ Goto(c, "dead")
     /\ UNCHANGED <<row, outbox, orders, msg, doc, answer, reply, ackPending,
                    published, ackEvents>>

AdminStep(c) ==
  /\ \/ FetchRow(c) \/ ResetById(c) \/ MapAccepted(c) \/ MapRejected(c)
     \/ SettleById(c) \/ LoseById(c) \/ Publish(c) \/ RereadSlot(c)
  /\ CrudUntouched

-------------------------------------------------------------------------------
(* The CRUD surface *)

Trashed(k) == row[k].id \in trash

ExchangeUntouched ==
  UNCHANGED <<outbox, orders, msg, doc, answer, reply, ackPending, published,
              ackEvents>>

\* What a client can make of the unprotected columns of a row: another doc_type,
\* and a control_number and payload of its own, which go by the id of the row.
Edited(r) ==
  [doc_type: DocTypes, copy: {r.copy, r.id}, status: {r.status},
   id: {r.id}, ref: {r.ref}, error: {r.error}]

\* status, mapped_ref and error_detail: write_protected_fields lists them, the DTOs
\* lack them, and clients are told not to set a status by PATCH (apply_patch alone
\* would let them): no body writes them.
Protected(r) == [status |-> r.status, ref |-> r.ref, error |-> r.error]

\* Mutant: POST replaces the row of a taken slot.
Create_Replaces(c, k) ==
  /\ pc[c] = "idle"
  /\ \E r \in Edited(ClaimedRow(c)) : row' = [row EXCEPT ![k] = r]
  /\ Goto(c, "done")
  /\ ExchangeUntouched
  /\ CrudUntouched

\* POST, and each row of POST /bulk: a fresh id, status received, and nothing of
\* the exchange follows.  A taken slot is a unique violation.  The request is a
\* call that transmits nothing.
Create(c, k) ==
  /\ pc[c] = "idle"
  /\ ClaimWins(row[k])
  /\ \E r \in Edited(ClaimedRow(c)) : row' = [row EXCEPT ![k] = r]
  /\ Goto(c, "done")
  /\ ExchangeUntouched
  /\ CrudUntouched

\* PUT and PATCH read the row...
Load(q, k) ==
  /\ \A l \in loads : l.request # q
  /\ HasRow(k) /\ ~Trashed(k)
  /\ loads' = loads \cup {[request |-> q, before |-> row[k]]}
  /\ UNCHANGED <<row, pc, trash, touched, purged, reverted>>
  /\ ExchangeUntouched

\* What a save may write over the row r: the entity it loaded, edited, with the
\* protected columns as they were loaded or as they are stored.
SavedVersions(before, r) ==
  Edited(before) \cup
    {[v EXCEPT !.status = r.status, !.ref = r.ref, !.error = r.error] :
       v \in Edited(before)}

\* ...and save the entity by its id, wherever the row is by now; it may go to
\* another slot when that one is free.  A row trashed in between may be found or
\* not, and come back with the metadata that was loaded or not.  (A POST /upsert
\* of a stored row is a save too; one that writes the defaults of a new entity is
\* that of an entity loaded when the row was inserted.)
Save(l, k, to) ==
  /\ HasRow(k) /\ row[k].id = l.before.id
  /\ to = k \/ ClaimWins(row[to])
  /\ \E r \in SavedVersions(l.before, row[k]) :
       /\ row' = [row EXCEPT ![k] = NoRow, ![to] = r]
       /\ reverted' = IF Protected(r) = Protected(row[k]) THEN reverted
                                                         ELSE reverted \cup {r.id}
  /\ trash' \in {trash, trash \ {l.before.id}}
  /\ touched' = IF to = k THEN touched ELSE touched \cup {k, to}
  /\ loads' = loads \ {l}
  /\ UNCHANGED <<pc, purged>>
  /\ ExchangeUntouched

\* The request ends without an UPDATE: row not found, a broken rule, a taken slot.
Drop(l) ==
  /\ loads' = loads \ {l}
  /\ UNCHANGED <<row, pc, trash, touched, purged, reverted>>
  /\ ExchangeUntouched

\* Mutant: DELETE removes the row.
SoftDelete_Hard(k) ==
  /\ HasRow(k) /\ ~Trashed(k)
  /\ row' = [row EXCEPT ![k] = NoRow]
  /\ purged' = [purged EXCEPT ![row[k].id] = row[k]]
  /\ UNCHANGED <<pc, trash, loads, touched, reverted>>
  /\ ExchangeUntouched

\* DELETE /:id sets deleted_at; the row keeps its slot and its place in the
\* exchange.
SoftDelete(k) ==
  /\ HasRow(k) /\ ~Trashed(k)
  /\ trash' = trash \cup {row[k].id}
  /\ UNCHANGED <<row, pc, loads, touched, purged, reverted>>
  /\ ExchangeUntouched

\* POST /:id/restore
Restore(k) ==
  /\ HasRow(k) /\ Trashed(k)
  /\ trash' = trash \ {row[k].id}
  /\ UNCHANGED <<row, pc, loads, touched, purged, reverted>>
  /\ ExchangeUntouched

\* DELETE /trash/:id removes one row of the trash, DELETE /empty all of them.
Purge(slots) ==
  /\ slots # {}
  /\ \A k \in slots : HasRow(k) /\ Trashed(k)
  /\ row' = [k \in Keys |-> IF k \in slots THEN NoRow ELSE row[k]]
  /\ trash' = trash \ {row[k].id : k \in slots}
  /\ touched' = touched \cup slots
  /\ purged' = [d \in Calls |->
                  IF \E k \in slots : row[k].id = d
                    THEN row[CHOOSE k \in slots : row[k].id = d]
                    ELSE purged[d]]
  /\ UNCHANGED <<pc, loads, reverted>>
  /\ ExchangeUntouched

PurgeOne == \E k \in Keys : Purge({k})

EmptyTrash == Purge({k \in Keys : HasRow(k) /\ Trashed(k)})

Crud ==
  \/ \E c \in Calls, k \in Keys : Create(c, k)
  \/ \E q \in Requests, k \in Keys : Load(q, k)
  \/ \E l \in loads : Drop(l) \/ \E k, to \in Keys : Save(l, k, to)
  \/ \E k \in Keys : SoftDelete(k) \/ Restore(k)
  \/ PurgeOne \/ EmptyTrash

-------------------------------------------------------------------------------
AdminInit ==
  /\ Init
  /\ trash = {}
  /\ loads = {}
  /\ touched = {}
  /\ purged = [d \in Calls |-> NoRow]
  /\ reverted = {}

AdminNext ==
  \/ \E c \in Calls : AdminStep(c)
  \/ \E c \in Calls : (Claim(c) \/ Die(c)) /\ CrudUntouched
  \/ \E k \in Keys : Acknowledge(k) /\ CrudUntouched
  \/ \E a \in ackPending : (PublishAck(a) \/ DropAck(a)) /\ CrudUntouched
  \/ Crud

AdminSpec == AdminInit /\ [][AdminNext]_adminVars

AdminFairness == \A c \in Calls : WF_adminVars(AdminStep(c))

AdminFairSpec == AdminSpec /\ AdminFairness

-------------------------------------------------------------------------------
(* What the exchange still promises.  A stale save that takes the protected    *)
(* columns of a document back is the one thing that can part it from its       *)
(* events; the properties say that nothing else can.                           *)

\* The row of a document wherever it is now, or as it was when it was purged.
RowOf(d) ==
  IF \E k \in Keys : row[k].id = d THEN row[CHOOSE k \in Keys : row[k].id = d]
                                   ELSE purged[d]

DocumentStates == [d \in Calls |-> LifecycleState(RowOf(d))]

DocumentVerdicts == [d \in Calls |-> LifecycleVerdict(RowOf(d))]

DocumentLife ==
  INSTANCE EdiLifecycle WITH
    Documents <- Calls,
    Mappings <- {e \in Event : e.type = "mapped"},
    Failures <- {e \in Event : e.type = "failed"},
    state <- DocumentStates,
    log <- outbox,
    verdict <- DocumentVerdicts

\* A save takes the row of one document back to where it was when it was loaded:
\* nothing is staged, and no other document is involved.
TakenBack(d) ==
  /\ \E l \in loads \ loads' : /\ l.before.id = d
                              /\ DocumentStates'[d] = LifecycleState(l.before)
                              /\ DocumentVerdicts'[d] = LifecycleVerdict(l.before)
  /\ d \in reverted'
  /\ \A e \in Calls \ {d} : /\ DocumentStates'[e] = DocumentStates[e]
                            /\ DocumentVerdicts'[e] = DocumentVerdicts[e]
  /\ UNCHANGED outbox

\* However its row is created, edited, moved, soft-deleted, restored or purged,
\* and whichever calls are driving it meanwhile, a document (by id) goes through
\* the documented life, but for a save that writes stale protected columns over
\* it; after one, its life goes on from what the save left.
DocumentsKeepTheirLife ==
  /\ DocumentLife!LifecycleInit
  /\ [][DocumentLife!LifecycleNext \/ \E d \in Calls : TakenBack(d)]_
       <<DocumentStates, outbox, DocumentVerdicts>>

\* The row of a document, in its slot, moved, trashed or as it was purged, says
\* what the outbox said last about it, unless a save took it back.
DocumentsAgreeWithOutbox ==
  \A d \in Calls \ reverted :
    LET r == RowOf(d)
        log == outbox[d]
    IN  /\ r.status = "absent" => log = <<>>
        /\ r.status = "received" => log = <<>> \/ LastOf(log).type = "failed"
        /\ r.status = "mapped" =>
             log # <<>> /\ LastOf(log).type = "mapped" /\ LastOf(log).ref = r.ref
        /\ r.status = "failed" =>
             log # <<>> /\ LastOf(log).type = "failed" /\ LastOf(log).by = r.error
        /\ r.status = "acknowledged" => log # <<>>

\* The acknowledgement of a document, of its row in whatever slot it was, is the
\* only one and has the polarity and the reason of its last event, unless a save
\* took the document back before or after it.
DocumentAcksAgree ==
  \A a \in ackPending \cup ackEvents : a.doc \notin reverted =>
    /\ outbox[a.doc] # <<>>
    /\ a.accepted <=> LastOf(outbox[a.doc]).type = "mapped"
    /\ ~a.accepted => LastOf(outbox[a.doc]).by = a.error
    /\ \A b \in ackPending \cup ackEvents : a.doc = b.doc => a = b

\* Replay safety outlives administrators slot by slot: transmissions of one
\* business key open two orders only if somebody moved or purged a row of its
\* slot.  Creation, edits in place, soft deletion and restoring never do that.
UntouchedSlotsHaveOneOrder ==
  \A d, e \in Calls :
    LET o == orders[d]
        p == orders[e]
    IN  /\ o # NoCall /\ p # NoCall
        /\ KeyOf(o) = KeyOf(p) /\ KeyOf(o) \notin touched
        => d = e

\* A call that answered "mapped" or "acknowledged" is contradicted only if its
\* slot was moved or purged, or a save took the row back.
UntouchedRepliesHold ==
  \A c \in Calls : pc[c] = "done" /\ KeyOf(c) \notin touched =>
    LET r == row[KeyOf(c)] IN r.id \notin reverted =>
    /\ reply[c].status = "mapped" =>
         r.status \in {"mapped", "acknowledged"} /\ r.ref = reply[c].ref
    /\ reply[c].status = "acknowledged" =>
         r.status = "acknowledged" /\ r.ref = reply[c].ref

\* The row a losing claim lost to is there when it is read, unless it was moved
\* or purged in between: no other write surfaces as RowNotFound.
UntouchedCallsAnswer ==
  \A c \in Calls \ Fallible : pc[c] = "dead" => KeyOf(c) \in touched

\* A transmission that is not cut short settles its document, also one an
\* administrator created or put in the trash, unless its slot is moved or purged.
UntouchedDocumentsSettle ==
  \A c \in Calls \ Fallible :
    pc[c] \in {"fetch", "reset", "map", "settle", "refuse"}
      ~> \/ row[KeyOf(c)].status \in {"mapped", "failed", "acknowledged"}
         \/ KeyOf(c) \in touched

===============================================================================
