------------------------------ MODULE EdiAdminInv ------------------------------
(***************************************************************************)
(* The inductive invariant of EdiAdmin.  Under the CRUD surface a row may  *)
(* be in any slot or in none, so what the exchange knows of its slot in    *)
(* EdiExchangeInv is said here of the document, wherever its row is; and   *)
(* of the slot only as long as nobody moved or purged its row.             *)
(***************************************************************************)
EXTENDS EdiAdmin

Created(d) == RowOf(d).status # "absent"

\* A row is the row of one document, in one slot.
RowsHaveIds ==
  \A k \in Keys :
    /\ ~HasRow(k) => row[k] = NoRow
    /\ HasRow(k) => /\ row[k].id \in Calls
                    /\ \A j \in Keys : row[j].id = row[k].id => j = k

\* A purged document is in no slot.
PurgedAreGone ==
  \A d \in Calls :
    IF purged[d].status = "absent"
      THEN purged[d] = NoRow
      ELSE purged[d].id = d /\ \A k \in Keys : row[k].id # d

\* Which of its nullable columns are set follows from the status.
RowFits(r) ==
  /\ r.status # "absent" => r.copy \in Calls
  /\ r.status \in {"received", "failed"} => r.ref = NoCall
  /\ r.status = "mapped" => r.ref \in Calls
  /\ r.status = "failed" => r.error \in Calls

\* Only a call that arrived has inserted a row.
DocumentsWellFormed ==
  \A d \in Calls : RowFits(RowOf(d)) /\ (Created(d) => pc[d] # "idle")

\* What a request has loaded is a row some document had: its protected columns
\* went together, and go together again when they are saved.
LoadsAreRows ==
  \A l \in loads : /\ l.before.status # "absent" /\ RowFits(l.before)
                  /\ l.before.id \in Calls /\ Created(l.before.id)

RevertedAreDocuments == \A d \in reverted : Created(d)

\* What a call knows at each place: a document it holds was created, and is in
\* the call's own slot unless somebody moved or purged a row there.
CallKnows(c) ==
  /\ pc[c] \in {"idle", "fetch"} => doc[c] = NoCall
  /\ pc[c] \in {"reset", "map", "settle", "refuse", "publish", "reread"} =>
       doc[c] # NoCall
  /\ pc[c] = "fetch" => HasRow(KeyOf(c)) \/ KeyOf(c) \in touched
  /\ pc[c] \in {"idle", "fetch", "reset", "map", "refuse"} => answer[c] = NoCall
  /\ doc[c] # NoCall =>
       Created(doc[c]) /\ (row[KeyOf(c)].id = doc[c] \/ KeyOf(c) \in touched)
  /\ answer[c] # NoCall => doc[c] # NoCall /\ orders[doc[c]] = answer[c]
  /\ pc[c] = "publish" /\ answer[c] # NoCall /\ doc[c] \notin reverted =>
       /\ RowOf(doc[c]).status \in {"mapped", "acknowledged"}
       /\ RowOf(doc[c]).ref = answer[c]

CallsKnow == \A c \in Calls : CallKnows(c)

\* An order was opened by a call that holds the document.
OrdersOfHolders == \A d \in Calls : orders[d] # NoCall => doc[orders[d]] = d

\* A reply holds while the slot is left alone and its row is not taken back.
UntouchedReplies ==
  \A c \in Calls : KeyOf(c) \notin touched =>
    LET r == row[KeyOf(c)] IN r.id \notin reverted =>
    /\ reply[c].status = "mapped" =>
         r.status \in {"mapped", "acknowledged"} /\ r.ref = reply[c].ref
    /\ reply[c].status = "acknowledged" =>
         r.status = "acknowledged" /\ r.ref = reply[c].ref

AcksOfAcknowledgedDocuments ==
  \A a \in ackPending \cup ackEvents :
    /\ Created(a.doc)
    /\ a.doc \notin reverted => RowOf(a.doc).status = "acknowledged"

AdminInv ==
  /\ AdminTypeOK
  /\ RowsHaveIds
  /\ PurgedAreGone
  /\ DocumentsWellFormed
  /\ LoadsAreRows
  /\ RevertedAreDocuments
  /\ DocumentsAgreeWithOutbox
  /\ CallsKnow
  /\ OrdersOfHolders
  /\ UntouchedReplies
  /\ AcksOfAcknowledgedDocuments
  /\ DocumentAcksAgree
  /\ UntouchedCallsAnswer

================================================================================
