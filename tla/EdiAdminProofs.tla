----------------------------- MODULE EdiAdminProofs -----------------------------
(***************************************************************************)
(* What the exchange promises next to the CRUD surface holds for every set *)
(* of calls, slots and document types, and any number of writes.           *)
(***************************************************************************)
EXTENDS EdiAdminInv, TLAPS

RowsFine == RowsHaveIds /\ PurgedAreGone

(* What a step does to the rows, document by document. *)

Becomes(d, r) == RowOf(d)' = r /\ \A e \in Calls \ {d} : RowOf(e)' = RowOf(e)

AllKept == \A e \in Calls : RowOf(e)' = RowOf(e)

\* A slot is left by its row only when it is touched.
SlotsKept ==
  /\ touched \subseteq touched'
  /\ \A k \in Keys : k \notin touched' /\ HasRow(k) => row'[k].id = row[k].id

\* The row of a document is the one that carries its id, or the purged one.
LEMMA TheRow ==
  ASSUME NEW rows, NEW gone, NEW d
  PROVE  LET found == IF \E j \in Keys : rows[j].id = d
                        THEN rows[CHOOSE j \in Keys : rows[j].id = d]
                        ELSE gone[d]
         IN  /\ (\A j \in Keys : rows[j].id # d) => found = gone[d]
             /\ \A k \in Keys :
                  rows[k].id = d /\ (\A j \in Keys : rows[j].id = d => j = k)
                    => found = rows[k]
<1> DEFINE found == IF \E j \in Keys : rows[j].id = d
                      THEN rows[CHOOSE j \in Keys : rows[j].id = d]
                      ELSE gone[d]
<1>1. (\A j \in Keys : rows[j].id # d) => found = gone[d]
  OBVIOUS
<1>2. ASSUME NEW k \in Keys, rows[k].id = d, \A j \in Keys : rows[j].id = d => j = k
      PROVE  found = rows[k]
  <2>1. (CHOOSE j \in Keys : rows[j].id = d) = k
    BY <1>2
  <2> QED
    BY <1>2, <2>1
<1> QED
  BY <1>1, <1>2

LEMMA StoredRow ==
  ASSUME RowsHaveIds, NEW k \in Keys, HasRow(k)
  PROVE  /\ row[k].id \in Calls
         /\ RowOf(row[k].id) = row[k]
         /\ Created(row[k].id)
<1>1. row[k].id \in Calls /\ \A j \in Keys : row[j].id = row[k].id => j = k
  BY DEF RowsHaveIds
<1>2. RowOf(row[k].id) = row[k]
  BY <1>1, TheRow DEF RowOf
<1> QED
  BY <1>1, <1>2 DEF Created, HasRow

\* A row that names a document is a stored row.
LEMMA NamedRow ==
  ASSUME RowsHaveIds, NEW k \in Keys, row[k].id \in Calls
  PROVE  HasRow(k) /\ RowOf(row[k].id) = row[k]
<1>1. HasRow(k)
  BY CallsAssumption DEF RowsHaveIds, NoRow
<1> QED
  BY <1>1, StoredRow

LEMMA AbsentDocument ==
  ASSUME RowsFine, NEW d \in Calls
  PROVE  /\ ~Created(d) => purged[d] = NoRow /\ \A k \in Keys : row[k].id # d
         /\ (\A k \in Keys : row[k].id # d) => RowOf(d) = purged[d]
         /\ (\E k \in Keys : row[k].id = d) => purged[d] = NoRow
<1>1. (\A k \in Keys : row[k].id # d) => RowOf(d) = purged[d]
  BY TheRow DEF RowOf
<1>2. ASSUME ~Created(d) PROVE \A k \in Keys : row[k].id # d
  BY <1>2, NamedRow DEF RowsFine, Created, HasRow
<1>3. (\E k \in Keys : row[k].id = d) => purged[d] = NoRow
  BY DEF RowsFine, PurgedAreGone
<1> QED
  BY <1>1, <1>2, <1>3 DEF RowsFine, PurgedAreGone, Created

-------------------------------------------------------------------------------
(* The four ways a row changes: in place, inserted, moved, purged. *)

LEMMA InPlace ==
  ASSUME row \in [Keys -> Row], RowsFine, NEW k \in Keys, NEW d \in Calls,
         row[k].id = d, NEW r, r.id = d, r.status # "absent",
         row' = [row EXCEPT ![k] = r], purged' = purged, touched \subseteq touched'
  PROVE  RowsFine' /\ SlotsKept /\ Becomes(d, r)
<1>1. /\ HasRow(k)
      /\ \A j \in Keys : row'[j].id = row[j].id
      /\ \A j \in Keys : HasRow(j)' <=> HasRow(j)
      /\ row'[k] = r /\ \A j \in Keys : j # k => row'[j] = row[j]
  BY NamedRow DEF RowsFine, HasRow
<1>2. RowsHaveIds'
  BY <1>1 DEF RowsFine, RowsHaveIds, HasRow
<1>3. PurgedAreGone'
  BY <1>1 DEF RowsFine, PurgedAreGone
<1>4. SlotsKept
  BY <1>1 DEF SlotsKept
<1>5. RowOf(d)' = r
  <2>1. \A j \in Keys : row'[j].id = d => j = k
    BY <1>1 DEF RowsFine, RowsHaveIds
  <2> QED
    BY <1>1, <2>1, TheRow DEF RowOf
<1>6. ASSUME NEW e \in Calls \ {d} PROVE RowOf(e)' = RowOf(e)
  <2>1. CASE \A j \in Keys : row[j].id # e
    BY <1>1, <2>1, TheRow DEF RowOf
  <2>2. CASE \E j \in Keys : row[j].id = e
    <3>1. PICK j \in Keys : row[j].id = e
      BY <2>2
    <3>2. j # k /\ HasRow(j)
      BY <3>1, NamedRow DEF RowsFine
    <3>3. \A i \in Keys : row[i].id = e => i = j
      BY <3>1, <3>2 DEF RowsFine, RowsHaveIds
    <3>4. RowOf(e) = row[j]
      BY <3>1, <3>3, TheRow DEF RowOf
    <3>5. RowOf(e)' = row'[j]
      BY <1>1, <3>1, <3>3, TheRow DEF RowOf
    <3> QED
      BY <1>1, <3>2, <3>4, <3>5
  <2> QED
    BY <2>1, <2>2
<1> QED
  BY <1>2, <1>3, <1>4, <1>5, <1>6 DEF RowsFine, Becomes

LEMMA Inserted ==
  ASSUME row \in [Keys -> Row], RowsFine, NEW k \in Keys, ~HasRow(k),
         NEW d \in Calls, ~Created(d), NEW r, r.id = d, r.status # "absent",
         row' = [row EXCEPT ![k] = r], purged' = purged, touched \subseteq touched'
  PROVE  RowsFine' /\ SlotsKept /\ Becomes(d, r)
<1>1. /\ row'[k] = r /\ \A j \in Keys : j # k => row'[j] = row[j]
      /\ \A j \in Keys : row[j].id # d
      /\ purged[d] = NoRow /\ row[k].id = NoCall
  BY AbsentDocument DEF RowsFine, RowsHaveIds, NoRow
<1>2. RowsHaveIds'
  BY <1>1 DEF RowsFine, RowsHaveIds, HasRow
<1>3. PurgedAreGone'
  BY <1>1 DEF RowsFine, PurgedAreGone, NoRow
<1>4. SlotsKept
  BY <1>1 DEF SlotsKept, HasRow
<1>5. RowOf(d)' = r
  BY <1>1, TheRow DEF RowOf
<1>6. ASSUME NEW e \in Calls \ {d} PROVE RowOf(e)' = RowOf(e)
  <2>1. \A j \in Keys : row'[j].id = e <=> row[j].id = e
    BY <1>1, CallsAssumption
  <2>2. CASE \A j \in Keys : row[j].id # e
    BY <2>1, <2>2, TheRow DEF RowOf
  <2>3. ASSUME NEW j \in Keys, row[j].id = e PROVE RowOf(e)' = RowOf(e)
    <3>1. HasRow(j) /\ j # k
      BY <2>3, <1>1, NamedRow DEF RowsFine
    <3>2. \A i \in Keys : row[i].id = e => i = j
      BY <2>3, <3>1 DEF RowsFine, RowsHaveIds
    <3>3. RowOf(e) = row[j]
      BY <2>3, <3>2, TheRow DEF RowOf
    <3>4. RowOf(e)' = row'[j]
      BY <2>1, <2>3, <3>2, TheRow DEF RowOf
    <3> QED
      BY <1>1, <3>1, <3>3, <3>4
  <2> QED
    BY <2>2, <2>3
<1> QED
  BY <1>2, <1>3, <1>4, <1>5, <1>6 DEF RowsFine, Becomes

LEMMA Moved ==
  ASSUME row \in [Keys -> Row], RowsFine, NEW k \in Keys, NEW to \in Keys, k # to,
         NEW d \in Calls, row[k].id = d, ~HasRow(to), NEW r, r.id = d, r.status # "absent",
         row' = [row EXCEPT ![k] = NoRow, ![to] = r], purged' = purged,
         touched' = touched \cup {k, to}
  PROVE  RowsFine' /\ SlotsKept /\ Becomes(d, r)
<1>1. /\ row'[k] = NoRow /\ row'[to] = r
      /\ \A j \in Keys \ {k, to} : row'[j] = row[j]
      /\ HasRow(k) /\ row[to].id = NoCall
      /\ \A j \in Keys : row[j].id = d => j = k
  BY NamedRow DEF RowsFine, RowsHaveIds, NoRow
<1>2. RowsHaveIds'
  BY <1>1, CallsAssumption DEF RowsFine, RowsHaveIds, HasRow, NoRow
<1>3. PurgedAreGone'
  BY <1>1, CallsAssumption DEF RowsFine, PurgedAreGone, NoRow
<1>4. SlotsKept
  BY <1>1 DEF SlotsKept, HasRow
<1>5. RowOf(d)' = r
  <2>1. \A j \in Keys : row'[j].id = d => j = to
    BY <1>1, CallsAssumption DEF NoRow
  <2> QED
    BY <1>1, <2>1, TheRow DEF RowOf
<1>6. ASSUME NEW e \in Calls \ {d} PROVE RowOf(e)' = RowOf(e)
  <2>1. \A j \in Keys : row'[j].id = e <=> row[j].id = e
    BY <1>1, CallsAssumption DEF NoRow
  <2>2. CASE \A j \in Keys : row[j].id # e
    BY <2>1, <2>2, TheRow DEF RowOf
  <2>3. ASSUME NEW j \in Keys, row[j].id = e PROVE RowOf(e)' = RowOf(e)
    <3>1. HasRow(j) /\ j # k /\ j # to
      BY <2>3, <1>1, NamedRow DEF RowsFine
    <3>2. \A i \in Keys : row[i].id = e => i = j
      BY <2>3, <3>1 DEF RowsFine, RowsHaveIds
    <3>3. RowOf(e) = row[j]
      BY <2>3, <3>2, TheRow DEF RowOf
    <3>4. RowOf(e)' = row'[j]
      BY <2>1, <2>3, <3>2, TheRow DEF RowOf
    <3> QED
      BY <1>1, <3>1, <3>3, <3>4
  <2> QED
    BY <2>2, <2>3
<1> QED
  BY <1>2, <1>3, <1>4, <1>5, <1>6 DEF RowsFine, Becomes

LEMMA PurgeEffect ==
  ASSUME AdminTypeOK, RowsFine, NEW slots \in SUBSET Keys, Purge(slots)
  PROVE  /\ RowsFine' /\ SlotsKept /\ AllKept
         /\ row' \in [Keys -> Row] /\ purged' \in [Calls -> Row]
<1>1. /\ \A k \in slots : HasRow(k) /\ row'[k] = NoRow
      /\ \A k \in Keys \ slots : row'[k] = row[k]
      /\ touched' = touched \cup slots
      /\ \A k \in Keys : row[k] \in Row
      /\ \A d \in Calls : purged[d] \in Row
  BY DEF Purge, AdminTypeOK, TypeOK
<1>2. \A k \in slots : /\ row[k].id \in Calls
                       /\ \A j \in Keys : row[j].id = row[k].id => j = k
  BY <1>1 DEF RowsFine, RowsHaveIds
<1>3. ASSUME NEW k \in slots PROVE purged'[row[k].id] = row[k]
  <2>1. (CHOOSE j \in slots : row[j].id = row[k].id) = k
    BY <1>2
  <2> QED
    BY <1>2, <2>1 DEF Purge
<1>4. ASSUME NEW d \in Calls, \A k \in slots : row[k].id # d
      PROVE  purged'[d] = purged[d]
  BY <1>4 DEF Purge
<1>5. row' \in [Keys -> Row]
  BY <1>1 DEF Purge, NoRow, Row, CallOrNone
<1>6. purged' \in [Calls -> Row]
  <2>1. \A d \in Calls : purged'[d] \in Row
    BY <1>1, <1>3, <1>4
  <2>2. purged' = [d \in Calls |-> purged'[d]]
    BY DEF Purge
  <2> QED
    BY <2>1, <2>2
<1>7. \A k \in Keys, d \in Calls : row'[k].id = d <=> k \notin slots /\ row[k].id = d
  BY <1>1, CallsAssumption DEF NoRow
<1>8. RowsHaveIds'
  <2> SUFFICES ASSUME NEW k \in Keys
               PROVE  /\ ~HasRow(k)' => row'[k] = NoRow
                      /\ HasRow(k)' =>
                           /\ row'[k].id \in Calls
                           /\ \A j \in Keys : row'[j].id = row'[k].id => j = k
    BY DEF RowsHaveIds
  <2>1. CASE k \in slots
    BY <1>1, <2>1 DEF HasRow, NoRow
  <2>2. CASE k \notin slots
    <3>1. row'[k] = row[k]
      BY <1>1, <2>2
    <3> QED
      BY <1>7, <3>1 DEF RowsFine, RowsHaveIds, HasRow
  <2> QED
    BY <2>1, <2>2
<1>9. PurgedAreGone'
  <2> SUFFICES ASSUME NEW d \in Calls
               PROVE  IF purged'[d].status = "absent"
                        THEN purged'[d] = NoRow
                        ELSE purged'[d].id = d /\ \A k \in Keys : row'[k].id # d
    BY DEF PurgedAreGone, NoRow
  <2>1. ASSUME NEW k \in slots, row[k].id = d
        PROVE  /\ purged'[d] = row[k] /\ row[k].status # "absent"
               /\ \A j \in Keys : row'[j].id # d
    BY <2>1, <1>1, <1>2, <1>3, <1>7 DEF HasRow
  <2>2. ASSUME \A k \in slots : row[k].id # d
        PROVE  /\ purged'[d] = purged[d]
               /\ \A j \in Keys : row'[j].id = d <=> row[j].id = d
    BY <2>2, <1>4, <1>7
  <2> QED
    BY <2>1, <2>2 DEF RowsFine, PurgedAreGone
<1>10. SlotsKept
  BY <1>1 DEF SlotsKept, HasRow
<1>11. ASSUME NEW e \in Calls PROVE RowOf(e)' = RowOf(e)
  <2>1. ASSUME NEW k \in slots, row[k].id = e PROVE RowOf(e)' = RowOf(e)
    <3>1. RowOf(e) = row[k]
      BY <2>1, <1>2, TheRow DEF RowOf
    <3>2. \A j \in Keys : row'[j].id # e
      BY <2>1, <1>2, <1>7
    <3>3. RowOf(e)' = purged'[e]
      BY <3>2, TheRow DEF RowOf
    <3> QED
      BY <2>1, <1>3, <3>1, <3>3
  <2>2. ASSUME NEW k \in Keys \ slots, row[k].id = e PROVE RowOf(e)' = RowOf(e)
    <3>1. HasRow(k) /\ \A j \in Keys : row[j].id = e => j = k
      BY <2>2, NamedRow DEF RowsFine, RowsHaveIds
    <3>2. RowOf(e) = row[k]
      BY <2>2, <3>1, TheRow DEF RowOf
    <3>3. row'[k].id = e /\ \A j \in Keys : row'[j].id = e => j = k
      BY <2>2, <3>1, <1>7
    <3>4. RowOf(e)' = row'[k]
      BY <3>3, TheRow DEF RowOf
    <3> QED
      BY <1>1, <3>2, <3>4
  <2>3. ASSUME \A k \in Keys : row[k].id # e PROVE RowOf(e)' = RowOf(e)
    <3>1. RowOf(e) = purged[e] /\ purged'[e] = purged[e]
      BY <2>3, <1>4, TheRow DEF RowOf
    <3>2. \A k \in Keys : row'[k].id # e
      BY <2>3, <1>7
    <3>3. RowOf(e)' = purged'[e]
      BY <3>2, TheRow DEF RowOf
    <3> QED
      BY <3>1, <3>3
  <2> QED
    BY <2>1, <2>2, <2>3
<1> QED
  BY <1>5, <1>6, <1>8, <1>9, <1>10, <1>11 DEF RowsFine, AllKept

LEMMA RowsUntouched ==
  ASSUME RowsFine, UNCHANGED <<row, touched, purged>>
  PROVE  RowsFine' /\ SlotsKept /\ AllKept
<1>1. RowsFine'
  BY DEF RowsFine, RowsHaveIds, PurgedAreGone, HasRow
<1>2. SlotsKept /\ AllKept
  BY DEF SlotsKept, AllKept, RowOf
<1> QED
  BY <1>1, <1>2

-------------------------------------------------------------------------------
(* The rows the statements leave, and the types *)

LEMMA RowForms ==
  ASSUME TypeOK, NEW r \in Row, NEW c \in Calls
  PROVE  /\ ResetRow(r, c) \in Row /\ ResetRow(r, c).id = r.id
         /\ ResetRow(r, c).status = "received" /\ ResetRow(r, c).ref = NoCall
         /\ ResetRow(r, c).copy = c
         /\ MappedRow(r, answer[c]) \in Row /\ MappedRow(r, answer[c]).id = r.id
         /\ MappedRow(r, answer[c]).status = "mapped"
         /\ MappedRow(r, answer[c]).ref = answer[c]
         /\ MappedRow(r, answer[c]).copy = r.copy
         /\ FailedRow(r, c) \in Row /\ FailedRow(r, c).id = r.id
         /\ FailedRow(r, c).status = "failed" /\ FailedRow(r, c).ref = r.ref
         /\ FailedRow(r, c).error = c /\ FailedRow(r, c).copy = r.copy
         /\ AcknowledgedRow(r) \in Row /\ AcknowledgedRow(r).id = r.id
         /\ AcknowledgedRow(r).status = "acknowledged"
         /\ AcknowledgedRow(r).ref = r.ref /\ AcknowledgedRow(r).copy = r.copy
<1>1. /\ ResetRow(r, c) \in Row /\ ResetRow(r, c).id = r.id
      /\ ResetRow(r, c).status = "received" /\ ResetRow(r, c).ref = NoCall
      /\ ResetRow(r, c).copy = c
  BY DEF ResetRow, Row, Statuses, CallOrNone
<1>2. /\ MappedRow(r, answer[c]) \in Row /\ MappedRow(r, answer[c]).id = r.id
      /\ MappedRow(r, answer[c]).status = "mapped"
      /\ MappedRow(r, answer[c]).ref = answer[c]
      /\ MappedRow(r, answer[c]).copy = r.copy
  BY DEF MappedRow, Row, Statuses, CallOrNone, TypeOK
<1>3. /\ FailedRow(r, c) \in Row /\ FailedRow(r, c).id = r.id
      /\ FailedRow(r, c).status = "failed" /\ FailedRow(r, c).ref = r.ref
      /\ FailedRow(r, c).error = c /\ FailedRow(r, c).copy = r.copy
  BY DEF FailedRow, Row, Statuses, CallOrNone
<1>4. /\ AcknowledgedRow(r) \in Row /\ AcknowledgedRow(r).id = r.id
      /\ AcknowledgedRow(r).status = "acknowledged"
      /\ AcknowledgedRow(r).ref = r.ref /\ AcknowledgedRow(r).copy = r.copy
  BY DEF AcknowledgedRow, Row, Statuses
<1> QED
  BY <1>1, <1>2, <1>3, <1>4

\* What a client names in a body leaves the columns the exchange lives by.
LEMMA EditedForms ==
  ASSUME NEW r \in Row, NEW new \in Edited(r)
  PROVE  /\ new \in Row /\ new.id = r.id /\ new.status = r.status /\ new.ref = r.ref
         /\ new.error = r.error /\ new.copy \in {r.copy, r.id}
  BY DEF Edited, Row

\* A save leaves an entity whose protected columns go together: they are those of
\* the load, or those of the row.
LEMMA SavedForms ==
  ASSUME NEW before \in Row, NEW r \in Row, before.id \in Calls,
         before.status # "absent", RowFits(before), r.status # "absent", RowFits(r),
         NEW new \in SavedVersions(before, r)
  PROVE  /\ new \in Row /\ new.id = before.id /\ new.status # "absent"
         /\ new.copy \in Calls /\ RowFits(new)
<1>1. CASE new \in Edited(before)
  BY <1>1, EditedForms DEF RowFits
<1>2. ASSUME NEW v \in Edited(before),
             new = [v EXCEPT !.status = r.status, !.ref = r.ref, !.error = r.error]
      PROVE  /\ new \in Row /\ new.id = before.id /\ new.status # "absent"
             /\ new.copy \in Calls /\ RowFits(new)
  <2>1. v \in Row /\ v.id = before.id /\ v.copy \in {before.copy, before.id}
    BY EditedForms
  <2>2. /\ new \in Row /\ new.id = v.id /\ new.copy = v.copy
        /\ new.status = r.status /\ new.ref = r.ref /\ new.error = r.error
    BY <1>2, <2>1 DEF Row
  <2> QED
    BY <2>1, <2>2 DEF RowFits
<1> QED
  BY <1>1, <1>2 DEF SavedVersions

LEMMA ClaimedForm ==
  ASSUME TypeOK, NEW c \in Calls
  PROVE  /\ KeyOf(c) \in Keys /\ msg[c].doc_type \in DocTypes
         /\ ClaimedRow(c) \in Row /\ ClaimedRow(c).id = c
         /\ ClaimedRow(c).status = "received" /\ ClaimedRow(c).ref = NoCall
         /\ ClaimedRow(c).copy = c
<1>1. KeyOf(c) \in Keys /\ msg[c].doc_type \in DocTypes
  BY DocTypesAssumption DEF TypeOK, Message, KeyOf
<1> QED
  BY <1>1 DEF ClaimedRow, Row, Statuses, CallOrNone

LEMMA HeldDocument ==
  ASSUME AdminTypeOK, CallsKnow, NEW c \in Calls,
         pc[c] \in {"reset", "map", "settle", "refuse", "publish", "reread"}
  PROVE  doc[c] \in Calls
  BY DEF AdminTypeOK, TypeOK, CallsKnow, CallKnows, CallOrNone

LEMMA AdminEventType ==
  ASSUME TypeOK, NEW c \in Calls, doc[c] \in Calls
  PROVE  LifecycleEvent(c) \in Event
<1>1. CASE answer[c] = NoCall
  BY <1>1 DEF LifecycleEvent, Event
<1>2. CASE answer[c] # NoCall
  BY <1>2 DEF LifecycleEvent, Event, TypeOK, CallOrNone
<1> QED
  BY <1>1, <1>2

\* What a settlement writes, and to which row.
LEMMA SettlementForm ==
  ASSUME AdminInv, NEW c \in Calls, pc[c] \in {"settle", "refuse"},
         NEW k \in Keys, SettlementMatches(c, k)
  PROVE  /\ row[k] \in Row /\ row[k].id = doc[c] /\ doc[c] \in Calls
         /\ SettlementRow(c, k) \in Row /\ SettlementRow(c, k).id = doc[c]
         /\ SettlementRow(c, k).copy = row[k].copy
         /\ row[k].status \in {"received", "failed"}
         /\ answer[c] # NoCall =>
              /\ SettlementRow(c, k).status = "mapped"
              /\ SettlementRow(c, k).ref = answer[c]
         /\ answer[c] = NoCall =>
              /\ row[k].status = "received"
              /\ SettlementRow(c, k).status = "failed"
              /\ SettlementRow(c, k).ref = row[k].ref
              /\ SettlementRow(c, k).error = c
<1>1. TypeOK /\ row[k] \in Row /\ doc[c] \in Calls
  BY HeldDocument DEF AdminInv, AdminTypeOK, TypeOK
<1>2. CASE answer[c] # NoCall
  BY <1>1, <1>2, RowForms DEF SettlementMatches, SettlementRow, MarkMappedMatches
<1>3. CASE answer[c] = NoCall
  BY <1>1, <1>3, RowForms DEF SettlementMatches, SettlementRow, MarkFailedMatches
<1> QED
  BY <1>2, <1>3

LEMMA DocumentRow ==
  ASSUME AdminTypeOK, RowsFine, NEW d \in Calls
  PROVE  /\ RowOf(d) \in Row
         /\ Created(d) => RowOf(d).id = d
         /\ ~Created(d) => RowOf(d) = NoRow
<1>1. CASE \A k \in Keys : row[k].id # d
  <2>1. RowOf(d) = purged[d] /\ purged[d] \in Row
    BY <1>1, AbsentDocument DEF AdminTypeOK
  <2> QED
    BY <2>1 DEF RowsFine, PurgedAreGone, Created
<1>2. ASSUME NEW k \in Keys, row[k].id = d PROVE RowOf(d) \in Row /\ RowOf(d).id = d /\ Created(d)
  BY <1>2, NamedRow DEF RowsFine, AdminTypeOK, TypeOK, Created, HasRow
<1> QED
  BY <1>1, <1>2

-------------------------------------------------------------------------------
(* What a step does to one document: it is inserted, re-opened, settled,       *)
(* acknowledged, edited by the CRUD surface or taken back by a stale save; or  *)
(* no document changes.                                                        *)

Arises(d) ==
  /\ ~Created(d) /\ pc[d] = "idle" /\ pc'[d] # "idle"
  /\ \E r \in Row : /\ Becomes(d, r)
                    /\ r.status = "received" /\ r.ref = NoCall /\ r.copy \in Calls
  /\ outbox' = outbox

Reopened(d) ==
  /\ RowOf(d).status \in {"received", "failed"}
  /\ \E r \in Row : /\ Becomes(d, r)
                    /\ r.status = "received" /\ r.ref = NoCall /\ r.copy \in Calls
  /\ outbox' = outbox

SettledBy(c, d) ==
  /\ pc[c] \in {"settle", "refuse"} /\ doc[c] = d
  /\ RowOf(d).status \in {"received", "failed"}
  /\ answer[c] = NoCall => RowOf(d).status = "received"
  /\ \E r \in Row :
       /\ Becomes(d, r) /\ r.copy = RowOf(d).copy
       /\ answer[c] # NoCall => r.status = "mapped" /\ r.ref = answer[c]
       /\ answer[c] = NoCall => /\ r.status = "failed" /\ r.error = c
                                /\ r.ref = RowOf(d).ref
  /\ outbox' = [outbox EXCEPT ![d] = Append(@, LifecycleEvent(c))]

Closed(d) ==
  /\ RowOf(d).status \in {"mapped", "failed"}
  /\ \E r \in Row : /\ Becomes(d, r) /\ r.status = "acknowledged"
                    /\ r.ref = RowOf(d).ref /\ r.copy = RowOf(d).copy
  /\ outbox' = outbox

Rewritten(d) ==
  /\ Created(d)
  /\ \E r \in Row : /\ Becomes(d, r) /\ r.copy \in Calls
                    /\ r.status = RowOf(d).status /\ r.ref = RowOf(d).ref
                    /\ r.error = RowOf(d).error
  /\ outbox' = outbox

Reverted(d) ==
  /\ Created(d)
  /\ \E r \in Row, l \in loads \ loads' :
       /\ Becomes(d, r) /\ RowFits(r) /\ r.status # "absent"
       /\ l.before.id = d /\ l.before.status = r.status /\ l.before.ref = r.ref
  /\ outbox' = outbox
  /\ reverted' = reverted \cup {d}

DocStep ==
  \/ /\ \/ \E d \in Calls : Arises(d) \/ Reopened(d) \/ Closed(d) \/ Rewritten(d)
        \/ \E c, d \in Calls : SettledBy(c, d)
        \/ AllKept /\ outbox' = outbox
     /\ reverted' = reverted
  \/ \E d \in Calls : Reverted(d)

\* What a request has newly loaded is a stored row.
LoadsRows == \A l \in loads' \ loads : \E k \in Keys : HasRow(k) /\ l.before = row[k]

\* What every step of the module does.
GoodStep ==
  AdminTypeOK' /\ RowsFine' /\ SlotsKept /\ DocStep /\ LoadsRows /\ msg' = msg

\* A step that leaves the rows and the outbox alone has only its types to keep.
LEMMA QuietStep ==
  ASSUME AdminTypeOK, RowsFine, UNCHANGED <<row, outbox, msg, trash, loads, touched, purged, reverted>>,
         TypeOK'
  PROVE  GoodStep
<1>1. RowsFine' /\ SlotsKept /\ AllKept
  BY RowsUntouched
<1>2. AdminTypeOK'
  BY DEF AdminTypeOK
<1> QED
  BY <1>1, <1>2 DEF GoodStep, DocStep, LoadsRows

LEMMA ClaimEffect ==
  ASSUME AdminInv, NEW c \in Calls, Claim(c), CrudUntouched
  PROVE  GoodStep
<1>1. AdminTypeOK /\ TypeOK /\ RowsFine
  BY DEF AdminInv, AdminTypeOK, RowsFine
<1>2. KeyOf(c) \in Keys /\ ClaimedRow(c) \in Row
  BY <1>1, ClaimedForm
<1>3. OpenedPlace(c) \in Places /\ OpenedPlace(c) # "idle"
  BY DEF OpenedPlace, Places
<1>4. TypeOK'
  <2>1. row' \in [Keys -> Row] /\ doc' \in [Calls -> CallOrNone]
    BY <1>1, <1>2 DEF TypeOK, Claim, CallOrNone
  <2>2. pc' \in [Calls -> Places]
    BY <1>1, <1>3 DEF TypeOK, Claim, Goto, Places
  <2> QED
    BY <1>1, <2>1, <2>2 DEF TypeOK, Claim
<1>5. CASE ~ClaimWins(row[KeyOf(c)])
  <2>1. UNCHANGED <<row, outbox, msg, trash, loads, touched, purged, reverted>>
    BY <1>5 DEF Claim, CrudUntouched
  <2> QED
    BY <1>1, <1>4, <2>1, QuietStep
<1>6. CASE ClaimWins(row[KeyOf(c)])
  <2>1. ~HasRow(KeyOf(c)) /\ ~Created(c)
    BY <1>6 DEF ClaimWins, HasRow, Claim, AdminInv, DocumentsWellFormed
  <2>2. /\ row' = [row EXCEPT ![KeyOf(c)] = ClaimedRow(c)]
        /\ purged' = purged /\ touched \subseteq touched'
    BY <1>6 DEF Claim, CrudUntouched
  <2>3. RowsFine' /\ SlotsKept /\ Becomes(c, ClaimedRow(c))
    BY <1>1, <1>2, <2>1, <2>2, ClaimedForm, Inserted DEF TypeOK
  <2>4. Arises(c)
    <3>1. pc[c] = "idle" /\ pc'[c] # "idle" /\ outbox' = outbox
      BY <1>1, <1>3, <1>6 DEF Claim, Goto, TypeOK
    <3> QED
      BY <1>1, <1>2, <2>1, <2>3, <3>1, ClaimedForm DEF Arises
  <2>5. AdminTypeOK' /\ LoadsRows /\ reverted' = reverted
    BY <1>1, <1>4 DEF AdminTypeOK, CrudUntouched, LoadsRows
  <2> QED
    BY <2>3, <2>4, <2>5 DEF GoodStep, DocStep, Claim
<1> QED
  BY <1>5, <1>6

\* The statements of a call that only move it on.
LEMMA CallEffect ==
  ASSUME AdminInv, NEW c \in Calls, CrudUntouched,
         \/ FetchRow(c) \/ MapAccepted(c) \/ MapRejected(c) \/ LoseById(c)
         \/ Publish(c) \/ RereadSlot(c) \/ Die(c)
  PROVE  GoodStep
<1>1. AdminTypeOK /\ TypeOK /\ RowsFine /\ CallsKnow
  BY DEF AdminInv, AdminTypeOK, RowsFine
<1>2. KeyOf(c) \in Keys /\ row[KeyOf(c)] \in Row
  BY <1>1, ClaimedForm DEF TypeOK
<1>3. UNCHANGED <<row, outbox, msg, trash, loads, touched, purged, reverted>>
  BY DEF CrudUntouched, FetchRow, MapAccepted, MapRejected, LoseById, Publish,
     RereadSlot, Reread, Die
<1>4. CASE FetchRow(c)
  <2>1. row[KeyOf(c)].id \in CallOrNone
    BY <1>2 DEF Row
  <2>2. HasRow(KeyOf(c)) => StoredReply(row[KeyOf(c)], TRUE) \in Reply
    BY <1>2 DEF StoredReply, Row, Reply, HasRow
  <2>3. reply' \in [Calls -> Reply] /\ doc' \in [Calls -> CallOrNone]
    BY <1>1, <1>4, <2>1, <2>2 DEF FetchRow, TypeOK
  <2>4. pc' \in [Calls -> Places]
    BY <1>1, <1>4 DEF FetchRow, TypeOK, Goto, Places
  <2> QED
    BY <1>1, <1>3, <1>4, <2>3, <2>4, QuietStep DEF FetchRow, TypeOK
<1>5. CASE MapAccepted(c)
  <2>1. doc[c] \in Calls
    BY <1>1, <1>5, HeldDocument DEF MapAccepted
  <2>2. TypeOK'
    BY <1>1, <1>5, <2>1 DEF TypeOK, MapAccepted, IdempotencyKey, Goto, Places, CallOrNone
  <2> QED
    BY <1>1, <1>3, <2>2, QuietStep
<1>6. CASE MapRejected(c) \/ Die(c)
  <2>1. TypeOK'
    BY <1>1, <1>6 DEF TypeOK, MapRejected, Die, Goto, Places
  <2> QED
    BY <1>1, <1>3, <2>1, QuietStep
<1>7. CASE LoseById(c) \/ Publish(c)
  <2>1. SettledReply(c) \in Reply
    BY <1>1 DEF TypeOK, SettledReply, Reply, Statuses
  <2>2. Publish(c) => LifecycleEvent(c) \in Event
    BY <1>1, HeldDocument, AdminEventType DEF Publish
  <2>3. TypeOK'
    BY <1>1, <1>7, <2>1, <2>2 DEF TypeOK, LoseById, Publish, Goto, Places
  <2> QED
    BY <1>1, <1>3, <2>3, QuietStep
<1>8. CASE RereadSlot(c)
  <2>1. HasRow(KeyOf(c)) => StoredReply(row[KeyOf(c)], FALSE) \in Reply
    BY <1>2 DEF StoredReply, Row, Reply, HasRow
  <2>2. TypeOK'
    BY <1>1, <1>8, <2>1 DEF TypeOK, RereadSlot, Reread, Goto, Places
  <2> QED
    BY <1>1, <1>3, <2>2, QuietStep
<1> QED
  BY <1>4, <1>5, <1>6, <1>7, <1>8

LEMMA ResetEffect ==
  ASSUME AdminInv, NEW c \in Calls, ResetById(c), CrudUntouched
  PROVE  GoodStep
<1>1. AdminTypeOK /\ TypeOK /\ RowsFine /\ doc[c] \in Calls
  BY HeldDocument DEF AdminInv, AdminTypeOK, RowsFine, ResetById
<1>2. OpenedPlace(c) \in Places
  BY DEF OpenedPlace, Places
<1>3. pc' \in [Calls -> Places]
  BY <1>1, <1>2 DEF ResetById, TypeOK, Goto, Places
<1>4. CASE row' = row
  <2>1. TypeOK' /\ UNCHANGED <<row, outbox, msg, trash, loads, touched, purged, reverted>>
    BY <1>1, <1>3, <1>4 DEF TypeOK, ResetById, CrudUntouched
  <2> QED
    BY <1>1, <2>1, QuietStep
<1>5. ASSUME NEW k \in Keys, row[k].id = doc[c], ResetMatches(row[k]),
             row' = [row EXCEPT ![k] = ResetRow(@, c)]
      PROVE  GoodStep
  <2>1. PICK d \in Calls : d = doc[c]
    BY <1>1
  <2>2. row[k] \in Row /\ row' = [row EXCEPT ![k] = ResetRow(row[k], c)]
    BY <1>1, <1>5 DEF TypeOK
  <2>3. /\ ResetRow(row[k], c) \in Row /\ ResetRow(row[k], c).id = d
        /\ ResetRow(row[k], c).status = "received"
        /\ ResetRow(row[k], c).ref = NoCall /\ ResetRow(row[k], c).copy = c
    BY <1>1, <1>5, <2>1, <2>2, RowForms
  <2>4. UNCHANGED <<purged, touched, trash, loads, reverted>> /\ row[k].id = d
    BY <1>5, <2>1 DEF CrudUntouched
  <2>5. RowsFine' /\ SlotsKept /\ Becomes(d, ResetRow(row[k], c))
    BY <1>1, <2>2, <2>3, <2>4, InPlace DEF TypeOK
  <2>6. RowOf(d).status \in {"received", "failed"}
    BY <1>1, <1>5, <2>1, NamedRow DEF RowsFine, ResetMatches
  <2>7. Reopened(d)
    BY <2>3, <2>5, <2>6 DEF Reopened, ResetById
  <2>8. row' \in [Keys -> Row]
    BY <1>1, <2>2, <2>3 DEF TypeOK
  <2>9. AdminTypeOK'
    BY <1>1, <1>3, <2>4, <2>8 DEF AdminTypeOK, TypeOK, ResetById
  <2> QED
    BY <2>4, <2>5, <2>7, <2>9 DEF GoodStep, DocStep, LoadsRows, ResetById
<1> QED
  BY <1>4, <1>5 DEF ResetById

LEMMA SettleEffect ==
  ASSUME AdminInv, NEW c \in Calls, SettleById(c), CrudUntouched
  PROVE  GoodStep /\ \E d \in Calls : SettledBy(c, d)
<1>1. /\ AdminTypeOK /\ TypeOK /\ RowsFine /\ doc[c] \in Calls
      /\ pc[c] \in {"settle", "refuse"}
  BY HeldDocument DEF AdminInv, AdminTypeOK, RowsFine, SettleById
<1>2. PICK k \in Keys : /\ SettlementMatches(c, k)
                       /\ row' = [row EXCEPT ![k] = SettlementRow(c, k)]
  BY DEF SettleById
<1>3. PICK d \in Calls : d = doc[c]
  BY <1>1
<1>4. PICK r \in Row : r = SettlementRow(c, k)
  BY <1>1, <1>2, SettlementForm
<1>5. /\ row[k].id = d /\ r.id = d /\ r.copy = row[k].copy
      /\ row[k].status \in {"received", "failed"}
      /\ answer[c] # NoCall => r.status = "mapped" /\ r.ref = answer[c]
      /\ answer[c] = NoCall => /\ row[k].status = "received" /\ r.status = "failed"
                               /\ r.ref = row[k].ref /\ r.error = c
  BY <1>1, <1>2, <1>3, <1>4, SettlementForm
<1>6. row' = [row EXCEPT ![k] = r] /\ UNCHANGED <<purged, touched, trash, loads, reverted>>
  BY <1>2, <1>4 DEF CrudUntouched
<1>7. RowsFine' /\ SlotsKept /\ Becomes(d, r)
  BY <1>1, <1>5, <1>6, InPlace DEF TypeOK
<1>8. RowOf(d) = row[k]
  BY <1>1, <1>5, NamedRow DEF RowsFine
<1>9. outbox' = [outbox EXCEPT ![d] = Append(@, LifecycleEvent(c))]
  BY <1>3 DEF SettleById
<1>10. SettledBy(c, d)
  BY <1>1, <1>3, <1>5, <1>7, <1>8, <1>9 DEF SettledBy
<1>11. LifecycleEvent(c) \in Event
  BY <1>1, AdminEventType
<1>12. outbox' \in [Calls -> Seq(Event)]
  BY <1>1, <1>9, <1>11 DEF TypeOK
<1>13. row' \in [Keys -> Row] /\ pc' \in [Calls -> Places]
  BY <1>1, <1>6 DEF TypeOK, SettleById, Goto, Places
<1>14. AdminTypeOK'
  BY <1>1, <1>6, <1>12, <1>13 DEF AdminTypeOK, TypeOK, SettleById
<1> QED
  BY <1>6, <1>7, <1>10, <1>14 DEF GoodStep, DocStep, LoadsRows, SettleById

LEMMA AcknowledgeEffect ==
  ASSUME AdminInv, NEW k \in Keys, Acknowledge(k), CrudUntouched
  PROVE  /\ GoodStep /\ AckOf(row[k]) \in AckEvent
         /\ \E d \in Calls : d = row[k].id /\ Closed(d)
<1>1. AdminTypeOK /\ TypeOK /\ RowsFine /\ HasRow(k)
  BY DEF AdminInv, AdminTypeOK, RowsFine, Acknowledge, AckMatches, HasRow
<1>2. PICK d \in Calls : d = row[k].id
  BY <1>1, StoredRow DEF RowsFine
<1>3. RowOf(d) = row[k] /\ row[k] \in Row
  BY <1>1, <1>2, NamedRow DEF RowsFine, TypeOK
<1>4. PICK r \in Row : r = AcknowledgedRow(row[k])
  BY <1>1, <1>3, <1>2, RowForms
<1>5. /\ r.id = d /\ r.status = "acknowledged"
      /\ r.ref = row[k].ref /\ r.copy = row[k].copy
  BY <1>1, <1>2, <1>3, <1>4, RowForms
<1>6. row' = [row EXCEPT ![k] = r] /\ UNCHANGED <<purged, touched, trash, loads, reverted>>
  BY <1>1, <1>4 DEF Acknowledge, CrudUntouched, TypeOK
<1>7. RowsFine' /\ SlotsKept /\ Becomes(d, r)
  BY <1>1, <1>2, <1>5, <1>6, InPlace DEF TypeOK
<1>8. Closed(d)
  BY <1>3, <1>5, <1>7 DEF Closed, Acknowledge, AckMatches
<1>9. AckOf(row[k]) \in AckEvent
  <2>1. /\ row[k].copy \in Calls
        /\ row[k].status = "failed" => row[k].error \in Calls
    BY <1>1, <1>2, <1>3 DEF AdminInv, DocumentsWellFormed, RowFits, HasRow
  <2>2. CASE row[k].status = "mapped"
    BY <2>1, <2>2, <1>2 DEF AckOf, AckEvent
  <2>3. CASE row[k].status = "failed"
    BY <2>1, <2>3, <1>2 DEF AckOf, AckEvent
  <2> QED
    BY <2>2, <2>3 DEF Acknowledge, AckMatches
<1>10. AdminTypeOK'
  BY <1>1, <1>6, <1>9 DEF AdminTypeOK, TypeOK, Acknowledge
<1> QED
  BY <1>2, <1>6, <1>7, <1>8, <1>9, <1>10 DEF GoodStep, DocStep, LoadsRows, Acknowledge

LEMMA AckSinkEffect ==
  ASSUME AdminInv, NEW a \in ackPending, PublishAck(a) \/ DropAck(a), CrudUntouched
  PROVE  GoodStep
<1>1. AdminTypeOK /\ TypeOK /\ RowsFine
  BY DEF AdminInv, AdminTypeOK, RowsFine
<1>2. TypeOK' /\ UNCHANGED <<row, outbox, msg, trash, loads, touched, purged, reverted>>
  BY <1>1 DEF TypeOK, PublishAck, DropAck, CrudUntouched
<1> QED
  BY <1>1, <1>2, QuietStep

LEMMA CreateEffect ==
  ASSUME AdminInv, NEW c \in Calls, NEW k \in Keys, Create(c, k)
  PROVE  GoodStep
<1>1. AdminTypeOK /\ TypeOK /\ RowsFine
  BY DEF AdminInv, AdminTypeOK, RowsFine
<1>2. PICK r \in Edited(ClaimedRow(c)) : row' = [row EXCEPT ![k] = r]
  BY DEF Create
<1>3. /\ r \in Row /\ r.id = c /\ r.status = "received" /\ r.ref = NoCall
      /\ r.copy = c
  BY <1>1, ClaimedForm, EditedForms
<1>4. pc[c] = "idle" /\ pc'[c] # "idle" /\ ~Created(c) /\ ~HasRow(k)
  BY <1>1 DEF Create, ClaimWins, HasRow, Goto, TypeOK, AdminInv, DocumentsWellFormed
<1>5. UNCHANGED <<purged, touched, trash, loads, reverted, outbox, msg>>
  BY DEF Create, CrudUntouched, ExchangeUntouched
<1>6. RowsFine' /\ SlotsKept /\ Becomes(c, r)
  BY <1>1, <1>2, <1>3, <1>4, <1>5, Inserted DEF TypeOK
<1>7. Arises(c)
  BY <1>3, <1>4, <1>5, <1>6 DEF Arises
<1>8. AdminTypeOK'
  BY <1>1, <1>2, <1>3, <1>5
  DEF AdminTypeOK, TypeOK, Create, Goto, Places, ExchangeUntouched
<1> QED
  BY <1>5, <1>6, <1>7, <1>8 DEF GoodStep, DocStep, LoadsRows

LEMMA LoadEffect ==
  ASSUME AdminInv, NEW q \in Requests, NEW k \in Keys, Load(q, k)
  PROVE  GoodStep
<1>1. AdminTypeOK /\ TypeOK /\ RowsFine /\ HasRow(k) /\ row[k] \in Row
  BY DEF AdminInv, AdminTypeOK, TypeOK, RowsFine, Load
<1>2. /\ UNCHANGED <<row, outbox, msg, trash, touched, purged, reverted>>
      /\ loads' = loads \cup {[request |-> q, before |-> row[k]]}
  BY DEF Load, ExchangeUntouched
<1>3. RowsFine' /\ SlotsKept /\ AllKept
  BY <1>1, <1>2, RowsUntouched
<1>4. LoadsRows
  BY <1>1, <1>2 DEF LoadsRows
<1>5. TypeOK'
  BY <1>1, <1>2 DEF TypeOK, Load, ExchangeUntouched
<1>6. AdminTypeOK'
  BY <1>1, <1>2, <1>5 DEF AdminTypeOK
<1> QED
  BY <1>2, <1>3, <1>4, <1>6 DEF GoodStep, DocStep

LEMMA DropEffect ==
  ASSUME AdminInv, NEW l \in loads, Drop(l)
  PROVE  GoodStep
<1>1. AdminTypeOK /\ TypeOK /\ RowsFine
  BY DEF AdminInv, AdminTypeOK, RowsFine
<1>2. /\ UNCHANGED <<row, outbox, msg, trash, touched, purged, reverted>>
      /\ loads' \subseteq loads
  BY DEF Drop, ExchangeUntouched
<1>3. RowsFine' /\ SlotsKept /\ AllKept
  BY <1>1, <1>2, RowsUntouched
<1>4. TypeOK'
  BY <1>1, <1>2 DEF TypeOK, Drop, ExchangeUntouched
<1>5. AdminTypeOK' /\ LoadsRows
  BY <1>1, <1>2, <1>4 DEF AdminTypeOK, LoadsRows
<1> QED
  BY <1>2, <1>3, <1>5 DEF GoodStep, DocStep

\* A save rewrites its document when the protected columns come out as they were
\* stored, and takes it back when they do not.
LEMMA SaveEffect ==
  ASSUME AdminInv, NEW l \in loads, NEW k \in Keys, NEW to \in Keys, Save(l, k, to)
  PROVE  GoodStep
<1>1. AdminTypeOK /\ TypeOK /\ RowsFine /\ HasRow(k)
  BY DEF AdminInv, AdminTypeOK, RowsFine, Save
<1>2. PICK d \in Calls : d = row[k].id /\ d = l.before.id
  BY <1>1, StoredRow DEF RowsFine, Save
<1>3. RowOf(d) = row[k] /\ row[k] \in Row /\ Created(d)
  BY <1>1, <1>2, NamedRow DEF RowsFine, TypeOK, Created, HasRow
<1>4. PICK r \in SavedVersions(l.before, row[k]) :
        /\ row' = [row EXCEPT ![k] = NoRow, ![to] = r]
        /\ reverted' = IF Protected(r) = Protected(row[k]) THEN reverted
                                                          ELSE reverted \cup {r.id}
  BY DEF Save
<1>5. /\ r \in Row /\ r.id = d /\ r.status # "absent" /\ r.copy \in Calls
      /\ RowFits(r)
  <2>1. l.before \in Row /\ l.before.status # "absent" /\ RowFits(l.before)
    BY <1>1 DEF AdminTypeOK, AdminInv, LoadsAreRows
  <2>2. RowFits(row[k]) /\ row[k].status # "absent"
    BY <1>1, <1>3 DEF AdminInv, DocumentsWellFormed, HasRow
  <2> QED
    BY <1>2, <1>3, <1>4, <2>1, <2>2, SavedForms
<1>6. /\ UNCHANGED <<purged, outbox, msg, pc>> /\ loads' \subseteq loads
      /\ trash' \subseteq trash
      /\ touched' = IF to = k THEN touched ELSE touched \cup {k, to}
  BY DEF Save, ExchangeUntouched
<1>7. RowsFine' /\ SlotsKept /\ Becomes(d, r)
  <2>1. CASE to = k
    <3>1. row' = [row EXCEPT ![k] = r] /\ touched \subseteq touched'
      BY <1>1, <1>4, <1>6, <2>1 DEF TypeOK
    <3> QED
      BY <1>1, <1>2, <1>5, <1>6, <3>1, InPlace DEF TypeOK
  <2>2. CASE to # k
    <3>1. ~HasRow(to) /\ touched' = touched \cup {k, to}
      BY <1>6, <2>2 DEF Save, ClaimWins, HasRow
    <3> QED
      BY <1>1, <1>2, <1>4, <1>5, <1>6, <2>2, <3>1, Moved DEF TypeOK
  <2> QED
    BY <2>1, <2>2
<1>8. DocStep
  <2>1. CASE Protected(r) = Protected(row[k])
    <3>1. /\ r.status = row[k].status /\ r.ref = row[k].ref
          /\ r.error = row[k].error /\ reverted' = reverted
      BY <1>4, <2>1 DEF Protected
    <3>2. Rewritten(d)
      BY <1>3, <1>5, <1>6, <1>7, <3>1 DEF Rewritten
    <3> QED
      BY <3>1, <3>2 DEF DocStep
  <2>2. CASE Protected(r) # Protected(row[k])
    <3>1. l.before.status = r.status /\ l.before.ref = r.ref
      <4>1. CASE r \in Edited(l.before)
        BY <4>1 DEF Edited
      <4>2. ASSUME NEW v \in Edited(l.before),
                   r = [v EXCEPT !.status = row[k].status, !.ref = row[k].ref,
                                 !.error = row[k].error]
            PROVE  FALSE
        BY <2>2, <4>2 DEF Edited, Protected
      <4> QED
        BY <1>4, <4>1, <4>2 DEF SavedVersions
    <3>2. l \in loads \ loads'
      BY DEF Save
    <3>3. reverted' = reverted \cup {d}
      BY <1>4, <1>5, <2>2
    <3>4. Reverted(d)
      BY <1>2, <1>3, <1>5, <1>6, <1>7, <3>1, <3>2, <3>3 DEF Reverted
    <3> QED
      BY <3>4 DEF DocStep
  <2> QED
    BY <2>1, <2>2
<1>9. NoRow \in Row
  BY DEF NoRow, Row, CallOrNone
<1>10. row' \in [Keys -> Row] /\ touched' \subseteq Keys /\ reverted' \subseteq Calls
  BY <1>1, <1>4, <1>5, <1>6, <1>9 DEF AdminTypeOK, TypeOK
<1>11. TypeOK'
  BY <1>1, <1>6, <1>10 DEF TypeOK, Save, ExchangeUntouched
<1>12. AdminTypeOK' /\ LoadsRows
  BY <1>1, <1>6, <1>10, <1>11 DEF AdminTypeOK, LoadsRows
<1> QED
  BY <1>6, <1>7, <1>8, <1>12 DEF GoodStep

LEMMA TrashEffect ==
  ASSUME AdminInv, NEW k \in Keys, SoftDelete(k) \/ Restore(k)
  PROVE  GoodStep
<1>1. AdminTypeOK /\ TypeOK /\ RowsFine /\ row[k].id \in Calls
  BY StoredRow DEF AdminInv, AdminTypeOK, RowsFine, SoftDelete, Restore
<1>2. /\ UNCHANGED <<row, outbox, msg, loads, touched, purged, reverted>>
      /\ trash' \subseteq trash \cup {row[k].id}
  BY DEF SoftDelete, Restore, ExchangeUntouched
<1>3. RowsFine' /\ SlotsKept /\ AllKept
  BY <1>1, <1>2, RowsUntouched
<1>4. AdminTypeOK'
  BY <1>1, <1>2 DEF AdminTypeOK, TypeOK, SoftDelete, Restore, ExchangeUntouched
<1> QED
  BY <1>2, <1>3, <1>4 DEF GoodStep, DocStep, LoadsRows

LEMMA PurgeIsGood ==
  ASSUME AdminInv, NEW slots \in SUBSET Keys, Purge(slots)
  PROVE  GoodStep
<1>1. AdminTypeOK /\ TypeOK /\ RowsFine
  BY DEF AdminInv, AdminTypeOK, RowsFine
<1>2. /\ RowsFine' /\ SlotsKept /\ AllKept
      /\ row' \in [Keys -> Row] /\ purged' \in [Calls -> Row]
  BY <1>1, PurgeEffect
<1>3. AdminTypeOK'
  BY <1>1, <1>2 DEF AdminTypeOK, TypeOK, Purge, ExchangeUntouched
<1> QED
  BY <1>2, <1>3 DEF GoodStep, DocStep, LoadsRows, Purge, ExchangeUntouched

LEMMA EveryStepIsGood ==
  ASSUME AdminInv, [AdminNext]_adminVars
  PROVE  GoodStep
<1>1. CASE UNCHANGED adminVars
  <2>1. AdminTypeOK /\ RowsFine
    BY DEF AdminInv, RowsFine
  <2>2. TypeOK' /\ UNCHANGED <<row, outbox, msg, trash, loads, touched, purged, reverted>>
    BY <1>1, <2>1 DEF AdminTypeOK, TypeOK, adminVars, vars
  <2> QED
    BY <2>1, <2>2, QuietStep
<1>2. ASSUME NEW c \in Calls, AdminStep(c) PROVE GoodStep
  BY <1>2, CallEffect, ResetEffect, SettleEffect DEF AdminStep
<1>3. ASSUME Crud PROVE GoodStep
  <2>1. ASSUME PurgeOne \/ EmptyTrash PROVE GoodStep
    BY <2>1, PurgeIsGood DEF PurgeOne, EmptyTrash
  <2> QED
    BY <1>3, <2>1, CreateEffect, LoadEffect, SaveEffect, DropEffect, TrashEffect
    DEF Crud
<1> QED
  BY <1>1, <1>2, <1>3, ClaimEffect, CallEffect, AcknowledgeEffect, AckSinkEffect
  DEF AdminNext

-------------------------------------------------------------------------------
(* What a step keeps *)

\* The row of a document changes in one of six ways, and its log in one.
LEMMA DocumentCases ==
  ASSUME AdminTypeOK, DocStep, NEW d \in Calls
  PROVE  \/ outbox'[d] = outbox[d] /\ RowOf(d)' = RowOf(d)
         \/ /\ outbox'[d] = outbox[d]
            /\ Arises(d) \/ Reopened(d) \/ Closed(d) \/ Rewritten(d) \/ Reverted(d)
         \/ \E c \in Calls : SettledBy(c, d)
<1>1. ASSUME NEW e \in Calls,
             Arises(e) \/ Reopened(e) \/ Closed(e) \/ Rewritten(e) \/ Reverted(e)
      PROVE  outbox' = outbox /\ (e # d => RowOf(d)' = RowOf(d))
  BY <1>1 DEF Arises, Reopened, Closed, Rewritten, Reverted, Becomes
<1>2. ASSUME NEW c \in Calls, NEW e \in Calls, SettledBy(c, e), e # d
      PROVE  outbox'[d] = outbox[d] /\ RowOf(d)' = RowOf(d)
  BY <1>2 DEF SettledBy, Becomes, AdminTypeOK, TypeOK
<1> QED
  BY <1>1, <1>2 DEF DocStep, AllKept

\* A document stays created; an acceptance and an acknowledgement are final, but
\* for a save that takes the document back.
LEMMA DocumentsLast ==
  ASSUME AdminTypeOK, DocStep, NEW d \in Calls
  PROVE  /\ Created(d) => Created(d)'
         /\ d \in reverted => d \in reverted'
         /\ d \notin reverted' =>
              /\ RowOf(d).status \in {"mapped", "acknowledged"} =>
                   /\ (RowOf(d).status)' \in {"mapped", "acknowledged"}
                   /\ (RowOf(d).ref)' = RowOf(d).ref
              /\ RowOf(d).status = "acknowledged" => (RowOf(d).status)' = "acknowledged"
<1>1. ASSUME NEW c \in Calls, SettledBy(c, d)
      PROVE  (RowOf(d).status)' # "absent" /\ RowOf(d).status \in {"received", "failed"}
  BY <1>1 DEF SettledBy, Becomes
<1>2. ASSUME Reopened(d) \/ Arises(d)
      PROVE  /\ (RowOf(d).status)' # "absent"
             /\ RowOf(d).status \in {"absent", "received", "failed"}
  BY <1>2 DEF Reopened, Arises, Becomes, Created
<1>3. ASSUME Closed(d)
      PROVE  /\ (RowOf(d).status)' = "acknowledged" /\ (RowOf(d).ref)' = RowOf(d).ref
  BY <1>3 DEF Closed, Becomes
<1>4. ASSUME Rewritten(d)
      PROVE  /\ (RowOf(d).status)' = RowOf(d).status /\ (RowOf(d).ref)' = RowOf(d).ref
  BY <1>4 DEF Rewritten, Becomes
<1>5. ASSUME Reverted(d) PROVE (RowOf(d).status)' # "absent" /\ d \in reverted'
  BY <1>5 DEF Reverted, Becomes
<1>6. reverted \subseteq reverted'
  BY DEF DocStep, Reverted
<1> QED
  BY <1>1, <1>2, <1>3, <1>4, <1>5, <1>6, DocumentCases DEF Created

\* A slot nobody touched keeps its row, and with it what its document reached if
\* that is not taken back.
LEMMA SlotsLast ==
  ASSUME AdminInv, GoodStep, NEW k \in Keys
  PROVE  /\ HasRow(k) \/ k \in touched => HasRow(k)' \/ k \in touched'
         /\ \A d \in Calls : row[k].id = d \/ k \in touched =>
                               row'[k].id = d \/ k \in touched'
         /\ k \notin touched' /\ HasRow(k) => row'[k].id = row[k].id
         /\ /\ k \notin touched' /\ row[k].id \notin reverted'
            /\ row[k].status \in {"mapped", "acknowledged"}
            =>
              /\ row'[k].status \in {"mapped", "acknowledged"}
              /\ row'[k].ref = row[k].ref
              /\ row[k].status = "acknowledged" => row'[k].status = "acknowledged"
<1>1. RowsFine /\ AdminTypeOK
  BY DEF AdminInv, RowsFine
<1>2. ASSUME k \notin touched', HasRow(k)
      PROVE  /\ HasRow(k)' /\ row'[k].id = row[k].id
             /\ row[k].id \notin reverted'
                /\ row[k].status \in {"mapped", "acknowledged"} =>
                  /\ row'[k].status \in {"mapped", "acknowledged"}
                  /\ row'[k].ref = row[k].ref
                  /\ row[k].status = "acknowledged" => row'[k].status = "acknowledged"
  <2>1. PICK d \in Calls : d = row[k].id
    BY <1>1, <1>2, StoredRow DEF RowsFine
  <2>2. row'[k].id = d
    BY <1>2, <2>1 DEF GoodStep, SlotsKept
  <2>3. HasRow(k)' /\ \A j \in Keys : row'[j].id = d => j = k
    BY <2>2, CallsAssumption DEF GoodStep, RowsFine, RowsHaveIds, NoRow, HasRow
  <2>4. RowOf(d)' = row'[k]
    BY <2>2, <2>3, TheRow DEF RowOf
  <2>5. RowOf(d) = row[k]
    BY <1>1, <2>1, NamedRow DEF RowsFine
  <2> QED
    BY <1>1, <2>1, <2>2, <2>3, <2>4, <2>5, DocumentsLast DEF GoodStep
<1>3. row[k].status \in {"mapped", "acknowledged"} => HasRow(k)
  BY DEF HasRow
<1>4. \A d \in Calls : row[k].id = d => HasRow(k)
  BY <1>1, NamedRow DEF RowsFine
<1> QED
  BY <1>2, <1>3, <1>4 DEF GoodStep, SlotsKept

\* A row of the next state that names a document is its row.
LEMMA NextRow ==
  ASSUME RowsFine', NEW k \in Keys, NEW d \in Calls, row'[k].id = d
  PROVE  RowOf(d)' = row'[k] /\ Created(d)'
<1>1. row'[k].status # "absent" /\ \A j \in Keys : row'[j].id = d => j = k
  BY CallsAssumption DEF RowsFine, RowsHaveIds, NoRow, HasRow
<1>2. RowOf(d)' = row'[k]
  BY <1>1, TheRow DEF RowOf
<1> QED
  BY <1>1, <1>2 DEF Created

\* What no step takes from a call, or from the target.
ControlStep ==
  /\ \A c \in Calls : pc'[c] = "idle" => pc[c] = "idle"
  /\ \A c \in Calls : doc[c] # NoCall => doc'[c] = doc[c]
  /\ \A d \in Calls : orders[d] # NoCall => orders'[d] = orders[d]
  /\ \A d \in Calls : orders'[d] # orders[d] => doc'[orders'[d]] = d

\* The calls a step does not run.
OthersWait(c) ==
  \A e \in Calls \ {c} : /\ pc'[e] = pc[e] /\ doc'[e] = doc[e]
                         /\ answer'[e] = answer[e] /\ reply'[e] = reply[e]

AllWait == \A e \in Calls : /\ pc'[e] = pc[e] /\ doc'[e] = doc[e]
                            /\ answer'[e] = answer[e] /\ reply'[e] = reply[e]

LEMMA CallControl ==
  ASSUME AdminInv, NEW c \in Calls, (Claim(c) /\ CrudUntouched) \/ AdminStep(c)
                                    \/ (Die(c) /\ CrudUntouched)
  PROVE  ControlStep /\ OthersWait(c)
<1>1. TypeOK /\ CallKnows(c)
  BY DEF AdminInv, AdminTypeOK, CallsKnow
<1>2. OpenedPlace(c) # "idle"
  BY DEF OpenedPlace
<1>3. CASE Claim(c)
  BY <1>1, <1>2, <1>3 DEF Claim, CallKnows, TypeOK, Goto, ControlStep, OthersWait
<1>4. CASE FetchRow(c)
  BY <1>1, <1>4 DEF FetchRow, CallKnows, TypeOK, Goto, ControlStep, OthersWait
<1>5. CASE ResetById(c)
  BY <1>1, <1>2, <1>5 DEF ResetById, TypeOK, Goto, ControlStep, OthersWait
<1>6. CASE MapAccepted(c)
  <2>1. /\ doc[c] \in Calls /\ doc' = doc
        /\ orders' = [orders EXCEPT ![doc[c]] = IF orders[doc[c]] = NoCall
                                                   THEN c ELSE orders[doc[c]]]
    BY <1>1, <1>6 DEF MapAccepted, IdempotencyKey, CallKnows, TypeOK, CallOrNone
  <2>2. \A d \in Calls : orders'[d] # orders[d] => d = doc[c] /\ orders[d] = NoCall
                                                   /\ orders'[d] = c
    BY <1>1, <2>1 DEF TypeOK
  <2>3. pc' = [pc EXCEPT ![c] = "settle"] /\ reply' = reply
    BY <1>6 DEF MapAccepted, Goto
  <2>4. \A e \in Calls \ {c} : answer'[e] = answer[e]
    BY <1>1, <1>6 DEF MapAccepted, TypeOK
  <2> QED
    BY <1>1, <2>1, <2>2, <2>3, <2>4 DEF TypeOK, ControlStep, OthersWait
<1>7. CASE MapRejected(c) \/ SettleById(c) \/ LoseById(c) \/ Publish(c) \/ Die(c)
  <2>1. UNCHANGED <<doc, answer, orders>>
    BY <1>7 DEF MapRejected, SettleById, LoseById, Publish, Die
  <2>2. /\ \A e \in Calls \ {c} : pc'[e] = pc[e] /\ reply'[e] = reply[e]
        /\ pc'[c] # "idle"
    BY <1>1, <1>7 DEF MapRejected, SettleById, LoseById, Publish, Die, Goto, TypeOK
  <2> QED
    BY <2>1, <2>2 DEF ControlStep, OthersWait
<1>8. CASE RereadSlot(c)
  BY <1>1, <1>8 DEF RereadSlot, Reread, TypeOK, Goto, ControlStep, OthersWait
<1> QED
  BY <1>3, <1>4, <1>5, <1>6, <1>7, <1>8 DEF AdminStep

LEMMA CrudControl ==
  ASSUME AdminInv,
         \/ \E c \in Calls, k \in Keys : Create(c, k)
         \/ \E q \in Requests, k \in Keys : Load(q, k)
         \/ \E l \in loads : Drop(l) \/ \E k, to \in Keys : Save(l, k, to)
         \/ \E k \in Keys : SoftDelete(k) \/ Restore(k)
         \/ PurgeOne \/ EmptyTrash
         \/ \E k \in Keys : Acknowledge(k)
         \/ \E a \in ackPending : PublishAck(a) \/ DropAck(a)
         \/ UNCHANGED adminVars
  PROVE  /\ ControlStep /\ UNCHANGED <<doc, answer, reply, orders>>
         /\ \A c \in Calls : pc'[c] = pc[c] \/ pc'[c] = "done"
<1>1. TypeOK
  BY DEF AdminInv, AdminTypeOK
<1>2. UNCHANGED <<doc, answer, reply, orders>>
  BY DEF Create, Load, Save, Drop, SoftDelete, Restore, PurgeOne, EmptyTrash, Purge,
     ExchangeUntouched, Acknowledge, PublishAck, DropAck, adminVars, vars
<1>3. ASSUME NEW c \in Calls PROVE pc'[c] = pc[c] \/ pc'[c] = "done"
  <2>1. ASSUME NEW e \in Calls, NEW k \in Keys, Create(e, k)
        PROVE  pc'[c] = pc[c] \/ pc'[c] = "done"
    BY <1>1, <2>1 DEF Create, Goto, TypeOK
  <2> QED
    BY <2>1 DEF Load, Save, Drop, SoftDelete, Restore, PurgeOne, EmptyTrash, Purge,
       ExchangeUntouched, Acknowledge, PublishAck, DropAck, adminVars, vars
<1> QED
  BY <1>2, <1>3 DEF ControlStep

LEMMA EveryStepControls ==
  ASSUME AdminInv, [AdminNext]_adminVars
  PROVE  ControlStep
<1>1. CASE \E c \in Calls : AdminStep(c) \/ ((Claim(c) \/ Die(c)) /\ CrudUntouched)
  BY <1>1, CallControl
<1>2. CASE ~(\E c \in Calls : AdminStep(c) \/ ((Claim(c) \/ Die(c)) /\ CrudUntouched))
  BY <1>2, CrudControl DEF AdminNext, Crud
<1> QED
  BY <1>1, <1>2

-------------------------------------------------------------------------------
(* The invariant, part by part *)

LEMMA WellFormedNext ==
  ASSUME AdminInv, GoodStep, ControlStep
  PROVE  DocumentsWellFormed'
<1> SUFFICES ASSUME NEW d \in Calls
             PROVE  RowFits(RowOf(d)') /\ (Created(d)' => pc'[d] # "idle")
  BY DEF DocumentsWellFormed, RowFits
<1>1. /\ AdminTypeOK /\ DocStep /\ RowFits(RowOf(d))
      /\ Created(d) => pc'[d] # "idle"
  BY DEF AdminInv, DocumentsWellFormed, GoodStep, ControlStep
<1>2. CASE RowOf(d)' = RowOf(d)
  BY <1>1, <1>2 DEF Created
<1>3. CASE Arises(d) \/ Reopened(d)
  BY <1>1, <1>3 DEF Arises, Reopened, Becomes, Created, RowFits
<1>4. CASE Closed(d)
  BY <1>1, <1>4 DEF Closed, Becomes, Created, RowFits
<1>5. CASE Rewritten(d)
  BY <1>1, <1>5 DEF Rewritten, Becomes, Created, RowFits
<1>6. CASE Reverted(d)
  BY <1>1, <1>6 DEF Reverted, Becomes
<1>7. ASSUME NEW c \in Calls, SettledBy(c, d)
      PROVE  RowFits(RowOf(d)') /\ (Created(d)' => pc'[d] # "idle")
  <2>1. answer[c] # NoCall => answer[c] \in Calls
    BY <1>1 DEF AdminTypeOK, TypeOK, CallOrNone
  <2> QED
    BY <1>1, <1>7, <2>1 DEF SettledBy, Becomes, Created, RowFits
<1> QED
  BY <1>1, <1>2, <1>3, <1>4, <1>5, <1>6, <1>7, DocumentCases

\* What is loaded is the row of a document, and the document stays.
LEMMA LoadsNext ==
  ASSUME AdminInv, GoodStep
  PROVE  LoadsAreRows' /\ RevertedAreDocuments'
<1>1. AdminTypeOK /\ RowsFine /\ DocStep /\ LoadsRows
  BY DEF AdminInv, RowsFine, GoodStep
<1>2. ASSUME NEW l \in loads'
      PROVE  /\ l.before.status # "absent" /\ RowFits(l.before)
             /\ l.before.id \in Calls /\ Created(l.before.id)'
  <2>1. CASE l \in loads
    <3>1. /\ l.before.status # "absent" /\ RowFits(l.before)
          /\ l.before.id \in Calls /\ Created(l.before.id)
      BY <2>1 DEF AdminInv, LoadsAreRows
    <3>2. PICK d \in Calls : d = l.before.id
      BY <3>1
    <3>3. Created(d)'
      BY <1>1, <3>1, <3>2, DocumentsLast
    <3> QED
      BY <3>1, <3>2, <3>3
  <2>2. CASE l \notin loads
    <3>1. PICK k \in Keys : HasRow(k) /\ l.before = row[k]
      BY <1>1, <1>2, <2>2 DEF LoadsRows
    <3>2. PICK d \in Calls : d = row[k].id /\ RowOf(d) = row[k] /\ Created(d)
      BY <1>1, <3>1, StoredRow DEF RowsFine
    <3>3. Created(d)' /\ RowFits(row[k])
      BY <1>1, <3>2, DocumentsLast DEF AdminInv, DocumentsWellFormed
    <3> QED
      BY <3>1, <3>2, <3>3 DEF HasRow
  <2> QED
    BY <2>1, <2>2
<1>3. LoadsAreRows'
  BY <1>2 DEF LoadsAreRows, RowFits, Created
<1>4. RevertedAreDocuments'
  <2> SUFFICES ASSUME NEW d \in Calls, d \in reverted' PROVE Created(d)'
    BY DEF RevertedAreDocuments, GoodStep, AdminTypeOK
  <2>1. Created(d)
    BY <1>1 DEF DocStep, Reverted, AdminInv, RevertedAreDocuments
  <2> QED
    BY <1>1, <2>1, DocumentsLast
<1> QED
  BY <1>3, <1>4

\* A log that ends with a new event ends as the row it was staged with says.
LEMMA AgreesNext ==
  ASSUME AdminInv, GoodStep
  PROVE  DocumentsAgreeWithOutbox'
<1> DEFINE Agrees(r, log) ==
      /\ r.status = "absent" => log = <<>>
      /\ r.status = "received" => log = <<>> \/ LastOf(log).type = "failed"
      /\ r.status = "mapped" =>
           log # <<>> /\ LastOf(log).type = "mapped" /\ LastOf(log).ref = r.ref
      /\ r.status = "failed" =>
           log # <<>> /\ LastOf(log).type = "failed" /\ LastOf(log).by = r.error
      /\ r.status = "acknowledged" => log # <<>>
<1> SUFFICES ASSUME NEW d \in Calls, d \notin reverted'
             PROVE  Agrees(RowOf(d)', outbox'[d])
  BY DEF DocumentsAgreeWithOutbox, LastOf
<1>1. /\ AdminTypeOK /\ DocStep /\ Agrees(RowOf(d), outbox[d])
      /\ outbox[d] \in Seq(Event)
  <2>1. AdminTypeOK /\ DocStep
    BY DEF AdminInv, GoodStep
  <2>2. d \notin reverted
    BY <2>1, DocumentsLast
  <2> QED
    BY <2>1, <2>2 DEF AdminInv, AdminTypeOK, TypeOK, DocumentsAgreeWithOutbox
<1>2. CASE outbox'[d] = outbox[d] /\ RowOf(d)' = RowOf(d)
  BY <1>1, <1>2
<1>3. CASE outbox'[d] = outbox[d] /\ (Arises(d) \/ Reopened(d))
  BY <1>1, <1>3 DEF Arises, Reopened, Becomes, Created
<1>4. CASE outbox'[d] = outbox[d] /\ Closed(d)
  BY <1>1, <1>4 DEF Closed, Becomes
<1>5. CASE outbox'[d] = outbox[d] /\ Rewritten(d)
  BY <1>1, <1>5 DEF Rewritten, Becomes, Created
<1>6. ~Reverted(d)
  BY DEF Reverted
<1>7. ASSUME NEW c \in Calls, SettledBy(c, d) PROVE Agrees(RowOf(d)', outbox'[d])
  <2>1. doc[c] = d /\ LifecycleEvent(c) \in Event
    BY <1>1, <1>7, AdminEventType DEF SettledBy, AdminTypeOK
  <2>2. outbox'[d] = Append(outbox[d], LifecycleEvent(c))
    BY <1>1, <1>7 DEF SettledBy, AdminTypeOK, TypeOK
  <2>3. outbox'[d] # <<>> /\ LastOf(outbox'[d]) = LifecycleEvent(c)
    BY <1>1, <2>1, <2>2 DEF LastOf
  <2>4. /\ LifecycleEvent(c).by = c /\ LifecycleEvent(c).ref = answer[c]
        /\ LifecycleEvent(c).type = IF answer[c] # NoCall THEN "mapped" ELSE "failed"
    BY DEF LifecycleEvent
  <2> HIDE DEF Agrees
  <2>5. PICK r \in Row :
          /\ RowOf(d)' = r
          /\ answer[c] # NoCall => r.status = "mapped" /\ r.ref = answer[c]
          /\ answer[c] = NoCall => r.status = "failed" /\ r.error = c
    BY <1>7 DEF SettledBy, Becomes
  <2> QED
    BY <2>3, <2>4, <2>5 DEF Agrees
<1> QED
  BY <1>1, <1>2, <1>3, <1>4, <1>5, <1>6, <1>7, DocumentCases

\* A call that keeps its document and its answer knows at its next place what it
\* needs to know there.
LEMMA CallPersists ==
  ASSUME AdminInv, GoodStep, ControlStep, NEW c \in Calls,
         doc'[c] = doc[c], answer'[c] = answer[c],
         pc'[c] \in {"idle", "fetch", "publish"} => pc'[c] = pc[c],
         pc'[c] \in {"reset", "map", "settle", "refuse", "reread"} => doc[c] # NoCall,
         pc'[c] \in {"reset", "map", "refuse"} => answer[c] = NoCall
  PROVE  CallKnows(c)'
<1>1. /\ AdminTypeOK /\ TypeOK /\ DocStep /\ CallKnows(c) /\ KeyOf(c) \in Keys
      /\ KeyOf(c)' = KeyOf(c)
  BY ClaimedForm DEF AdminInv, AdminTypeOK, CallsKnow, GoodStep, KeyOf
<1>2. pc'[c] = "fetch" => HasRow(KeyOf(c))' \/ KeyOf(c)' \in touched'
  <2>1. PICK k \in Keys : k = KeyOf(c)
    BY <1>1
  <2>2. pc'[c] = "fetch" => HasRow(k) \/ k \in touched
    BY <1>1, <2>1 DEF CallKnows
  <2>3. HasRow(k) \/ k \in touched => HasRow(k)' \/ k \in touched'
    BY SlotsLast
  <2> QED
    BY <1>1, <2>1, <2>2, <2>3 DEF HasRow
<1>3. ASSUME doc[c] # NoCall
      PROVE  /\ Created(doc[c])'
             /\ (row[KeyOf(c)].id = doc[c])' \/ KeyOf(c)' \in touched'
             /\ answer[c] # NoCall => orders'[doc[c]] = answer[c]
             /\ pc'[c] = "publish" /\ answer[c] # NoCall /\ doc[c] \notin reverted' =>
                  /\ (RowOf(doc[c]).status)' \in {"mapped", "acknowledged"}
                  /\ (RowOf(doc[c]).ref)' = answer[c]
  <2>1. PICK d \in Calls : d = doc[c] /\ d = doc'[c]
    BY <1>1, <1>3 DEF TypeOK, CallOrNone
  <2>2. Created(d) /\ (row[KeyOf(c)].id = d \/ KeyOf(c) \in touched)
    BY <1>1, <1>3, <2>1 DEF CallKnows
  <2>3. Created(d)' /\ (row'[KeyOf(c)].id = d \/ KeyOf(c) \in touched')
    BY <1>1, <2>2, DocumentsLast, SlotsLast
  <2>4. answer[c] # NoCall => orders'[d] = answer[c]
    BY <1>1, <2>1 DEF CallKnows, ControlStep
  <2>5. pc'[c] = "publish" /\ answer[c] # NoCall /\ d \notin reverted' =>
          /\ (RowOf(d).status)' \in {"mapped", "acknowledged"}
          /\ (RowOf(d).ref)' = answer[c]
    BY <1>1, <2>1, DocumentsLast DEF CallKnows
  <2> QED
    BY <1>1, <2>1, <2>3, <2>4, <2>5 DEF Created, RowOf
<1>4. /\ pc'[c] \in {"idle", "fetch"} => doc'[c] = NoCall
      /\ pc'[c] \in {"reset", "map", "settle", "refuse", "publish", "reread"} =>
           doc'[c] # NoCall
      /\ pc'[c] \in {"idle", "fetch", "reset", "map", "refuse"} => answer'[c] = NoCall
      /\ answer'[c] # NoCall => doc'[c] # NoCall
  BY <1>1 DEF CallKnows
<1> QED
  BY <1>2, <1>3, <1>4 DEF CallKnows

LEMMA ClaimKnows ==
  ASSUME AdminInv, NEW c \in Calls, Claim(c), CrudUntouched
  PROVE  CallKnows(c)'
<1>1. /\ TypeOK /\ CallKnows(c) /\ GoodStep /\ ControlStep /\ KeyOf(c) \in Keys
      /\ KeyOf(c)' = KeyOf(c) /\ touched' = touched
  BY ClaimEffect, CallControl, ClaimedForm
  DEF AdminInv, AdminTypeOK, CallsKnow, GoodStep, KeyOf, CrudUntouched
<1>2. doc[c] = NoCall /\ answer'[c] = NoCall /\ orders' = orders
  BY <1>1 DEF Claim, CallKnows
<1>3. CASE ~ClaimWins(row[KeyOf(c)])
  <2>1. /\ pc'[c] = "fetch" /\ doc'[c] = NoCall
        /\ row'[KeyOf(c)].status # "absent"
    BY <1>1, <1>2, <1>3 DEF Claim, Goto, ClaimWins, TypeOK
  <2>2. HasRow(KeyOf(c))'
    BY <1>1, <2>1 DEF HasRow
  <2> QED
    BY <1>2, <2>1, <2>2 DEF CallKnows
<1>4. CASE ClaimWins(row[KeyOf(c)])
  <2>1. /\ pc'[c] \in {"map", "refuse"} /\ doc'[c] = c /\ c # NoCall
        /\ row'[KeyOf(c)].id = c
    BY <1>1, <1>4, CallsAssumption, ClaimedForm
    DEF Claim, Goto, OpenedPlace, TypeOK
  <2>2. Created(c)'
    BY <1>1, <2>1, NextRow DEF GoodStep
  <2>3. Created(doc[c])' /\ (row[KeyOf(c)].id = doc[c])'
    BY <1>1, <2>1, <2>2 DEF Created, RowOf
  <2> QED
    BY <1>2, <2>1, <2>3 DEF CallKnows
<1> QED
  BY <1>3, <1>4

LEMMA FetchKnows ==
  ASSUME AdminInv, NEW c \in Calls, FetchRow(c), CrudUntouched
  PROVE  CallKnows(c)'
<1>1. /\ TypeOK /\ CallKnows(c) /\ GoodStep /\ ControlStep /\ KeyOf(c) \in Keys
      /\ KeyOf(c)' = KeyOf(c) /\ UNCHANGED <<touched, row>> /\ RowsHaveIds
  BY CallEffect, CallControl, ClaimedForm
  DEF AdminInv, AdminTypeOK, CallsKnow, GoodStep, KeyOf, CrudUntouched, FetchRow,
      AdminStep
<1>2. doc[c] = NoCall /\ answer'[c] = NoCall
  BY <1>1 DEF FetchRow, CallKnows
<1>3. CASE ~HasRow(KeyOf(c))
  BY <1>1, <1>2, <1>3, CallPersists DEF FetchRow, Goto, TypeOK
<1>4. CASE HasRow(KeyOf(c))
  <2>1. PICK d \in Calls : d = row[KeyOf(c)].id
    BY <1>1, <1>4, StoredRow
  <2>2. pc'[c] \in {"reset", "done"} /\ doc'[c] = d /\ d # NoCall
    BY <1>1, <1>4, <2>1, CallsAssumption DEF FetchRow, Goto, TypeOK
  <2>3. row'[KeyOf(c)].id = d /\ Created(d)'
    BY <1>1, <2>1, NextRow DEF GoodStep
  <2>4. Created(doc[c])' /\ (row[KeyOf(c)].id = doc[c])'
    BY <1>1, <2>2, <2>3 DEF Created, RowOf
  <2> QED
    BY <1>2, <2>2, <2>4 DEF CallKnows
<1> QED
  BY <1>3, <1>4

LEMMA AcceptedKnows ==
  ASSUME AdminInv, NEW c \in Calls, MapAccepted(c), CrudUntouched
  PROVE  CallKnows(c)'
<1>1. /\ TypeOK /\ CallKnows(c) /\ GoodStep /\ KeyOf(c) \in Keys
      /\ KeyOf(c)' = KeyOf(c) /\ UNCHANGED <<touched, row, purged, doc>>
  BY CallEffect, ClaimedForm
  DEF AdminInv, AdminTypeOK, CallsKnow, GoodStep, KeyOf, CrudUntouched, MapAccepted
<1>2. /\ doc[c] \in Calls /\ pc'[c] = "settle"
      /\ Created(doc[c]) /\ (row[KeyOf(c)].id = doc[c] \/ KeyOf(c) \in touched)
  BY <1>1 DEF MapAccepted, CallKnows, TypeOK, CallOrNone, Goto
<1>3. orders'[doc[c]] = answer'[c]
  BY <1>1, <1>2 DEF MapAccepted, IdempotencyKey, TypeOK
<1>4. /\ Created(doc[c])' /\ orders'[doc'[c]] = answer'[c]
      /\ (row[KeyOf(c)].id = doc[c])' \/ KeyOf(c)' \in touched'
  BY <1>1, <1>2, <1>3 DEF Created, RowOf
<1> QED
  BY <1>1, <1>2, <1>4, CallsAssumption DEF CallKnows

LEMMA SettleKnows ==
  ASSUME AdminInv, NEW c \in Calls, SettleById(c), CrudUntouched
  PROVE  CallKnows(c)'
<1>1. /\ TypeOK /\ CallKnows(c) /\ GoodStep /\ KeyOf(c) \in Keys
      /\ KeyOf(c)' = KeyOf(c) /\ UNCHANGED <<touched, orders, doc, answer>>
  BY SettleEffect, ClaimedForm
  DEF AdminInv, AdminTypeOK, CallsKnow, GoodStep, KeyOf, CrudUntouched, SettleById
<1>2. PICK d \in Calls : SettledBy(c, d)
  BY SettleEffect
<1>3. /\ d = doc[c] /\ d = doc'[c] /\ d # NoCall /\ pc'[c] = "publish"
      /\ row[KeyOf(c)].id = d \/ KeyOf(c) \in touched
  BY <1>1, <1>2, CallsAssumption DEF SettledBy, SettleById, CallKnows, TypeOK, Goto
<1>4. /\ (RowOf(d).status)' # "absent"
      /\ answer[c] # NoCall => /\ (RowOf(d).status)' = "mapped"
                               /\ (RowOf(d).ref)' = answer[c]
  BY <1>2 DEF SettledBy, Becomes
<1>5. row'[KeyOf(c)].id = d \/ KeyOf(c) \in touched'
  BY <1>1, <1>3, SlotsLast
<1>6. /\ Created(doc[c])'
      /\ (row[KeyOf(c)].id = doc[c])' \/ KeyOf(c)' \in touched'
      /\ answer'[c] # NoCall => /\ (RowOf(doc[c]).status)' = "mapped"
                                /\ (RowOf(doc[c]).ref)' = answer'[c]
  BY <1>1, <1>3, <1>4, <1>5 DEF Created, RowOf
<1>7. /\ doc'[c] # NoCall /\ pc'[c] = "publish"
      /\ answer'[c] # NoCall => orders'[doc'[c]] = answer'[c]
  BY <1>1, <1>3 DEF CallKnows
<1> QED
  BY <1>6, <1>7 DEF CallKnows

LEMMA CallsKnowNext ==
  ASSUME AdminInv, [AdminNext]_adminVars
  PROVE  CallsKnow'
<1>1. GoodStep /\ ControlStep /\ AdminTypeOK /\ TypeOK
  BY EveryStepIsGood, EveryStepControls DEF AdminInv, AdminTypeOK
<1>2. ASSUME NEW c \in Calls,
             AdminStep(c) \/ ((Claim(c) \/ Die(c)) /\ CrudUntouched)
      PROVE  CallsKnow'
  <2>1. CallKnows(c)
    BY DEF AdminInv, CallsKnow
  <2>2. ASSUME NEW e \in Calls \ {c} PROVE CallKnows(e)'
    <3>1. /\ pc'[e] = pc[e] /\ doc'[e] = doc[e] /\ answer'[e] = answer[e]
          /\ CallKnows(e)
      BY <1>2, CallControl DEF OthersWait, AdminInv, CallsKnow
    <3> QED
      BY <1>1, <3>1, CallPersists DEF CallKnows
  <2>3. CASE ResetById(c)
    <3>1. /\ doc'[c] = doc[c] /\ answer'[c] = answer[c] /\ doc[c] # NoCall
          /\ answer[c] = NoCall /\ pc'[c] \in {"map", "refuse", "done"}
      BY <1>1, <2>1, <2>3 DEF ResetById, CallKnows, TypeOK, Goto, OpenedPlace
    <3>2. CallKnows(c)'
      BY <1>1, <3>1, CallPersists
    <3> QED
      BY <2>2, <3>2 DEF CallsKnow
  <2>4. CASE MapRejected(c) \/ LoseById(c) \/ Publish(c) \/ RereadSlot(c) \/ Die(c)
    <3>1. /\ doc'[c] = doc[c] /\ answer'[c] = answer[c]
          /\ pc'[c] \in {"settle", "reread"} => doc[c] # NoCall
          /\ pc'[c] \in {"settle", "reread", "done", "dead"}
      BY <1>1, <2>1, <2>4
      DEF MapRejected, LoseById, Publish, RereadSlot, Reread, Die, CallKnows, TypeOK, Goto
    <3>2. CallKnows(c)'
      BY <1>1, <3>1, CallPersists
    <3> QED
      BY <2>2, <3>2 DEF CallsKnow
  <2>5. CASE Claim(c) \/ FetchRow(c) \/ MapAccepted(c) \/ SettleById(c)
    <3>1. CrudUntouched
      BY <1>2, <2>5 DEF AdminStep
    <3>2. CallKnows(c)'
      BY <2>5, <3>1, ClaimKnows, FetchKnows, AcceptedKnows, SettleKnows
    <3> QED
      BY <2>2, <3>2 DEF CallsKnow
  <2> QED
    BY <1>2, <2>3, <2>4, <2>5 DEF AdminStep
<1>3. CASE ~(\E c \in Calls : AdminStep(c) \/ ((Claim(c) \/ Die(c)) /\ CrudUntouched))
  <2> SUFFICES ASSUME NEW c \in Calls PROVE CallKnows(c)'
    BY DEF CallsKnow
  <2>1. /\ doc'[c] = doc[c] /\ answer'[c] = answer[c] /\ CallKnows(c)
        /\ pc'[c] = pc[c] \/ pc'[c] = "done"
    BY <1>3, CrudControl DEF AdminNext, Crud, AdminInv, CallsKnow
  <2> QED
    BY <1>1, <2>1, CallPersists DEF CallKnows
<1> QED
  BY <1>2, <1>3

LEMMA HoldersNext ==
  ASSUME AdminInv, GoodStep, ControlStep
  PROVE  OrdersOfHolders'
<1> SUFFICES ASSUME NEW d \in Calls, orders'[d] # NoCall
             PROVE  doc'[orders'[d]] = d
  BY DEF OrdersOfHolders
<1>1. orders'[d] \in Calls
  BY DEF GoodStep, AdminTypeOK, TypeOK, CallOrNone
<1>2. orders[d] # NoCall => doc[orders[d]] = d
  BY DEF AdminInv, OrdersOfHolders
<1> QED
  BY <1>1, <1>2, CallsAssumption DEF ControlStep

\* A reply is read from the row, or is that of the settlement the row records.
LEMMA RepliesNext ==
  ASSUME AdminInv, [AdminNext]_adminVars
  PROVE  UntouchedReplies'
<1> DEFINE Backed(rep, r) ==
      /\ rep.status = "mapped" =>
           r.status \in {"mapped", "acknowledged"} /\ r.ref = rep.ref
      /\ rep.status = "acknowledged" =>
           r.status = "acknowledged" /\ r.ref = rep.ref
<1>1. GoodStep /\ AdminTypeOK /\ TypeOK /\ RowsFine
  BY EveryStepIsGood DEF AdminInv, AdminTypeOK, RowsFine
<1> SUFFICES ASSUME NEW c \in Calls, KeyOf(c) \notin touched',
                    row'[KeyOf(c)].id \notin reverted'
             PROVE  Backed(reply'[c], row'[KeyOf(c)])
  BY <1>1 DEF UntouchedReplies, KeyOf, GoodStep
<1>2. PICK k \in Keys : k = KeyOf(c)
  BY <1>1, ClaimedForm
<1>3. row[k].id \notin reverted' /\ row[k].id \notin reverted
  <2>1. reverted \subseteq reverted' /\ reverted' \subseteq Calls
    BY <1>1 DEF GoodStep, DocStep, Reverted, AdminTypeOK
  <2>2. CASE HasRow(k)
    BY <1>1, <1>2, <2>1, <2>2, SlotsLast
  <2>3. CASE ~HasRow(k)
    BY <1>1, <2>1, <2>3, CallsAssumption DEF RowsFine, RowsHaveIds, NoRow
  <2> QED
    BY <2>2, <2>3
<1>4. k \notin touched /\ CallKnows(c) /\ Backed(reply[c], row[k])
  BY <1>1, <1>2, <1>3 DEF GoodStep, SlotsKept, AdminInv, UntouchedReplies, CallsKnow
<1>5. Backed(reply[c], row'[k])
  BY <1>1, <1>2, <1>4, <1>3, SlotsLast
<1>6. CASE reply'[c] = reply[c]
  BY <1>2, <1>5, <1>6
<1>7. CASE FetchRow(c) \/ Reread(c)
  <2>1. \/ reply'[c] = reply[c]
        \/ reply'[c].status = row'[k].status /\ reply'[c].ref = row'[k].ref
    BY <1>1, <1>2, <1>7 DEF FetchRow, Reread, StoredReply, TypeOK
  <2> QED
    BY <1>2, <1>6, <2>1
<1>8. CASE Publish(c)
  <2>1. /\ reply'[c].status = (IF answer[c] # NoCall THEN "mapped" ELSE "failed")
        /\ reply'[c].ref = answer[c] /\ row' = row
    BY <1>1, <1>8 DEF Publish, SettledReply, TypeOK
  <2>2. answer[c] # NoCall =>
          /\ doc[c] \in Calls /\ row[k].id = doc[c]
          /\ RowOf(doc[c]).status \in {"mapped", "acknowledged"}
          /\ RowOf(doc[c]).ref = answer[c]
    BY <1>1, <1>2, <1>4, <1>8, <1>3 DEF Publish, CallKnows, TypeOK, CallOrNone
  <2>3. answer[c] # NoCall => row[k].status \in {"mapped", "acknowledged"}
                              /\ row[k].ref = answer[c]
    BY <1>1, <2>2, NamedRow DEF RowsFine
  <2>4. reply'[c].status # "acknowledged" /\ (reply'[c].status = "mapped" => answer[c] # NoCall)
    BY <2>1
  <2>5. CASE row[k].status = "acknowledged" \/ row[k].status = "mapped" \/ answer[c] = NoCall
    BY <1>2, <2>1, <2>3, <2>4
  <2> QED
    BY <2>3, <2>5
<1>9. CASE LoseById(c)
  <2>1. reply'[c] = reply[c] \/ reply'[c].status = "failed"
    BY <1>1, <1>4, <1>9 DEF LoseById, SettledReply, TypeOK, CallKnows
  <2> QED
    BY <1>6, <2>1
<1>10. CASE ~(FetchRow(c) \/ Reread(c) \/ Publish(c) \/ LoseById(c))
  <2>1. ASSUME NEW e \in Calls,
               AdminStep(e) \/ ((Claim(e) \/ Die(e)) /\ CrudUntouched)
        PROVE  reply'[c] = reply[c]
    <3>1. CASE e = c
      BY <1>10, <2>1, <3>1 DEF AdminStep, ResetById, MapAccepted, MapRejected,
         SettleById, RereadSlot, Claim, Die
    <3>2. CASE e # c
      BY <2>1, <3>2, CallControl DEF OthersWait
    <3> QED
      BY <3>1, <3>2
  <2>2. ASSUME ~(\E e \in Calls : AdminStep(e) \/ ((Claim(e) \/ Die(e)) /\ CrudUntouched))
        PROVE  reply'[c] = reply[c]
    BY <2>2, CrudControl DEF AdminNext, Crud
  <2> QED
    BY <1>6, <2>1, <2>2
<1> QED
  BY <1>7, <1>8, <1>9, <1>10

\* An acknowledgement is given once the row is acknowledged, and its polarity
\* and reason are those of the row, hence of the last event.
LEMMA AcksNext ==
  ASSUME AdminInv, [AdminNext]_adminVars
  PROVE  AcksOfAcknowledgedDocuments' /\ DocumentAcksAgree'
<1> DEFINE Acks == ackPending \cup ackEvents
           Fits(a, log) == /\ log # <<>>
                           /\ a.accepted <=> LastOf(log).type = "mapped"
                           /\ ~a.accepted => LastOf(log).by = a.error
<1>1. /\ GoodStep /\ AdminTypeOK /\ TypeOK /\ DocStep /\ RowsFine
      /\ Acks \subseteq AckEvent /\ \A a \in AckEvent : a.doc \in Calls
  BY EveryStepIsGood DEF AdminInv, AdminTypeOK, RowsFine, GoodStep, TypeOK, AckEvent
<1>2. ASSUME NEW a \in Acks
      PROVE  /\ Created(a.doc)
             /\ a.doc \notin reverted =>
                  /\ RowOf(a.doc).status = "acknowledged" /\ Fits(a, outbox[a.doc])
                  /\ \A b \in Acks : a.doc = b.doc => a = b
  BY DEF AdminInv, AcksOfAcknowledgedDocuments, DocumentAcksAgree
<1>3. ASSUME NEW a \in Acks
      PROVE  /\ Created(a.doc)'
             /\ a.doc \notin reverted' =>
                  /\ a.doc \notin reverted
                  /\ (RowOf(a.doc).status)' = "acknowledged"
                  /\ outbox'[a.doc] = outbox[a.doc]
  <2>1. PICK d \in Calls : d = a.doc
    BY <1>1
  <2>2. Created(d) /\ (d \notin reverted => RowOf(d).status = "acknowledged")
    BY <1>2, <2>1
  <2>3. /\ Created(d)'
        /\ d \notin reverted' => /\ d \notin reverted
                                /\ (RowOf(d).status)' = "acknowledged"
    BY <1>1, <2>2, DocumentsLast
  <2>4. d \notin reverted' => outbox'[d] = outbox[d]
    BY <1>1, <2>2, <2>3, DocumentCases DEF SettledBy
  <2> QED
    BY <2>1, <2>3, <2>4
<1>4. ASSUME NEW k \in Keys, Acknowledge(k), CrudUntouched
      PROVE  AcksOfAcknowledgedDocuments' /\ DocumentAcksAgree'
  <2>1. PICK d \in Calls : d = row[k].id /\ Closed(d)
    BY <1>4, AcknowledgeEffect
  <2>2. RowOf(d) = row[k] /\ RowOf(d).status \in {"mapped", "failed"}
    BY <1>1, <2>1, NamedRow DEF RowsFine, Closed
  <2>3. /\ (RowOf(d).status)' = "acknowledged" /\ Created(d)'
        /\ UNCHANGED <<outbox, reverted>>
    BY <1>4, <2>1 DEF Closed, Becomes, Created, CrudUntouched
  <2>4. PICK new \in AckEvent : new = AckOf(row[k])
    BY <1>4, AcknowledgeEffect
  <2>5. Acks' = Acks \cup {new}
    BY <1>4, <2>4 DEF Acknowledge
  <2>6. new.doc = d /\ (d \notin reverted => Fits(new, outbox[d]))
    <3>1. /\ new.doc = d /\ (new.accepted <=> row[k].status = "mapped")
          /\ ~new.accepted => new.error = row[k].error
      BY <2>1, <2>4 DEF AckOf
    <3>2. d \notin reverted =>
            /\ row[k].status = "mapped" =>
                 outbox[d] # <<>> /\ LastOf(outbox[d]).type = "mapped"
            /\ row[k].status = "failed" =>
                 /\ outbox[d] # <<>> /\ LastOf(outbox[d]).type = "failed"
                 /\ LastOf(outbox[d]).by = row[k].error
      BY <2>2 DEF AdminInv, DocumentsAgreeWithOutbox
    <3> QED
      BY <2>2, <3>1, <3>2
  <2>7. \A a \in Acks : a.doc = d => d \in reverted
    BY <1>2, <2>2
  <2>8. AcksOfAcknowledgedDocuments'
    <3> SUFFICES ASSUME NEW a \in Acks'
                 PROVE  /\ Created(a.doc)'
                        /\ a.doc \notin reverted' =>
                             (RowOf(a.doc).status)' = "acknowledged"
      BY DEF AcksOfAcknowledgedDocuments
    <3> QED
      BY <1>3, <2>3, <2>5, <2>6
  <2>9. DocumentAcksAgree'
    <3> SUFFICES ASSUME NEW a \in Acks', a.doc \notin reverted'
                 PROVE  /\ Fits(a, outbox'[a.doc])
                        /\ \A b \in Acks' : a.doc = b.doc => a = b
      BY DEF DocumentAcksAgree, LastOf
    <3> QED
      BY <1>2, <2>3, <2>5, <2>6, <2>7
  <2> QED
    BY <2>8, <2>9
<1>5. CASE ~(\E k \in Keys : Acknowledge(k) /\ CrudUntouched)
  <2>1. Acks' \subseteq Acks
    BY <1>5 DEF AdminNext, AdminStep, FetchRow, ResetById, MapAccepted, MapRejected,
       SettleById, LoseById, Publish, RereadSlot, Reread, Claim, Die, PublishAck,
       DropAck, Crud, Create, Load, Save, Drop, SoftDelete, Restore, PurgeOne,
       EmptyTrash, Purge, ExchangeUntouched, adminVars, vars
  <2>2. AcksOfAcknowledgedDocuments'
    <3> SUFFICES ASSUME NEW a \in Acks'
                 PROVE  /\ Created(a.doc)'
                        /\ a.doc \notin reverted' =>
                             (RowOf(a.doc).status)' = "acknowledged"
      BY DEF AcksOfAcknowledgedDocuments
    <3> QED
      BY <1>3, <2>1
  <2>3. DocumentAcksAgree'
    <3> SUFFICES ASSUME NEW a \in Acks', a.doc \notin reverted'
                 PROVE  /\ Fits(a, outbox'[a.doc])
                        /\ \A b \in Acks' : a.doc = b.doc => a = b
      BY DEF DocumentAcksAgree, LastOf
    <3>1. a \in Acks /\ a.doc \notin reverted /\ outbox'[a.doc] = outbox[a.doc]
      BY <1>3, <2>1
    <3> QED
      BY <1>2, <2>1, <3>1
  <2> QED
    BY <2>2, <2>3
<1> QED
  BY <1>4, <1>5

LEMMA AnswersNext ==
  ASSUME AdminInv, [AdminNext]_adminVars
  PROVE  UntouchedCallsAnswer'
<1>1. GoodStep /\ AdminTypeOK /\ TypeOK /\ RowsHaveIds
  BY EveryStepIsGood DEF AdminInv, AdminTypeOK
<1> SUFFICES ASSUME NEW c \in Calls \ Fallible, pc'[c] = "dead"
             PROVE  KeyOf(c) \in touched
  BY <1>1 DEF UntouchedCallsAnswer, KeyOf, GoodStep, SlotsKept
<1>2. CallKnows(c) /\ KeyOf(c) \in Keys
  BY <1>1, ClaimedForm DEF AdminInv, CallsKnow
<1>3. CASE pc[c] = "dead"
  BY <1>3 DEF AdminInv, UntouchedCallsAnswer
<1>4. CASE pc[c] # "dead" /\ FetchRow(c)
  <2>1. ~HasRow(KeyOf(c)) /\ pc[c] = "fetch"
    BY <1>1, <1>4 DEF FetchRow, Goto, TypeOK
  <2> QED
    BY <1>2, <2>1 DEF CallKnows
<1>5. CASE pc[c] # "dead" /\ RereadSlot(c)
  <2>1. ~HasRow(KeyOf(c)) /\ pc[c] = "reread"
    BY <1>1, <1>5 DEF RereadSlot, Reread, Goto, TypeOK
  <2>2. row[KeyOf(c)].id = NoCall /\ doc[c] # NoCall
    BY <1>1, <1>2, <2>1 DEF RowsHaveIds, NoRow, CallKnows
  <2> QED
    BY <1>2, <2>2 DEF CallKnows
<1>6. CASE pc[c] # "dead" /\ ~FetchRow(c) /\ ~RereadSlot(c)
  <2>1. ASSUME NEW e \in Calls,
               AdminStep(e) \/ ((Claim(e) \/ Die(e)) /\ CrudUntouched)
        PROVE  FALSE
    <3>1. CASE e # c
      BY <1>6, <2>1, <3>1, CallControl DEF OthersWait
    <3>2. CASE e = c
      BY <1>1, <1>6, <2>1, <3>2 DEF AdminStep, Claim, ResetById, MapAccepted,
         MapRejected, SettleById, LoseById, Publish, Die, Goto, OpenedPlace, TypeOK
    <3> QED
      BY <3>1, <3>2
  <2>2. CASE ~(\E e \in Calls : AdminStep(e) \/ ((Claim(e) \/ Die(e)) /\ CrudUntouched))
    BY <1>6, <2>2, CrudControl DEF AdminNext, Crud
  <2> QED
    BY <2>1, <2>2
<1> QED
  BY <1>3, <1>4, <1>5, <1>6

-------------------------------------------------------------------------------
(* The theorems *)

LEMMA AdminInitially == AdminInit => AdminInv
<1> SUFFICES ASSUME AdminInit PROVE AdminInv
  OBVIOUS
<1>1. /\ \A k \in Keys : row[k] = NoRow
      /\ \A d \in Calls : purged[d] = NoRow /\ outbox[d] = <<>> /\ orders[d] = NoCall
      /\ \A c \in Calls : /\ doc[c] = NoCall /\ answer[c] = NoCall /\ pc[c] = "idle"
                          /\ reply[c] = NoReply
      /\ ackPending = {} /\ ackEvents = {} /\ loads = {} /\ reverted = {}
  BY DEF AdminInit, Init
<1>2. NoRow \in Row /\ NoReply \in Reply
  BY DEF NoRow, Row, NoReply, Reply, CallOrNone
<1>3. AdminTypeOK
  BY <1>2 DEF AdminInit, Init, AdminTypeOK, TypeOK, CallOrNone, Places
<1>4. \A d \in Calls : RowOf(d) = NoRow
  BY <1>1 DEF RowOf
<1>5. RowsHaveIds /\ PurgedAreGone
  BY <1>1 DEF RowsHaveIds, PurgedAreGone, HasRow, NoRow
<1>6. /\ DocumentsWellFormed /\ DocumentsAgreeWithOutbox
      /\ LoadsAreRows /\ RevertedAreDocuments
  BY <1>1, <1>4
  DEF DocumentsWellFormed, RowFits, DocumentsAgreeWithOutbox, Created, NoRow,
      LoadsAreRows, RevertedAreDocuments
<1>7. CallsKnow /\ OrdersOfHolders /\ UntouchedReplies
  BY <1>1 DEF CallsKnow, CallKnows, OrdersOfHolders, UntouchedReplies, NoReply
<1>8. AcksOfAcknowledgedDocuments /\ DocumentAcksAgree /\ UntouchedCallsAnswer
  BY <1>1 DEF AcksOfAcknowledgedDocuments, DocumentAcksAgree, UntouchedCallsAnswer
<1> QED
  BY <1>3, <1>5, <1>6, <1>7, <1>8 DEF AdminInv

LEMMA AdminPreserved == AdminInv /\ [AdminNext]_adminVars => AdminInv'
<1> SUFFICES ASSUME AdminInv, [AdminNext]_adminVars PROVE AdminInv'
  OBVIOUS
<1>1. GoodStep /\ ControlStep
  BY EveryStepIsGood, EveryStepControls
<1>2. AdminTypeOK' /\ RowsHaveIds' /\ PurgedAreGone'
  BY <1>1 DEF GoodStep, RowsFine
<1>3. /\ DocumentsWellFormed' /\ DocumentsAgreeWithOutbox'
      /\ LoadsAreRows' /\ RevertedAreDocuments'
  BY <1>1, WellFormedNext, AgreesNext, LoadsNext
<1>4. CallsKnow' /\ OrdersOfHolders' /\ UntouchedReplies'
  BY <1>1, CallsKnowNext, HoldersNext, RepliesNext
<1>5. AcksOfAcknowledgedDocuments' /\ DocumentAcksAgree' /\ UntouchedCallsAnswer'
  BY AcksNext, AnswersNext
<1> QED
  BY <1>2, <1>3, <1>4, <1>5 DEF AdminInv

\* Next to any number of CRUD requests, saves of rows that have changed since they
\* were loaded included, the exchange keeps its bookkeeping: every document has one
\* row or one purged row, whose columns go together and which agrees with the
\* outbox unless a save took it back, and a call knows its document, though no
\* longer the slot it is in.
THEOREM AdminInvariance == AdminSpec => []AdminInv
  BY AdminInitially, AdminPreserved, PTL DEF AdminSpec

\* No CRUD request and no statement of the exchange leaves a value outside its
\* type: a purge, for one, always finds the row it removes.
THEOREM AdminTypes == AdminSpec => []AdminTypeOK
<1>1. AdminInv => AdminTypeOK
  BY DEF AdminInv
<1> QED
  BY <1>1, AdminInvariance, PTL

\* Wherever an administrator moves a row, its status is the last event staged
\* for its document; only a save that takes the row back can part the two.
THEOREM AdminRowsAgree == AdminSpec => []DocumentsAgreeWithOutbox
<1>1. AdminInv => DocumentsAgreeWithOutbox
  BY DEF AdminInv
<1> QED
  BY <1>1, AdminInvariance, PTL

\* No administrator can make a document acknowledged twice, or with a polarity
\* or a refusal that is not that of its last event, other than by a save that
\* takes its row back.
THEOREM AdminAcksAgree == AdminSpec => []DocumentAcksAgree
<1>1. AdminInv => DocumentAcksAgree
  BY DEF AdminInv
<1> QED
  BY <1>1, AdminInvariance, PTL

\* Two orders for one business key take an administrator who moved or purged the
\* row: creation, edits in place, soft deletion and restoring never lead to that.
THEOREM ReplaySafeUntouched == AdminSpec => []UntouchedSlotsHaveOneOrder
<1>1. AdminInv => UntouchedSlotsHaveOneOrder
  <2> SUFFICES ASSUME AdminInv, NEW d \in Calls, NEW e \in Calls,
                      orders[d] # NoCall, orders[e] # NoCall,
                      KeyOf(orders[d]) = KeyOf(orders[e]),
                      KeyOf(orders[d]) \notin touched
               PROVE  d = e
    BY DEF UntouchedSlotsHaveOneOrder
  <2>1. ASSUME NEW f \in Calls, orders[f] # NoCall, KeyOf(orders[f]) \notin touched
        PROVE  row[KeyOf(orders[f])].id = f
    <3>1. PICK o \in Calls : o = orders[f]
      BY <2>1 DEF AdminInv, AdminTypeOK, TypeOK, CallOrNone
    <3>2. doc[o] = f /\ f # NoCall
      BY <2>1, <3>1, CallsAssumption DEF AdminInv, OrdersOfHolders
    <3> QED
      BY <2>1, <3>1, <3>2 DEF AdminInv, CallsKnow, CallKnows
  <2>2. row[KeyOf(orders[d])].id = d /\ row[KeyOf(orders[e])].id = e
    BY <2>1
  <2> QED
    BY <2>2
<1> QED
  BY <1>1, AdminInvariance, PTL

\* A partner told "mapped" or "acknowledged" is contradicted by the slot only
\* after somebody moved or purged the row, or a save took it back.
THEOREM RepliesHoldUntouched == AdminSpec => []UntouchedRepliesHold
<1>1. AdminInv => UntouchedRepliesHold
  BY DEF AdminInv, UntouchedReplies, UntouchedRepliesHold
<1> QED
  BY <1>1, AdminInvariance, PTL

\* RowNotFound reaches a partner only when the row was moved or purged between
\* the statements of the call.
THEOREM CallsAnswerUntouched == AdminSpec => []UntouchedCallsAnswer
<1>1. AdminInv => UntouchedCallsAnswer
  BY DEF AdminInv
<1> QED
  BY <1>1, AdminInvariance, PTL

-------------------------------------------------------------------------------
(* The refinement: a step changes the life of one document, or of none *)

LEMMA OneLife ==
  ASSUME NEW d \in Calls, NEW r, Becomes(d, r)
  PROVE  /\ DocumentStates' = [DocumentStates EXCEPT ![d] = LifecycleState(r)]
         /\ DocumentVerdicts' = [DocumentVerdicts EXCEPT ![d] = LifecycleVerdict(r)]
<1>1. \A e \in Calls : LifecycleState(RowOf(e))' =
                         IF e = d THEN LifecycleState(r) ELSE LifecycleState(RowOf(e))
  BY DEF Becomes
<1>2. \A e \in Calls :
        LifecycleVerdict(RowOf(e))' =
          IF e = d THEN LifecycleVerdict(r) ELSE LifecycleVerdict(RowOf(e))
  BY DEF Becomes, LifecycleVerdict
<1>3. DocumentStates' = [DocumentStates EXCEPT ![d] = LifecycleState(r)]
  BY <1>1 DEF DocumentStates
<1>4. DocumentVerdicts' = [DocumentVerdicts EXCEPT ![d] = LifecycleVerdict(r)]
  BY <1>2 DEF DocumentVerdicts
<1> QED
  BY <1>3, <1>4

LEMMA LifeOf ==
  ASSUME NEW d \in Calls
  PROVE  /\ DocumentStates[d] = LifecycleState(RowOf(d))
         /\ DocumentVerdicts[d] = LifecycleVerdict(RowOf(d))
         /\ [DocumentStates EXCEPT ![d] = DocumentStates[d]] = DocumentStates
         /\ [DocumentVerdicts EXCEPT ![d] = DocumentVerdicts[d]] = DocumentVerdicts
<1>1. DocumentStates[d] = LifecycleState(RowOf(d))
  BY DEF DocumentStates
<1>2. DocumentVerdicts[d] = LifecycleVerdict(RowOf(d))
  BY DEF DocumentVerdicts
<1>3. [DocumentStates EXCEPT ![d] = DocumentStates[d]] = DocumentStates
  BY DEF DocumentStates
<1>4. [DocumentVerdicts EXCEPT ![d] = DocumentVerdicts[d]] = DocumentVerdicts
  BY DEF DocumentVerdicts
<1> QED
  BY <1>1, <1>2, <1>3, <1>4

LEMMA DocumentLifeStep ==
  AdminInv /\ [AdminNext]_adminVars =>
    [DocumentLife!LifecycleNext \/ \E d \in Calls : TakenBack(d)]_
      <<DocumentStates, outbox, DocumentVerdicts>>
<1> DEFINE Same == UNCHANGED <<DocumentStates, outbox, DocumentVerdicts>>
<1> SUFFICES ASSUME AdminInv, [AdminNext]_adminVars
             PROVE  \/ DocumentLife!LifecycleNext
                    \/ \E d \in Calls : TakenBack(d)
                    \/ Same
  OBVIOUS
<1>1. DocStep /\ AdminTypeOK
  BY EveryStepIsGood DEF GoodStep, AdminInv
<1>2. ASSUME NEW d \in Calls, Arises(d) PROVE DocumentLife!Receive(d)
  <2>1. PICK r \in Row : Becomes(d, r) /\ r.status = "received"
    BY <1>2 DEF Arises
  <2>2. /\ LifecycleState(RowOf(d)) = "absent" /\ LifecycleVerdict(RowOf(d)) = "none"
        /\ LifecycleState(r) = "open" /\ LifecycleVerdict(r) = "none"
        /\ outbox' = outbox
    BY <1>2, <2>1 DEF Arises, Created, LifecycleState, LifecycleVerdict
  <2> QED
    BY <2>1, <2>2, OneLife, LifeOf DEF DocumentLife!Receive, DocumentLife!Become
<1>3. ASSUME NEW d \in Calls, Reopened(d) PROVE DocumentLife!Reopen(d) \/ Same
  <2>1. PICK r \in Row : Becomes(d, r) /\ r.status = "received"
    BY <1>3 DEF Reopened
  <2>2. /\ LifecycleState(RowOf(d)) \in {"open", "rejected"}
        /\ LifecycleVerdict(RowOf(d)) = "none"
        /\ LifecycleState(r) = "open" /\ LifecycleVerdict(r) = "none"
        /\ outbox' = outbox
    BY <1>3, <2>1 DEF Reopened, LifecycleState, LifecycleVerdict
  <2>3. /\ DocumentStates' = [DocumentStates EXCEPT ![d] = "open"]
        /\ DocumentVerdicts' = DocumentVerdicts
    BY <2>1, <2>2, OneLife, LifeOf
  <2>4. CASE LifecycleState(RowOf(d)) = "open"
    BY <2>2, <2>3, <2>4, LifeOf
  <2>5. CASE LifecycleState(RowOf(d)) = "rejected"
    BY <2>2, <2>3, <2>5, LifeOf DEF DocumentLife!Reopen, DocumentLife!Become
  <2> QED
    BY <2>2, <2>4, <2>5
<1>4. ASSUME NEW c \in Calls, NEW d \in Calls, SettledBy(c, d)
      PROVE  DocumentLife!Accept(d) \/ DocumentLife!Reject(d)
  <2>1. PICK r \in Row :
          /\ Becomes(d, r)
          /\ answer[c] # NoCall => r.status = "mapped"
          /\ answer[c] = NoCall => r.status = "failed"
    BY <1>4 DEF SettledBy
  <2>2. /\ LifecycleState(RowOf(d)) \in {"open", "rejected"}
        /\ answer[c] = NoCall => LifecycleState(RowOf(d)) = "open"
        /\ LifecycleVerdict(RowOf(d)) = "none" /\ LifecycleVerdict(r) = "none"
        /\ LifecycleState(r) = IF answer[c] # NoCall THEN "accepted" ELSE "rejected"
    BY <1>4, <2>1 DEF SettledBy, LifecycleState, LifecycleVerdict
  <2>3. DocumentVerdicts' = DocumentVerdicts
    BY <2>1, <2>2, OneLife, LifeOf
  <2>4. /\ outbox' = [outbox EXCEPT ![d] = Append(@, LifecycleEvent(c))]
        /\ LifecycleEvent(c) \in Event
    BY <1>1, <1>4, AdminEventType DEF SettledBy, AdminTypeOK
  <2>5. CASE answer[c] # NoCall
    <3>1. LifecycleEvent(c) \in {e \in Event : e.type = "mapped"}
      BY <2>4, <2>5 DEF LifecycleEvent
    <3>2. DocumentStates' = [DocumentStates EXCEPT ![d] = "accepted"]
      BY <2>1, <2>2, <2>5, OneLife
    <3> QED
      BY <2>2, <2>3, <2>4, <3>1, <3>2, LifeOf
      DEF DocumentLife!Accept, DocumentLife!Become
  <2>6. CASE answer[c] = NoCall
    <3>1. LifecycleEvent(c) \in {e \in Event : e.type = "failed"}
      BY <2>4, <2>6 DEF LifecycleEvent
    <3>2. DocumentStates' = [DocumentStates EXCEPT ![d] = "rejected"]
      BY <2>1, <2>2, <2>6, OneLife
    <3> QED
      BY <2>2, <2>3, <2>4, <2>6, <3>1, <3>2, LifeOf
      DEF DocumentLife!Reject, DocumentLife!Become
  <2> QED
    BY <2>5, <2>6
<1>5. ASSUME NEW d \in Calls, Closed(d) PROVE DocumentLife!Close(d)
  <2>1. PICK r \in Row : Becomes(d, r) /\ r.status = "acknowledged" /\ r.ref = RowOf(d).ref
    BY <1>5 DEF Closed
  <2>2. /\ RowOf(d).status \in {"mapped", "failed"} /\ outbox' = outbox
        /\ RowOf(d).status = "mapped" <=> r.ref # NoCall
    BY <1>5, <2>1, CallsAssumption DEF Closed, AdminInv, DocumentsWellFormed, RowFits
  <2>3. /\ LifecycleState(RowOf(d)) =
             IF RowOf(d).status = "mapped" THEN "accepted" ELSE "rejected"
        /\ LifecycleState(r) = "closed"
        /\ LifecycleVerdict(r) =
             IF RowOf(d).status = "mapped" THEN "positive" ELSE "negative"
    BY <2>1, <2>2 DEF LifecycleState, LifecycleVerdict
  <2>4. /\ DocumentStates' = [DocumentStates EXCEPT ![d] = "closed"]
        /\ DocumentVerdicts' =
             [DocumentVerdicts EXCEPT ![d] = IF DocumentStates[d] = "accepted"
                                               THEN "positive" ELSE "negative"]
    BY <2>1, <2>3, OneLife, LifeOf
  <2> QED
    BY <2>2, <2>3, <2>4, LifeOf DEF DocumentLife!Close, DocumentLife!Become
<1>6. ASSUME NEW d \in Calls, Rewritten(d) PROVE Same
  <2>1. PICK r \in Row : /\ Becomes(d, r) /\ r.status = RowOf(d).status
                         /\ r.ref = RowOf(d).ref
    BY <1>6 DEF Rewritten
  <2>2. /\ LifecycleState(r) = LifecycleState(RowOf(d))
        /\ LifecycleVerdict(r) = LifecycleVerdict(RowOf(d))
        /\ outbox' = outbox
    BY <1>6, <2>1 DEF Rewritten, LifecycleState, LifecycleVerdict
  <2> QED
    BY <2>1, <2>2, OneLife, LifeOf
<1>7. ASSUME AllKept, outbox' = outbox PROVE Same
  <2>1. \A d \in Calls : /\ LifecycleState(RowOf(d))' = LifecycleState(RowOf(d))
                         /\ LifecycleVerdict(RowOf(d))' = LifecycleVerdict(RowOf(d))
    BY <1>7 DEF AllKept, LifecycleState, LifecycleVerdict
  <2> QED
    BY <1>7, <2>1 DEF DocumentStates, DocumentVerdicts
<1>8. ASSUME NEW d \in Calls, Reverted(d) PROVE TakenBack(d)
  <2>1. PICK r \in Row, l \in loads \ loads' :
          /\ Becomes(d, r) /\ l.before.id = d
          /\ l.before.status = r.status /\ l.before.ref = r.ref
    BY <1>8 DEF Reverted
  <2>2. /\ LifecycleState(r) = LifecycleState(l.before)
        /\ LifecycleVerdict(r) = LifecycleVerdict(l.before)
    BY <2>1 DEF LifecycleState, LifecycleVerdict
  <2>3. /\ DocumentStates'[d] = LifecycleState(l.before)
        /\ DocumentVerdicts'[d] = LifecycleVerdict(l.before)
        /\ \A e \in Calls \ {d} : /\ DocumentStates'[e] = DocumentStates[e]
                                  /\ DocumentVerdicts'[e] = DocumentVerdicts[e]
    <3>1. /\ DocumentStates' =
               [DocumentStates EXCEPT ![d] = LifecycleState(l.before)]
          /\ DocumentVerdicts' =
               [DocumentVerdicts EXCEPT ![d] = LifecycleVerdict(l.before)]
      BY <2>1, <2>2, OneLife
    <3>2. /\ DocumentStates = [e \in Calls |-> DocumentStates[e]]
          /\ DocumentVerdicts = [e \in Calls |-> DocumentVerdicts[e]]
      BY DEF DocumentStates, DocumentVerdicts
    <3> QED
      BY <3>1, <3>2
  <2> QED
    BY <1>8, <2>1, <2>3 DEF Reverted, TakenBack
<1> QED
  BY <1>1, <1>2, <1>3, <1>4, <1>5, <1>6, <1>7, <1>8
  DEF DocStep, DocumentLife!LifecycleNext

\* Creation, edits, moves, soft deletion, restoration and purges included, each
\* document goes through the documented life: the guards by id are enough, and a
\* save that takes a row back to what it loaded is the only other step there is.
THEOREM AdminRefinement == AdminSpec => DocumentsKeepTheirLife
<1>1. AdminInit => DocumentLife!LifecycleInit
  <2> SUFFICES ASSUME AdminInit PROVE DocumentLife!LifecycleInit
    OBVIOUS
  <2>1. outbox = [d \in Calls |-> <<>>] /\ \A d \in Calls : RowOf(d) = NoRow
    BY DEF AdminInit, Init, RowOf, NoRow
  <2>2. LifecycleState(NoRow) = "absent" /\ LifecycleVerdict(NoRow) = "none"
    BY DEF LifecycleState, LifecycleVerdict, NoRow
  <2> QED
    BY <2>1, <2>2
    DEF DocumentLife!LifecycleInit, DocumentStates, DocumentVerdicts
<1> QED
  BY <1>1, DocumentLifeStep, AdminInvariance, PTL
  DEF AdminSpec, DocumentsKeepTheirLife

================================================================================
