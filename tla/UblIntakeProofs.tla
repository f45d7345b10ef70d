---------------------------- MODULE UblIntakeProofs ----------------------------
(***************************************************************************)
(* The intake uses the exchange as it is specified, so the theorems of the *)
(* exchange hold of the whole service; and nothing leaves a trace that the *)
(* gate, the size guard and the parser did not let through.                *)
(***************************************************************************)
EXTENDS UblIntake, EdiExchangeProofs

-------------------------------------------------------------------------------
(* The exchange under the intake *)

LEMMA IntakeStepsExchange == [IntakeNext]_allVars => [Next]_vars
<1> SUFFICES ASSUME [IntakeNext]_allVars PROVE [Next]_vars
  OBVIOUS
<1>1. ASSUME NEW c \in Calls, Receive(c) \/ ClaimFails(c) \/ Cut(c) PROVE vars' = vars
  BY <1>1 DEF Receive, PartnerUnknown, PartnerUnfit, RefuseAnonymous, AdmitUbl,
     TakeDocument, ClaimFails, Cut, Answer
<1>2. ASSUME NEW c \in Calls, Enter(c) \/ Panic(c) \/ Proceed(c) PROVE Next
  BY <1>2 DEF Enter, Panic, Proceed, Next
<1>3. CASE Elsewhere
  BY <1>3 DEF Elsewhere, Next
<1>4. CASE UpdatePartner \/ DeletePartner
  BY <1>4 DEF UpdatePartner, DeletePartner
<1>5. CASE UNCHANGED allVars
  BY <1>5 DEF allVars
<1> QED
  BY <1>1, <1>2, <1>3, <1>4, <1>5 DEF IntakeNext

\* Behind the gate the tables, the outbox and the target go through a behaviour of
\* the exchange, whatever is delivered and whatever happens to the partner's row.
THEOREM IntakeImplementsExchange == IntakeSpec => ImplementsExchange
<1>1. IntakeInit => Init
  BY DEF IntakeInit
<1> QED
  BY <1>1, IntakeStepsExchange, PTL DEF IntakeSpec, ImplementsExchange, Spec

\* What the exchange promises, the service promises: one order per business
\* document, replies and acknowledgements that are not contradicted.
THEOREM ServicePromises ==
  IntakeSpec => /\ []OneOrderPerBusinessDocument
                /\ []PositiveRepliesHold
                /\ []AckAgreesWithOutbox
                /\ SettledRowsStaySettled
  BY IntakeImplementsExchange, OneOrder, PositiveReplies, AcksAgree, SettledStay, PTL
  DEF ImplementsExchange

-------------------------------------------------------------------------------
(* What a call leaves behind, it leaves after it entered *)

\* A call that is past its claim stays past it.
LEMMA StaysEntered ==
  ASSUME TypeOK, [Next]_vars, NEW c \in Calls, pc[c] # "idle"
  PROVE  pc'[c] # "idle"
<1>1. ASSUME NEW b \in Calls, Claim(b) \/ Step(b) \/ Die(b) PROVE pc'[c] # "idle"
  BY <1>1 DEF TypeOK, Goto, OpenedPlace, Claim, Fetch, Reset, MapAccepted, MapRejected,
     SettleMapped, SettleFailed, LoseSettlement, RecordRefusal, LoseRefusal,
     Publish, Reread, Die, CommitSettlement, Step
<1>2. CASE \/ \E k \in Keys : Acknowledge(k)
           \/ \E a \in ackPending : PublishAck(a) \/ DropAck(a)
           \/ UNCHANGED vars
  BY <1>2 DEF Acknowledge, PublishAck, DropAck, vars
<1> QED
  BY <1>1, <1>2 DEF Next

\* The envelope stored in a row changes only under a claim or a reset, to the
\* caller's own.
LEMMA CopyByCaller ==
  ASSUME TypeOK, RowsWellFormed, CallsInPlace, [Next]_vars,
         NEW c \in Calls, NEW k \in Keys, row'[k].copy = c
  PROVE  row[k].copy = c \/ pc'[c] # "idle"
<1>1. ASSUME NEW b \in Calls, Claim(b) \/ Reset(b), row'[k] # row[k]
      PROVE  b = c /\ pc'[c] # "idle"
  <2>1. k = KeyOf(b) /\ row[k] \in Row
    BY <1>1 DEF Claim, Reset, TypeOK
  <2>2. row'[k] \in {ClaimedRow(b), ResetRow(row[k], b)}
    BY <1>1, <2>1 DEF Claim, Reset, TypeOK
  <2>3. row'[k].copy = b
    <3>1. ClaimedRow(b).copy = b
      BY DEF ClaimedRow
    <3>2. ResetRow(row[k], b).copy = b
      BY <2>1 DEF ResetRow, Row
    <3> QED
      BY <2>2, <3>1, <3>2
  <2>4. pc'[b] \in {"map", "refuse"}
    BY <1>1, <2>1 DEF Claim, Reset, Goto, OpenedPlace, TypeOK
  <2> QED
    BY <2>3, <2>4
<1>2. ASSUME NEW b \in Calls, SettleMapped(b) \/ SettleFailed(b) \/ RecordRefusal(b)
      PROVE  row'[k].copy = row[k].copy
  <2>1. Settles(b)
    BY <1>2, SettlesByAction
  <2>2. row[k] \in Row
    BY DEF TypeOK
  <2>3. row'[k] = row[k] \/ row'[k] = MappedRow(row[k], answer[b])
          \/ row'[k] = FailedRow(row[k], b)
    BY <2>1 DEF Settles, TypeOK
  <2> QED
    BY <2>2, <2>3 DEF MappedRow, FailedRow, Row
<1>3. ASSUME NEW j \in Keys, Acknowledge(j) PROVE row'[k].copy = row[k].copy
  BY <1>3 DEF Acknowledge, AcknowledgedRow, TypeOK, Row
<1>4. \/ row'[k] = row[k]
      \/ \E b \in Calls : Claim(b) \/ Reset(b)
      \/ \E b \in Calls : SettleMapped(b) \/ SettleFailed(b) \/ RecordRefusal(b)
      \/ \E j \in Keys : Acknowledge(j)
  BY DEF Next, Step, vars, Fetch, MapAccepted, MapRejected, LoseSettlement,
     LoseRefusal, Publish, Reread, Die, PublishAck, DropAck
<1> QED
  BY <1>1, <1>2, <1>3, <1>4

\* An order is opened for the copy the asking call carries.
LEMMA OrderByCaller ==
  ASSUME TypeOK, CallsInPlace, [Next]_vars,
         NEW c \in Calls, NEW d \in Calls, orders'[d] = c
  PROVE  orders[d] = c \/ (pc[c] = "map" /\ pc'[c] # "idle")
<1>1. ASSUME NEW b \in Calls, MapAccepted(b)
      PROVE  orders[d] = c \/ (pc[c] = "map" /\ pc'[c] # "idle")
  <2>1. orders'[d] = orders[d] \/ orders'[d] = b
    BY <1>1 DEF MapAccepted, TypeOK
  <2>2. pc[b] = "map" /\ pc'[b] # "idle"
    BY <1>1 DEF MapAccepted, Goto, TypeOK
  <2> QED
    BY <2>1, <2>2
<1>2. orders' = orders \/ \E b \in Calls : MapAccepted(b)
  BY DEF Next, Step, vars, Claim, Fetch, Reset, MapRejected, SettleMapped, SettleFailed,
     LoseSettlement, RecordRefusal, LoseRefusal, CommitSettlement, Publish, Reread,
     Die, Acknowledge, PublishAck, DropAck
<1> QED
  BY <1>1, <1>2

\* An event is staged by the call that settles.
LEMMA EventByCaller ==
  ASSUME TypeOK, RowsWellFormed, CallsInPlace, [Next]_vars,
         NEW c \in Calls, NEW d \in Calls, NEW i \in DOMAIN outbox'[d],
         outbox'[d][i].by = c
  PROVE  (i \in DOMAIN outbox[d] /\ outbox[d][i].by = c) \/ pc'[c] # "idle"
<1>1. ASSUME NEW b \in Calls, SettleMapped(b) \/ SettleFailed(b) \/ RecordRefusal(b)
      PROVE  (i \in DOMAIN outbox[d] /\ outbox[d][i].by = c) \/ pc'[c] # "idle"
  <2>1. outbox'[d] = outbox[d] \/ outbox'[d] = Append(outbox[d], LifecycleEvent(b))
    BY <1>1 DEF SettleMapped, SettleFailed, RecordRefusal, CommitSettlement, TypeOK
  <2>2. outbox[d] \in Seq(Event)
    BY DEF TypeOK
  <2>3. LifecycleEvent(b).by = b
    BY DEF LifecycleEvent
  <2>4. pc'[b] = "publish"
    BY <1>1 DEF SettleMapped, SettleFailed, RecordRefusal, CommitSettlement, Goto, TypeOK
  <2>5. CASE outbox'[d] = Append(outbox[d], LifecycleEvent(b))
    <3>1. i \in 1 .. Len(outbox[d]) + 1
      BY <2>2, <2>5
    <3>2. CASE i = Len(outbox[d]) + 1
      <4>1. outbox'[d][i] = LifecycleEvent(b)
        BY <2>2, <2>5, <3>2
      <4> QED
        BY <2>3, <2>4, <4>1
    <3>3. CASE i \in 1 .. Len(outbox[d])
      <4>1. outbox'[d][i] = outbox[d][i] /\ i \in DOMAIN outbox[d]
        BY <2>2, <2>5, <3>3
      <4> QED
        BY <4>1
    <3> QED
      BY <2>2, <3>1, <3>2, <3>3
  <2> QED
    BY <2>1, <2>5
<1>2. \/ outbox' = outbox
      \/ \E b \in Calls : SettleMapped(b) \/ SettleFailed(b) \/ RecordRefusal(b)
  BY DEF Next, Step, vars, Claim, Fetch, Reset, MapAccepted, MapRejected,
     LoseSettlement, LoseRefusal, Publish, Reread, Die, Acknowledge, PublishAck, DropAck
<1> QED
  BY <1>1, <1>2

LEMMA LeftByCaller ==
  ASSUME IInv, [Next]_vars, NEW c \in Calls, Left(c) => pc[c] # "idle", Left(c)'
  PROVE  pc'[c] # "idle"
<1> USE DEF IInv
<1>1. Left(c) => pc'[c] # "idle"
  BY StaysEntered
<1>2. ASSUME NEW k \in Keys, row'[k].copy = c PROVE Left(c) \/ pc'[c] # "idle"
  BY <1>2, CopyByCaller DEF Left
<1>3. ASSUME NEW d \in Calls, orders'[d] = c PROVE Left(c) \/ pc'[c] # "idle"
  BY <1>3, OrderByCaller DEF Left
<1>4. ASSUME NEW d \in Calls, NEW i \in DOMAIN outbox'[d], outbox'[d][i].by = c
      PROVE  Left(c) \/ pc'[c] # "idle"
  BY <1>4, EventByCaller DEF Left
<1> QED
  BY <1>1, <1>2, <1>3, <1>4 DEF Left

\* Only a document that was not refused is mapped.
LEMMA MapsUnrefused ==
  ASSUME TypeOK, [Next]_vars, NEW c \in Calls, pc[c] = "map" => ~msg[c].refused,
         pc'[c] = "map"
  PROVE  ~msg'[c].refused
<1>1. msg' = msg
  BY DEF Next, Step, vars, Claim, Fetch, Reset, MapAccepted, MapRejected, SettleMapped,
     SettleFailed, LoseSettlement, RecordRefusal, LoseRefusal, CommitSettlement,
     Publish, Reread, Die, Acknowledge, PublishAck, DropAck
<1>2. pc[c] = "map" \/ ~msg[c].refused
  <2>1. ASSUME NEW b \in Calls, Claim(b) \/ Step(b) \/ Die(b)
        PROVE  pc[c] = "map" \/ ~msg[c].refused
    <3>1. CASE b # c
      BY <2>1, <3>1 DEF TypeOK, Goto, Claim, Fetch, Reset, MapAccepted, MapRejected,
         SettleMapped, SettleFailed, LoseSettlement, RecordRefusal, LoseRefusal,
         Publish, Reread, Die, CommitSettlement, Step
    <3>2. CASE b = c /\ (Claim(c) \/ Reset(c))
      BY <3>2 DEF TypeOK, Goto, OpenedPlace, Claim, Reset
    <3>3. CASE b = c /\ ~(Claim(c) \/ Reset(c))
      BY <2>1, <3>3 DEF TypeOK, Goto, Fetch, MapAccepted, MapRejected,
         SettleMapped, SettleFailed, LoseSettlement, RecordRefusal, LoseRefusal,
         Publish, Reread, Die, CommitSettlement, Step
    <3> QED
      BY <3>1, <3>2, <3>3
  <2>2. CASE \/ \E k \in Keys : Acknowledge(k)
             \/ \E a \in ackPending : PublishAck(a) \/ DropAck(a)
             \/ UNCHANGED vars
    BY <2>2 DEF Acknowledge, PublishAck, DropAck, vars
  <2> QED
    BY <2>1, <2>2 DEF Next
<1> QED
  BY <1>1, <1>2

-------------------------------------------------------------------------------
(* The gate *)

\* A step moves one call, and its gate is read only on the way in.
LEMMA IntakeTypeStep ==
  ASSUME IntakeTypeOK, [IntakeNext]_allVars
  PROVE  IntakeTypeOK'
<1>1. content' = content
  BY DEF IntakeNext, allVars, intakeVars, Receive, PartnerUnknown, PartnerUnfit,
     RefuseAnonymous, AdmitUbl, TakeDocument, Answer, Enter, ClaimFails, Cut, Panic,
     Proceed, Elsewhere, UpdatePartner, DeletePartner
<1>2. partner' \in Partners \cup {NoPartner}
  BY DEF IntakeTypeOK, IntakeNext, allVars, intakeVars, Receive, PartnerUnknown,
     PartnerUnfit, RefuseAnonymous, AdmitUbl, TakeDocument, Answer, Enter, ClaimFails,
     Cut, Panic, Proceed, Elsewhere, UpdatePartner, DeletePartner
<1>3. gate' \in [Calls -> Partners \cup {NoPartner}]
  BY DEF IntakeTypeOK, IntakeNext, allVars, intakeVars, Receive, PartnerUnknown,
     PartnerUnfit, RefuseAnonymous, AdmitUbl, TakeDocument, ReadGate, Answer, Enter,
     ClaimFails, Cut, Panic, Proceed, Elsewhere, UpdatePartner, DeletePartner
<1>4. intake' \in [Calls -> Stages]
  <2>1. \/ intake' = intake
        \/ \E c \in Calls, s \in Stages : intake' = [intake EXCEPT ![c] = s]
    BY DEF Stages, IntakeNext, allVars, intakeVars, Receive, PartnerUnknown,
       PartnerUnfit, RefuseAnonymous, AdmitUbl, TakeDocument, Answer, Enter,
       ClaimFails, Cut, Panic, Proceed, Elsewhere, UpdatePartner, DeletePartner
  <2> QED
    BY <2>1 DEF IntakeTypeOK
<1> QED
  BY <1>1, <1>2, <1>3, <1>4 DEF IntakeTypeOK

\* A call is admitted by the row it read, and enters only when admitted.
LEMMA AdmissionStep ==
  ASSUME IntakeTypeOK, TypeOK, [IntakeNext]_allVars, NEW c \in Calls,
         intake[c] = "admitted" \/ pc[c] # "idle" =>
           (IsUbl(content[c]) => Admits(gate[c]) /\ Identified(content[c])),
         intake'[c] = "admitted" \/ pc'[c] # "idle",
         IsUbl(content[c])
  PROVE  Admits(gate'[c]) /\ Identified(content[c])
<1>1. CASE AdmitUbl(c)
  BY <1>1 DEF AdmitUbl, ReadGate, IntakeTypeOK
<1>2. ASSUME ~AdmitUbl(c), intake[c] = "admitted" \/ pc[c] # "idle"
      PROVE  gate'[c] = gate[c]
  BY <1>2 DEF Arrived, IntakeTypeOK, IntakeNext, allVars, intakeVars, Receive,
     PartnerUnknown, PartnerUnfit, RefuseAnonymous, AdmitUbl, TakeDocument, ReadGate,
     Answer, Enter, ClaimFails, Cut, Panic, Proceed, Elsewhere, UpdatePartner,
     DeletePartner
<1>3. ASSUME ~AdmitUbl(c), pc[c] = "idle", intake[c] # "admitted" PROVE FALSE
  <2>1. pc'[c] = "idle"
    <3>1. ASSUME NEW b \in Calls, Enter(b) PROVE pc'[c] = "idle"
      BY <1>3, <3>1 DEF Enter, Claim, Goto, TypeOK
    <3>2. ASSUME NEW b \in Calls, Panic(b) \/ Proceed(b) \/ Die(b) PROVE pc'[c] = "idle"
      BY <1>3, <3>2 DEF Panic, Proceed, TypeOK, Goto, Fetch, Reset, MapAccepted,
         MapRejected, SettleMapped, SettleFailed, LoseSettlement, RecordRefusal,
         LoseRefusal, Publish, Reread, Die, CommitSettlement, Step
    <3>3. CASE pc' = pc
      BY <1>3, <3>3
    <3>4. \/ pc' = pc
          \/ \E b \in Calls : Enter(b) \/ Panic(b) \/ Proceed(b) \/ Die(b)
      BY DEF IntakeNext, allVars, vars, Receive, PartnerUnknown, PartnerUnfit,
         RefuseAnonymous, AdmitUbl, TakeDocument, Answer, ClaimFails, Cut, Elsewhere,
         UpdatePartner, DeletePartner, Acknowledge, PublishAck, DropAck
    <3> QED
      BY <3>1, <3>2, <3>3, <3>4
  <2>2. intake'[c] # "admitted"
    BY <1>3 DEF IntakeTypeOK, IntakeNext, allVars, intakeVars, Receive, PartnerUnknown,
       PartnerUnfit, RefuseAnonymous, AdmitUbl, TakeDocument, Answer, Enter,
       ClaimFails, Cut, Panic, Proceed, Elsewhere, UpdatePartner, DeletePartner
  <2> QED
    BY <2>1, <2>2
<1> QED
  BY <1>1, <1>2, <1>3

LEMMA InitIntakeInv == IntakeInit => IntakeInv
<1> SUFFICES ASSUME IntakeInit PROVE IntakeInv
  OBVIOUS
<1>1. IntakeTypeOK
  BY DEF IntakeInit, IntakeTypeOK, Stages
<1>2. ASSUME NEW c \in Calls
      PROVE  msg[c].refused = RefusedByParser(content[c]) /\ ~Left(c)
             /\ pc[c] = "idle" /\ intake[c] = "arrived" /\ \A d \in Calls : orders[d] # c
  BY CallsAssumption DEF IntakeInit, Init, Delivers, Left, NoRow
<1> QED
  BY <1>1, <1>2 DEF IntakeInv

LEMMA NextIntakeInv == IInv /\ IntakeInv /\ [IntakeNext]_allVars => IntakeInv'
<1> SUFFICES ASSUME IInv, IntakeInv, [IntakeNext]_allVars PROVE IntakeInv'
  OBVIOUS
<1>1. [Next]_vars
  BY IntakeStepsExchange
<1>2. IntakeTypeOK'
  BY IntakeTypeStep DEF IntakeInv
<1>3. msg' = msg
  BY <1>1, TableSteps DEF IInv
<1>4. content' = content
  BY DEF IntakeNext, allVars, intakeVars, Receive, PartnerUnknown, PartnerUnfit,
     RefuseAnonymous, AdmitUbl, TakeDocument, Answer, Enter, ClaimFails, Cut, Panic,
     Proceed, Elsewhere, UpdatePartner, DeletePartner
<1>5. ASSUME NEW c \in Calls PROVE msg'[c].refused = RefusedByParser(content'[c])
  BY <1>3, <1>4 DEF IntakeInv
<1>6. ASSUME NEW c \in Calls, Left(c)' PROVE pc'[c] # "idle"
  BY <1>1, <1>6, LeftByCaller DEF IntakeInv
<1>7. ASSUME NEW c \in Calls, intake'[c] = "admitted" \/ pc'[c] # "idle",
             IsUbl(content'[c])
      PROVE  Admits(gate'[c]) /\ Identified(content'[c])
  BY <1>4, <1>7, AdmissionStep DEF IntakeInv, IInv
<1>8. ASSUME NEW c \in Calls, pc'[c] = "map" PROVE ~msg'[c].refused
  BY <1>1, <1>8, MapsUnrefused DEF IntakeInv, IInv
<1>9. ASSUME NEW c \in Calls, NEW d \in Calls, orders'[d] = c PROVE ~msg'[c].refused
  BY <1>1, <1>3, <1>9, OrderByCaller DEF IntakeInv, IInv
<1> QED
  BY <1>2, <1>5, <1>6, <1>7, <1>8, <1>9 DEF IntakeInv

\* The inductive invariant of the intake holds in every reachable state.
THEOREM IntakeInvariance == IntakeSpec => []IntakeInv
<1>1. IntakeSpec => []IInv
  BY IntakeImplementsExchange, Invariance, PTL DEF ImplementsExchange
<1> QED
  BY <1>1, InitIntakeInv, NextIntakeInv, PTL DEF IntakeSpec

\* A UBL document leaves a trace only if the partner's row its call read was
\* active, inbound and ubl_bis3, and the document was within the budget and
\* identified; it gets an order only if the parser accepted it.
THEOREM TracesAdmitted == IntakeSpec => []TracesWereAdmitted
<1>1. IntakeInv => TracesWereAdmitted
  BY DEF IntakeInv, TracesWereAdmitted, Admits, Identified, RefusedByParser
<1> QED
  BY <1>1, IntakeInvariance, PTL

===============================================================================
