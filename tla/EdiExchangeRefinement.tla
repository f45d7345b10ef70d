------------------------- MODULE EdiExchangeRefinement -------------------------
(***************************************************************************)
(* The exchange implements EdiLifecycle: every step of a call or of the    *)
(* acknowledgement is one step of the document's life, or none.            *)
(***************************************************************************)
EXTENDS EdiExchangeProofs

\* A step that touches one slot alone changes the lifecycle of that document
\* alone.
LEMMA OneDocument ==
  ASSUME NEW k \in Keys,
         \A j \in Keys : j # k =>
           row'[j] = row[j] /\ (HasRow(j) => outbox'[row[j].id] = outbox[row[j].id])
  PROVE  /\ LifecycleStates' =
              [LifecycleStates EXCEPT ![k] = LifecycleState(row'[k])]
         /\ LifecycleLogs' =
              [LifecycleLogs EXCEPT ![k] =
                 IF row'[k].status # "absent" THEN outbox'[row'[k].id] ELSE <<>>]
         /\ LifecycleVerdicts' =
              [LifecycleVerdicts EXCEPT ![k] = LifecycleVerdict(row'[k])]
<1>1. LifecycleStates' = [LifecycleStates EXCEPT ![k] = LifecycleState(row'[k])]
  BY DEF LifecycleStates
<1>2. LifecycleLogs' =
        [LifecycleLogs EXCEPT ![k] =
           IF row'[k].status # "absent" THEN outbox'[row'[k].id] ELSE <<>>]
  BY DEF LifecycleLogs, HasRow
<1>3. LifecycleVerdicts' =
        [LifecycleVerdicts EXCEPT ![k] = LifecycleVerdict(row'[k])]
  BY DEF LifecycleVerdicts, LifecycleVerdict
<1> QED
  BY <1>1, <1>2, <1>3

LEMMA Implementation ==
  IInv /\ [Next]_vars => [Lifecycle!LifecycleNext]_(Lifecycle!lifecycle)
<1> SUFFICES ASSUME IInv, [Next]_vars
             PROVE  [Lifecycle!LifecycleNext]_(Lifecycle!lifecycle)
  OBVIOUS
<1>1. TypeOK /\ RowsWellFormed /\ CallsInPlace /\ OutboxOfStored
  BY DEF IInv
<1>2. TableStep
  BY <1>1, TableSteps
<1> DEFINE St == LifecycleStates
           Lg == LifecycleLogs
           Vd == LifecycleVerdicts
           Same == UNCHANGED <<LifecycleStates, LifecycleLogs, LifecycleVerdicts>>
<1>3. ASSUME NEW k \in Keys
      PROVE  /\ St[k] = LifecycleState(row[k])
             /\ Lg[k] = (IF row[k].status # "absent" THEN outbox[row[k].id] ELSE <<>>)
             /\ Vd[k] = LifecycleVerdict(row[k])
             /\ [St EXCEPT ![k] = St[k]] = St
             /\ [Lg EXCEPT ![k] = Lg[k]] = Lg
             /\ [Vd EXCEPT ![k] = Vd[k]] = Vd
  <2>1. /\ St[k] = LifecycleState(row[k])
        /\ Lg[k] = (IF row[k].status # "absent" THEN outbox[row[k].id] ELSE <<>>)
        /\ Vd[k] = LifecycleVerdict(row[k])
    BY DEF LifecycleStates, LifecycleLogs, LifecycleVerdicts, HasRow
  <2>2. [St EXCEPT ![k] = St[k]] = St
    BY DEF LifecycleStates
  <2>3. [Lg EXCEPT ![k] = Lg[k]] = Lg
    BY DEF LifecycleLogs
  <2>4. [Vd EXCEPT ![k] = Vd[k]] = Vd
    BY DEF LifecycleVerdicts
  <2> QED
    BY <2>1, <2>2, <2>3, <2>4
<1>4. ASSUME NEW c \in Calls, Inserts(c) PROVE Lifecycle!Receive(KeyOf(c))
  <2>1. KeyOf(c) \in Keys /\ outbox[c] = <<>>
    BY <1>1, <1>4, CallFacts DEF Inserts, OutboxOfStored, Stored
  <2>2. /\ row[KeyOf(c)].status = "absent"
        /\ row'[KeyOf(c)].status = "received" /\ row'[KeyOf(c)].id = c
        /\ \A j \in Keys : j # KeyOf(c) => row'[j] = row[j]
        /\ outbox' = outbox
    BY <1>1, <1>4, <2>1 DEF Inserts, HasRow, ClaimedRow, TypeOK
  <2>3. /\ LifecycleState(row[KeyOf(c)]) = "absent"
        /\ LifecycleState(row'[KeyOf(c)]) = "open"
        /\ LifecycleVerdict(row[KeyOf(c)]) = "none"
        /\ LifecycleVerdict(row'[KeyOf(c)]) = "none"
    BY <2>2 DEF LifecycleState, LifecycleVerdict
  <2>4. /\ St' = [St EXCEPT ![KeyOf(c)] = "open"]
        /\ Lg' = [Lg EXCEPT ![KeyOf(c)] = <<>>]
        /\ Vd' = [Vd EXCEPT ![KeyOf(c)] = "none"]
    BY <2>1, <2>2, <2>3, OneDocument
  <2>5. St[KeyOf(c)] = "absent" /\ Lg' = Lg /\ Vd' = Vd
    BY <1>3, <2>1, <2>2, <2>3, <2>4
  <2> QED
    BY <2>4, <2>5 DEF Lifecycle!Receive, Lifecycle!Become
<1>5. ASSUME NEW c \in Calls, Reopens(c) PROVE Lifecycle!Reopen(KeyOf(c)) \/ Same
  <2>1. KeyOf(c) \in Keys /\ row[KeyOf(c)] \in Row
    BY <1>1, CallFacts
  <2>2. /\ row[KeyOf(c)].status \in {"received", "failed"}
        /\ row'[KeyOf(c)].status = "received"
        /\ row'[KeyOf(c)].id = row[KeyOf(c)].id
        /\ \A j \in Keys : j # KeyOf(c) => row'[j] = row[j]
        /\ outbox' = outbox
    BY <1>1, <1>5, <2>1 DEF Reopens, ResetRow, TypeOK, Row
  <2>3. /\ row[KeyOf(c)].status = "received" => LifecycleState(row[KeyOf(c)]) = "open"
        /\ row[KeyOf(c)].status = "failed" => LifecycleState(row[KeyOf(c)]) = "rejected"
        /\ LifecycleState(row'[KeyOf(c)]) = "open"
        /\ LifecycleVerdict(row[KeyOf(c)]) = "none"
        /\ LifecycleVerdict(row'[KeyOf(c)]) = "none"
    BY <2>2 DEF LifecycleState, LifecycleVerdict
  <2>4. /\ St' = [St EXCEPT ![KeyOf(c)] = "open"]
        /\ Lg' = [Lg EXCEPT ![KeyOf(c)] = outbox[row[KeyOf(c)].id]]
        /\ Vd' = [Vd EXCEPT ![KeyOf(c)] = "none"]
    BY <2>1, <2>2, <2>3, OneDocument
  <2>5. Lg' = Lg /\ Vd' = Vd
    BY <1>3, <2>1, <2>2, <2>3, <2>4
  <2>6. CASE row[KeyOf(c)].status = "received"
    <3>1. St' = St
      BY <1>3, <2>1, <2>3, <2>4, <2>6
    <3> QED
      BY <2>5, <3>1
  <2>7. CASE row[KeyOf(c)].status = "failed"
    <3>1. St[KeyOf(c)] = "rejected"
      BY <1>3, <2>1, <2>3, <2>7
    <3> QED
      BY <2>4, <2>5, <3>1 DEF Lifecycle!Reopen, Lifecycle!Become
  <2> QED
    BY <2>2, <2>6, <2>7
<1>6. ASSUME NEW c \in Calls, Settles(c)
      PROVE  Lifecycle!Accept(KeyOf(c)) \/ Lifecycle!Reject(KeyOf(c))
  <2>1. /\ KeyOf(c) \in Keys /\ doc[c] \in Calls
        /\ row[KeyOf(c)].id = doc[c] /\ row'[KeyOf(c)].id = doc[c]
        /\ row[KeyOf(c)].status \in {"received", "failed"}
        /\ answer[c] = NoCall => row[KeyOf(c)].status = "received"
        /\ outbox'[doc[c]] = Append(outbox[doc[c]], LifecycleEvent(c))
    BY <1>1, <1>6, SettlesShape DEF Settles
  <2>2. /\ answer[c] # NoCall => row'[KeyOf(c)].status = "mapped"
        /\ answer[c] = NoCall => row'[KeyOf(c)].status = "failed"
    BY <1>1, <1>6, SettlesShape
  <2>3. \A j \in Keys : j # KeyOf(c) =>
          row'[j] = row[j] /\ (HasRow(j) => outbox'[row[j].id] = outbox[row[j].id])
    BY <1>1, <1>6, SettlesShape DEF RowsWellFormed
  <2>4. /\ LifecycleVerdict(row[KeyOf(c)]) = "none"
        /\ LifecycleVerdict(row'[KeyOf(c)]) = "none"
        /\ row[KeyOf(c)].status = "received" => LifecycleState(row[KeyOf(c)]) = "open"
        /\ row[KeyOf(c)].status = "failed" => LifecycleState(row[KeyOf(c)]) = "rejected"
        /\ answer[c] # NoCall => LifecycleState(row'[KeyOf(c)]) = "accepted"
        /\ answer[c] = NoCall => LifecycleState(row'[KeyOf(c)]) = "rejected"
    BY <2>1, <2>2 DEF LifecycleState, LifecycleVerdict
  <2>5. row'[KeyOf(c)].status # "absent"
    BY <2>2
  <2>6. Lg[KeyOf(c)] = outbox[doc[c]]
    BY <1>3, <2>1
  <2>7. /\ St' = [St EXCEPT ![KeyOf(c)] = LifecycleState(row'[KeyOf(c)])]
        /\ Lg' = [Lg EXCEPT ![KeyOf(c)] = Append(outbox[doc[c]], LifecycleEvent(c))]
        /\ Vd' = [Vd EXCEPT ![KeyOf(c)] = "none"]
    BY <2>1, <2>3, <2>4, <2>5, OneDocument
  <2>8. Vd' = Vd
    BY <1>3, <2>1, <2>4, <2>7
  <2>9. Lg' = [Lg EXCEPT ![KeyOf(c)] = Append(@, LifecycleEvent(c))]
    BY <2>6, <2>7
  <2>10. LifecycleEvent(c) \in Event
    BY <1>1, <2>1, EventType
  <2>11. CASE answer[c] # NoCall
    <3>1. LifecycleEvent(c) \in {e \in Event : e.type = "mapped"}
      BY <2>10, <2>11 DEF LifecycleEvent
    <3>2. St[KeyOf(c)] \in {"open", "rejected"}
      BY <1>3, <2>1, <2>4
    <3>3. St' = [St EXCEPT ![KeyOf(c)] = "accepted"]
      BY <2>4, <2>7, <2>11
    <3> QED
      BY <2>8, <2>9, <3>1, <3>2, <3>3 DEF Lifecycle!Accept, Lifecycle!Become
  <2>12. CASE answer[c] = NoCall
    <3>1. LifecycleEvent(c) \in {e \in Event : e.type = "failed"}
      BY <2>10, <2>12 DEF LifecycleEvent
    <3>2. St[KeyOf(c)] = "open"
      BY <1>3, <2>1, <2>4, <2>12
    <3>3. St' = [St EXCEPT ![KeyOf(c)] = "rejected"]
      BY <2>4, <2>7, <2>12
    <3> QED
      BY <2>8, <2>9, <3>1, <3>2, <3>3 DEF Lifecycle!Reject, Lifecycle!Become
  <2> QED
    BY <2>11, <2>12
<1>7. ASSUME NEW k \in Keys, Closes(k) PROVE Lifecycle!Close(k)
  <2>1. /\ row[k].status \in {"mapped", "failed"}
        /\ row'[k].status = "acknowledged"
        /\ row'[k].id = row[k].id /\ row'[k].ref = row[k].ref
        /\ \A j \in Keys : j # k => row'[j] = row[j]
        /\ outbox' = outbox
    BY <1>1, <1>7 DEF Closes, AcknowledgedRow, TypeOK, Row
  <2>2. row[k].ref # NoCall <=> row[k].status = "mapped"
    BY <1>1, <2>1, CallsAssumption DEF RowsWellFormed
  <2>3. /\ LifecycleState(row[k]) =
             (IF row[k].status = "mapped" THEN "accepted" ELSE "rejected")
        /\ LifecycleState(row'[k]) = "closed"
        /\ LifecycleVerdict(row'[k]) =
             (IF row[k].status = "mapped" THEN "positive" ELSE "negative")
    BY <2>1, <2>2 DEF LifecycleState, LifecycleVerdict
  <2>4. /\ St' = [St EXCEPT ![k] = "closed"]
        /\ Lg' = [Lg EXCEPT ![k] = outbox[row[k].id]]
        /\ Vd' = [Vd EXCEPT ![k] = IF row[k].status = "mapped"
                                     THEN "positive" ELSE "negative"]
    BY <2>1, <2>3, OneDocument
  <2>5. Lg' = Lg
    BY <1>3, <2>1, <2>4
  <2>6. St[k] = (IF row[k].status = "mapped" THEN "accepted" ELSE "rejected")
    BY <1>3, <2>3
  <2> QED
    BY <2>4, <2>5, <2>6 DEF Lifecycle!Close, Lifecycle!Become
<1>8. CASE UNCHANGED <<row, outbox>>
  <2>1. Same
    BY <1>8 DEF LifecycleStates, LifecycleLogs, LifecycleVerdicts, LifecycleState,
       LifecycleVerdict, HasRow
  <2> QED
    BY <2>1 DEF Lifecycle!lifecycle
<1> QED
  <2>1. \A c \in Calls : KeyOf(c) \in Keys
    BY <1>1, CallFacts
  <2>2. Same => UNCHANGED Lifecycle!lifecycle
    BY DEF Lifecycle!lifecycle
  <2> QED
    BY <1>2, <1>4, <1>5, <1>6, <1>7, <1>8, <2>1, <2>2
    DEF TableStep, Orders, Lifecycle!LifecycleNext

\* The table and the outbox together go through the documented life of a
\* business document (received, settled, re-opened after a rejection only,
\* acknowledged once), one event per settlement, under any interleaving of
\* receive paths, acknowledgements and crashes.
THEOREM Refinement == Spec => ImplementsLifecycle
<1>1. Init => Lifecycle!LifecycleInit
  BY DEF Init, NoRow, Lifecycle!LifecycleInit, LifecycleStates, LifecycleLogs,
     LifecycleVerdicts, LifecycleState, LifecycleVerdict, HasRow
<1> QED
  BY <1>1, Implementation, Invariance, PTL
  DEF Spec, ImplementsLifecycle, Lifecycle!LifecycleSpec

================================================================================
