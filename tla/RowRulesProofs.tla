---------------------------- MODULE RowRulesProofs ----------------------------
(***************************************************************************)
(* The properties of RowRules, for any tables, rows and requests.  The     *)
(* inductive invariant is RulesInv; everything else follows from it and    *)
(* from two facts about the guards: the rules refuse whatever the CHECKs   *)
(* refuse, and a sound text is refused by neither.                         *)
(***************************************************************************)
EXTENDS RowRules, TLAPS

RulesInv ==
  /\ RowTypeOK
  /\ InstalledChecksHold
  /\ \A i \in ruled : place[i] # "free"

-------------------------------------------------------------------------------
(* The guards *)

\* What a CHECK refuses, the rule of the same name refuses.
LEMMA RulesCoverChecks ==
  \A kind \in Kinds : CheckBreakers(kind) \subseteq RuleBreakers(kind)
  BY DEF Kinds, CheckBreakers, RuleBreakers

LEMMA SoundTextPasses ==
  \A kind \in Kinds : "ok" \notin RuleBreakers(kind)
  BY DEF Kinds, RuleBreakers

\* A broken CHECK can be traced to one of the installed rules.
LEMMA BrokenCheck ==
  ASSUME NEW text, ~Passes(text), checks \subseteq Rules
  PROVE  \E c \in table.columns, kind \in Kinds :
           <<c, kind>> \in checks /\ text[c] \in CheckBreakers(kind)
<1>1. PICK rule \in checks : text[rule[1]] \in CheckBreakers(rule[2])
  BY DEF Passes
<1>2. /\ rule = <<rule[1], rule[2]>>
      /\ rule[1] \in table.columns
      /\ rule[2] \in Kinds
  BY <1>1 DEF Rules
<1> QED
  BY <1>1, <1>2

\* A version of a row is a row.
LEMMA VersionsAreRows ==
  ASSUME NEW before \in Row
  PROVE  Versions(before) \subseteq Row
<1>1. \A body \in UpdateBodies : apply_update(before, body) \in Row
  BY DEF apply_update, UpdateBodies, Row
<1>2. ASSUME NEW body \in PatchBodies
      PROVE  apply_patch(before, body) \in Row
  <2>1. \A c \in table.columns :
          (IF body[c] = "unread" THEN before[c] ELSE body[c]) \in Contents
    BY <1>2 DEF PatchBodies, Row
  <2> QED
    BY <2>1 DEF apply_patch, Row
<1> QED
  BY <1>1, <1>2 DEF Versions

LEMMA NoTextIsARow == NoText \in Row
  BY DEF NoText, Row, Contents

-------------------------------------------------------------------------------
(* The invariant *)

LEMMA RulesInit == Init => RulesInv
<1> SUFFICES ASSUME Init PROVE RulesInv
  OBVIOUS
<1>1. RowTypeOK
  BY DEF Init, RowTypeOK
<1>2. InstalledChecksHold
  BY DEF Init, InstalledChecksHold, Passes
<1> QED
  BY <1>1, <1>2 DEF Init, RulesInv

\* The steps that write one row, given that it passes the CHECKs.
LEMMA WriteKeepsInv ==
  ASSUME RulesInv,
         NEW i \in Ids, NEW text \in Row, Passes(text),
         row' = [row EXCEPT ![i] = text],
         place' \in [Ids -> {"free", "live", "trash", "gone"}],
         \A j \in Ids \ {i} : place'[j] = place[j],
         place'[i] # "free",
         loads' \subseteq loads,
         ruled' \subseteq ruled \cup {i},
         UNCHANGED <<table, checks>>
  PROVE  RulesInv'
<1> USE DEF RulesInv
<1>1. Row' = Row /\ Rules' = Rules
  BY DEF Row, Rules
<1>2. RowTypeOK'
  <2>1. row' \in [Ids -> Row]
    BY DEF RowTypeOK
  <2>2. loads' \subseteq [request : Requests, id : Ids, before : Row]
    BY DEF RowTypeOK
  <2> QED
    BY <1>1, <2>1, <2>2 DEF RowTypeOK
<1>3. InstalledChecksHold'
  <2> SUFFICES ASSUME NEW j \in Ids, Stored(j)'
               PROVE  Passes(row[j])'
    BY DEF InstalledChecksHold
  <2>1. CASE j = i
    <3>1. row'[j] = text
      BY <2>1 DEF RowTypeOK
    <3> QED
      BY <3>1 DEF Passes
  <2>2. CASE j # i
    <3>1. row'[j] = row[j] /\ Stored(j)
      BY <2>2 DEF Stored, RowTypeOK
    <3> QED
      BY <3>1 DEF Passes, InstalledChecksHold
  <2> QED
    BY <2>1, <2>2
<1>4. (\A j \in ruled : place[j] # "free")'
  BY DEF RowTypeOK
<1> QED
  BY <1>2, <1>3, <1>4

\* The steps that leave the rows as they are.
LEMMA MoveKeepsInv ==
  ASSUME RulesInv,
         NEW i \in Ids,
         place' \in {[place EXCEPT ![i] = "live"], [place EXCEPT ![i] = "trash"],
                     place},
         place[i] # "free",
         UNCHANGED Stored(i),
         loads' \subseteq [request : Requests, id : Ids, before : Row],
         UNCHANGED <<table, row, checks, ruled>>
  PROVE  RulesInv'
<1> USE DEF RulesInv
<1>1. Row' = Row /\ Rules' = Rules
  BY DEF Row, Rules
<1>2. RowTypeOK'
  BY <1>1 DEF RowTypeOK
<1>3. InstalledChecksHold'
  <2> SUFFICES ASSUME NEW j \in Ids, Stored(j)'
               PROVE  Passes(row[j])'
    BY DEF InstalledChecksHold
  <2>1. Stored(j)
    BY DEF Stored, RowTypeOK
  <2> QED
    BY <2>1 DEF Passes, InstalledChecksHold
<1>4. (\A j \in ruled : place[j] # "free")'
  BY DEF RowTypeOK
<1> QED
  BY <1>2, <1>3, <1>4

LEMMA RulesNext == RulesInv /\ [Next]_vars => RulesInv'
<1> SUFFICES ASSUME RulesInv, [Next]_vars
             PROVE  RulesInv'
  OBVIOUS
<1> USE DEF RulesInv
<1>1. ASSUME NEW i \in Ids, Register(i)
      PROVE  RulesInv'
  <2>1. PICK text \in Row : Passes(text) /\ row' = [row EXCEPT ![i] = text]
    BY <1>1 DEF Register
  <2> QED
    BY <1>1, <2>1, WriteKeepsInv DEF Register, RowTypeOK
<1>2. ASSUME NEW i \in Ids, Redrive(i)
      PROVE  RulesInv'
  <2>1. PICK text \in Row : Passes(text) /\ row' = [row EXCEPT ![i] = text]
    BY <1>2 DEF Redrive
  <2> QED
    BY <1>2, <2>1, WriteKeepsInv DEF Redrive, RowTypeOK, Stored
<1>3. ASSUME NEW i \in Ids, Post(i)
      PROVE  RulesInv'
  <2>1. PICK text \in Row : Passes(text) /\ row' = [row EXCEPT ![i] = text]
    BY <1>3 DEF Post, CreateBodies, Row
  <2> QED
    BY <1>3, <2>1, WriteKeepsInv DEF Post, RowTypeOK
<1>4. ASSUME NEW i \in Ids, SoftDelete(i) \/ Restore(i)
      PROVE  RulesInv'
  <2>1. UNCHANGED Stored(i)
    BY <1>4 DEF SoftDelete, Restore, Stored, RowTypeOK
  <2> QED
    BY <1>4, <2>1, MoveKeepsInv DEF SoftDelete, Restore, RowTypeOK
<1>5. ASSUME NEW i \in Ids, Purge(i)
      PROVE  RulesInv'
  <2>1. Row' = Row /\ Rules' = Rules
    BY <1>5 DEF Purge, Row, Rules
  <2>2. RowTypeOK'
    BY <1>5, <2>1, NoTextIsARow DEF Purge, RowTypeOK
  <2>3. InstalledChecksHold'
    <3> SUFFICES ASSUME NEW j \in Ids, Stored(j)'
                 PROVE  Passes(row[j])'
      BY DEF InstalledChecksHold
    <3>1. j # i /\ Stored(j) /\ row'[j] = row[j] /\ checks' = checks
      BY <1>5 DEF Purge, Stored, RowTypeOK
    <3> QED
      BY <3>1 DEF Passes, InstalledChecksHold
  <2>4. (\A j \in ruled : place[j] # "free")'
    BY <1>5 DEF Purge, RowTypeOK
  <2> QED
    BY <2>2, <2>3, <2>4
<1>6. ASSUME NEW r \in Requests, NEW i \in Ids, Load(r, i)
      PROVE  RulesInv'
  <2>1. loads' \subseteq [request : Requests, id : Ids, before : Row]
    BY <1>6 DEF Load, RowTypeOK
  <2>2. UNCHANGED Stored(i) /\ place[i] # "free"
    BY <1>6 DEF Load, Stored
  <2> QED
    BY <1>6, <2>1, <2>2, MoveKeepsInv DEF Load
<1>7. ASSUME NEW q \in loads, Save(q)
      PROVE  RulesInv'
  <2>1. q.id \in Ids /\ q.before \in Row
    BY DEF RowTypeOK
  <2>2. PICK after \in Versions(q.before) :
          Passes(after) /\ row' = [row EXCEPT ![q.id] = after]
    BY <1>7 DEF Save
  <2>3. after \in Row
    BY <2>1, <2>2, VersionsAreRows
  <2>4. /\ place' \in [Ids -> {"free", "live", "trash", "gone"}]
        /\ \A j \in Ids \ {q.id} : place'[j] = place[j]
        /\ place'[q.id] # "free"
    BY <1>7, <2>1 DEF Save, Stored, RowTypeOK
  <2> QED
    BY <1>7, <2>1, <2>2, <2>3, <2>4, WriteKeepsInv DEF Save
<1>8. ASSUME NEW q \in loads, Refuse(q)
      PROVE  RulesInv'
  <2>1. Row' = Row /\ Rules' = Rules
    BY <1>8 DEF Refuse, Row, Rules
  <2>2. RowTypeOK'
    BY <1>8, <2>1 DEF Refuse, RowTypeOK
  <2>3. InstalledChecksHold'
    BY <1>8 DEF Refuse, InstalledChecksHold, Stored, Passes
  <2> QED
    BY <1>8, <2>2, <2>3 DEF Refuse
<1>9. ASSUME NEW rule \in Rules, Migrate(rule)
      PROVE  RulesInv'
  <2>1. Row' = Row /\ Rules' = Rules
    BY <1>9 DEF Migrate, Row, Rules
  <2>2. RowTypeOK'
    BY <1>9, <2>1 DEF Migrate, RowTypeOK
  <2>3. InstalledChecksHold'
    BY <1>9 DEF Migrate, InstalledChecksHold, Stored, Passes
  <2> QED
    BY <1>9, <2>2, <2>3 DEF Migrate
<1>10. ASSUME NEW rule \in Rules, Rollback(rule)
       PROVE  RulesInv'
  <2>1. Row' = Row /\ Rules' = Rules
    BY <1>10 DEF Rollback, Row, Rules
  <2>2. RowTypeOK'
    BY <1>10, <2>1 DEF Rollback, RowTypeOK
  <2>3. InstalledChecksHold'
    BY <1>10 DEF Rollback, InstalledChecksHold, Stored, Passes
  <2> QED
    BY <1>10, <2>2, <2>3 DEF Rollback
<1>11. CASE UNCHANGED vars
  <2>1. Row' = Row /\ Rules' = Rules
    BY <1>11 DEF vars, Row, Rules
  <2>2. RowTypeOK'
    BY <1>11, <2>1 DEF vars, RowTypeOK
  <2>3. InstalledChecksHold'
    BY <1>11 DEF vars, InstalledChecksHold, Stored, Passes
  <2> QED
    BY <1>11, <2>2, <2>3 DEF vars
<1> QED
  BY <1>1, <1>2, <1>3, <1>4, <1>5, <1>6, <1>7, <1>8, <1>9, <1>10, <1>11 DEF Next

\* The inductive invariant of the three guards, for any tables and rows.
THEOREM RulesInvariance == Spec => []RulesInv
  BY RulesInit, RulesNext, PTL DEF Spec

\* Every variable keeps to its type: what a PATCH cannot read never reaches a row.
THEOREM RowTypes == Spec => []RowTypeOK
  BY RulesInvariance, PTL DEF RulesInv

\* No stored row ever breaks an installed CHECK.
THEOREM ChecksHold == Spec => []InstalledChecksHold
  BY RulesInvariance, PTL DEF RulesInv

-------------------------------------------------------------------------------
(* What follows *)

LEMMA InvShieldsChecks == RulesInv => RulesShieldChecks
<1> SUFFICES ASSUME RulesInv PROVE RulesShieldChecks
  OBVIOUS
<1> USE DEF RulesInv
<1>1. checks \subseteq Rules
  BY DEF RowTypeOK
<1>2. ASSUME NEW text \in CreateBodies, CreateAdmits(text)
      PROVE  Passes(text)
  <2> SUFFICES ASSUME ~Passes(text) PROVE FALSE
    OBVIOUS
  <2>1. PICK c \in table.columns, kind \in Kinds :
          <<c, kind>> \in checks /\ text[c] \in CheckBreakers(kind)
    BY <1>1, BrokenCheck
  <2>2. <<c, kind>> \in Rules /\ Breaks(text, <<c, kind>>)
    BY <2>1, RulesCoverChecks DEF Rules, Breaks
  <2> QED
    BY <1>2, <2>2 DEF CreateAdmits
<1>3. ASSUME NEW q \in loads, Stored(q.id), NEW after \in Row,
             UpdateAdmits(q.before, after), ~Passes(after)
      PROVE  \E c \in table.columns :
               after[c] = q.before[c] /\ after[c] # row[q.id][c]
  <2>1. PICK c \in table.columns, kind \in Kinds :
          <<c, kind>> \in checks /\ after[c] \in CheckBreakers(kind)
    BY <1>1, <1>3, BrokenCheck
  <2>2. <<c, kind>> \in Rules /\ Breaks(after, <<c, kind>>)
    BY <2>1, RulesCoverChecks DEF Rules, Breaks
  <2>3. after[c] = q.before[c]
    BY <1>3, <2>2 DEF UpdateAdmits
  <2>4. row[q.id][c] \notin CheckBreakers(kind)
    <3>1. q.id \in Ids
      BY DEF RowTypeOK
    <3>2. Passes(row[q.id])
      BY <1>3, <3>1 DEF InstalledChecksHold
    <3> QED
      BY <2>1, <3>2 DEF Passes
  <2> QED
    BY <2>1, <2>3, <2>4
<1> QED
  BY <1>2, <1>3 DEF RulesShieldChecks

\* The rules shield the CHECKs: an admitted write reaches a broken CHECK only by
\* writing back a value that was mended after it was loaded.
THEOREM RulesShield == Spec => []RulesShieldChecks
  BY RulesInvariance, InvShieldsChecks, PTL

LEMMA InvKeepsEditable == RulesInv => LegacyRowsStayEditable
<1> SUFFICES ASSUME RulesInv, NEW i \in Ids, NEW c \in table.columns,
                    place[i] = "live"
             PROVE  /\ UpdateAdmits(row[i], [row[i] EXCEPT ![c] = "ok"])
                    /\ Passes([row[i] EXCEPT ![c] = "ok"])
  BY DEF LegacyRowsStayEditable
<1> USE DEF RulesInv
<1> DEFINE after == [row[i] EXCEPT ![c] = "ok"]
<1>1. row[i] \in [table.columns -> Contents] /\ checks \subseteq Rules
  BY DEF RowTypeOK, Row
<1>2. /\ after[c] = "ok"
      /\ \A d \in table.columns \ {c} : after[d] = row[i][d]
  BY <1>1
<1> HIDE DEF after
<1>3. UpdateAdmits(row[i], after)
  BY <1>2, SoundTextPasses DEF UpdateAdmits, Breaks, Rules
<1>4. Passes(after)
  <2> SUFFICES ASSUME ~Passes(after) PROVE FALSE
    OBVIOUS
  <2>1. PICK d \in table.columns, kind \in Kinds :
          <<d, kind>> \in checks /\ after[d] \in CheckBreakers(kind)
    BY <1>1, BrokenCheck
  <2>2. d # c
    BY <1>2, <2>1, SoundTextPasses, RulesCoverChecks
  <2>3. Passes(row[i])
    BY DEF InstalledChecksHold, Stored
  <2> QED
    BY <1>2, <2>1, <2>2, <2>3 DEF Passes
<1> QED
  BY <1>3, <1>4 DEF after

\* Whatever a row of before the rules contains, any column of it can be mended.
THEOREM LegacyEditable == Spec => []LegacyRowsStayEditable
  BY RulesInvariance, InvKeepsEditable, PTL

-------------------------------------------------------------------------------
(* New breaks *)

LEMMA StepExplainsBreaks == RulesInv /\ [Next]_vars => [NewBreaksAreExplained]_vars
<1> SUFFICES ASSUME RulesInv, Next,
                    NEW i \in Ids, NEW rule \in Rules,
                    Breaks(row'[i], rule), ~Breaks(row[i], rule)
             PROVE  \/ \E q \in loads \ loads' : q.id = i /\ Breaks(q.before, rule)
                    \/ /\ loads' = loads
                       /\ i \notin ruled'
                       /\ rule[2] = "required" => rule[1] \notin table.tested
  BY DEF NewBreaksAreExplained
<1> USE DEF RulesInv
<1>1. rule[1] \in table.columns /\ rule[2] \in Kinds /\ row'[i] # row[i]
  BY DEF Rules
<1>2. ASSUME NEW j \in Ids, Register(j)
      PROVE  /\ loads' = loads
             /\ i \notin ruled'
             /\ rule[2] = "required" => rule[1] \notin table.tested
  <2>1. PICK text \in Row : ServiceAdmits(text) /\ row' = [row EXCEPT ![j] = text]
    BY <1>2 DEF Register
  <2>2. i = j /\ row'[i] = text
    BY <1>1, <2>1 DEF RowTypeOK
  <2>3. rule[2] = "required" => rule[1] \notin table.tested
    BY <2>1, <2>2 DEF ServiceAdmits, Breaks
  <2> QED
    BY <1>2, <2>2, <2>3 DEF Register
<1>3. ASSUME NEW j \in Ids, Redrive(j)
      PROVE  /\ loads' = loads
             /\ i \notin ruled'
             /\ rule[2] = "required" => rule[1] \notin table.tested
  <2>1. PICK text \in Row :
          /\ \A c \in table.columns \ table.rewritten : text[c] = row[j][c]
          /\ \A c \in table.rewritten \cap table.tested :
               text[c] \notin RuleBreakers("required")
          /\ row' = [row EXCEPT ![j] = text]
    BY <1>3 DEF Redrive
  <2>2. i = j /\ row'[i] = text
    BY <1>1, <2>1 DEF RowTypeOK
  <2>3. rule[1] \in table.rewritten
    BY <1>1, <2>1, <2>2 DEF Breaks
  <2>4. rule[2] = "required" => rule[1] \notin table.tested
    BY <2>1, <2>2, <2>3 DEF Breaks
  <2> QED
    BY <1>3, <2>2, <2>4 DEF Redrive
<1>4. ASSUME NEW j \in Ids, Post(j)
      PROVE  FALSE
  <2>1. PICK text \in CreateBodies :
          CreateAdmits(text) /\ row' = [row EXCEPT ![j] = text]
    BY <1>4 DEF Post
  <2>2. row'[i] = text
    BY <1>1, <2>1 DEF RowTypeOK
  <2> QED
    BY <2>1, <2>2 DEF CreateAdmits
<1>5. ASSUME NEW j \in Ids, Purge(j)
      PROVE  FALSE
  <2>1. row'[i] = NoText
    BY <1>1, <1>5 DEF Purge, RowTypeOK
  <2>2. row'[i][rule[1]] = "ok"
    BY <1>1, <2>1 DEF NoText
  <2> QED
    BY <1>1, <2>2, SoundTextPasses DEF Breaks
<1>6. ASSUME NEW q \in loads, Save(q)
      PROVE  \E p \in loads \ loads' : p.id = i /\ Breaks(p.before, rule)
  <2>1. PICK after \in Versions(q.before) :
          UpdateAdmits(q.before, after) /\ row' = [row EXCEPT ![q.id] = after]
    BY <1>6 DEF Save
  <2>2. i = q.id /\ row'[i] = after
    BY <1>1, <2>1 DEF RowTypeOK
  <2>3. q.before[rule[1]] = after[rule[1]]
    BY <2>1, <2>2 DEF UpdateAdmits
  <2>4. Breaks(q.before, rule)
    BY <2>2, <2>3 DEF Breaks
  <2>5. q \in loads \ loads'
    BY <1>6 DEF Save
  <2> QED
    BY <2>2, <2>4, <2>5
<1>7. ASSUME UNCHANGED row
      PROVE  FALSE
  BY <1>1, <1>7
<1> QED
  BY <1>2, <1>3, <1>4, <1>5, <1>6, <1>7
     DEF Next, SoftDelete, Restore, Load, Refuse, Migrate, Rollback

\* A row breaks a rule it did not break before only by a service write of a
\* column the service does not test, or by a save of what was broken when loaded.
THEOREM BreaksAreExplained == Spec => NoWriteAddsABreak
<1>1. RulesInv /\ [Next]_vars => [NewBreaksAreExplained]_vars
  BY StepExplainsBreaks
<1> QED
  BY <1>1, RulesInvariance, PTL DEF Spec, NoWriteAddsABreak

===============================================================================
