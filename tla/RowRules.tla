-------------------------------- MODULE RowRules --------------------------------
(***************************************************************************)
(* What keeps blank and over-long text out of edi.trading_partners and     *)
(* edi.edi_documents.  Three guards, of three origins, none of which knows *)
(* of the others:                                                          *)
(*   - the row rules of the generic service (TradingPartnerRowRules,       *)
(*     EdiDocumentRowRules), for POST, PUT and PATCH;                      *)
(*   - the blank tests of the write service (create_partner,               *)
(*     claim_and_settle), whose SQL does not pass through the rules;       *)
(*   - the CHECKs of the database, which a migration installs one by one   *)
(*     and only where no stored row breaks them: a table older than its    *)
(*     rules goes without.                                                 *)
(* The generic service is outside the repository.  Its update is taken to  *)
(* be what the trait signatures require: load the row, apply the DTO, show *)
(* the guard both versions, save the whole row.                            *)
(*                                                                         *)
(* Text is abstracted to what the guards tell apart:                       *)
(*   "ok", "blank" (spaces), "tabs" (white space, but not spaces only),    *)
(*   "long" (over the limit of the column)                                 *)
(***************************************************************************)
EXTENDS Naturals

CONSTANTS
  Tables,   \* the tables there are; the state is that of one of them
  Ids,      \* of rows; an id is never used again
  Requests  \* PUTs and PATCHes in progress

\* columns have rules; tested are those the write service tests for white space;
\* rewritten those it also writes to a stored row.
ASSUME TablesAssumption ==
  \A t \in Tables : /\ t.tested \subseteq t.columns
                    /\ t.rewritten \subseteq t.columns

VARIABLES
  table,   \* which table it is
  place,   \* of each id: "free", "live", "trash", or "gone" (purged)
  row,     \* what the ruled columns of each row contain
  checks,  \* the CHECKs installed
  loads,   \* what each PUT and PATCH loaded
  ruled    \* (history) rows that were written through the generic service only

vars == <<table, place, row, checks, loads, ruled>>

-------------------------------------------------------------------------------
(* The tables *)

PartnerTable ==
  [columns |-> {"name", "partner_code"}, tested |-> {"name", "partner_code"},
   rewritten |-> {}]

\* partner_id is ruled too, but a uuid is never blank.
DocumentTable ==
  [columns |-> {"control_number", "business_key", "payload"},
   tested |-> {"control_number", "business_key"},
   rewritten |-> {"control_number", "payload"}]

Contents == {"ok", "blank", "tabs", "long"}

Row == [table.columns -> Contents]

\* A row that is not there.
NoText == [c \in table.columns |-> "ok"]

Stored(i) == place[i] \in {"live", "trash"}

-------------------------------------------------------------------------------
(* The guards *)

Kinds == {"required", "max_length"}

Rules == table.columns \X Kinds

\* Mutant: a length is not looked at.
RuleBreakers_NoLength(kind) == IF kind = "required" THEN {"blank", "tabs"} ELSE {}

\* The rules trim white space of any kind...
RuleBreakers(kind) == IF kind = "required" THEN {"blank", "tabs"} ELSE {"long"}

\* ...btrim of the CHECKs trims spaces.
CheckBreakers(kind) == IF kind = "required" THEN {"blank"} ELSE {"long"}

Breaks(text, rule) == text[rule[1]] \in RuleBreakers(rule[2])

\* The CHECKs installed, on a row an INSERT or UPDATE would store.
Passes(text) ==
  \A rule \in checks : text[rule[1]] \notin CheckBreakers(rule[2])

\* WriteKind::Create: every rule is asked.
CreateAdmits(text) == \A rule \in Rules : ~Breaks(text, rule)

\* Mutant: an update is asked every rule, like a create.
UpdateAdmits_All(before, after) == \A rule \in Rules : ~Breaks(after, rule)

\* WriteKind::Update: only the rules of the columns it changes.
UpdateAdmits(before, after) ==
  \A rule \in Rules : before[rule[1]] # after[rule[1]] => ~Breaks(after, rule)

\* The blank tests of the write service.
ServiceAdmits(text) ==
  \A c \in table.tested : text[c] \notin RuleBreakers("required")

-------------------------------------------------------------------------------
(* The write service *)

\* Mutant: the write service leaves the blank tests to the rules.
Register_Untested(i) ==
  /\ place[i] = "free"
  /\ \E text \in Row :
       /\ Passes(text)
       /\ row' = [row EXCEPT ![i] = text]
  /\ place' = [place EXCEPT ![i] = "live"]
  /\ UNCHANGED <<table, checks, loads, ruled>>

\* create_partner and the claim of a document.  A registration that the tests, a
\* CHECK, the composer's unique partner code or an unknown enum value turn away
\* changes nothing.
Register(i) ==
  /\ place[i] = "free"
  /\ \E text \in Row :
       /\ ServiceAdmits(text)
       /\ Passes(text)
       /\ row' = [row EXCEPT ![i] = text]
  /\ place' = [place EXCEPT ![i] = "live"]
  /\ UNCHANGED <<table, checks, loads, ruled>>

\* reset_for_redrive: the envelope of the incoming copy, on a row in the trash too.
Redrive(i) ==
  /\ table.rewritten # {}
  /\ Stored(i)
  /\ \E text \in Row :
       /\ \A c \in table.columns \ table.rewritten : text[c] = row[i][c]
       /\ \A c \in table.rewritten \cap table.tested :
            text[c] \notin RuleBreakers("required")
       /\ Passes(text)
       /\ row' = [row EXCEPT ![i] = text]
  /\ ruled' = ruled \ {i}
  /\ UNCHANGED <<table, place, checks, loads>>

-------------------------------------------------------------------------------
(* The generic service *)

\* Every ruled column must be in a POST (its enum columns have defaults) and in
\* a PUT.
CreateBodies == [table.columns -> Contents]

UpdateBodies == [table.columns -> Contents]

\* In a PATCH a column may be left out, or be of a type that cannot be read.
PatchBodies == [table.columns -> Contents \cup {"unread"}]

\* Mutant: what cannot be read is stored all the same.
apply_patch_Unread(before, body) == body

apply_patch(before, body) ==
  [c \in table.columns |-> IF body[c] = "unread" THEN before[c] ELSE body[c]]

apply_update(before, body) == body

\* What an update may make of the row it loaded.
Versions(before) ==
  {apply_update(before, body) : body \in UpdateBodies}
    \cup {apply_patch(before, body) : body \in PatchBodies}

Post(i) ==
  /\ place[i] = "free"
  /\ \E text \in CreateBodies :
       /\ CreateAdmits(text)
       /\ Passes(text)
       /\ row' = [row EXCEPT ![i] = text]
  /\ place' = [place EXCEPT ![i] = "live"]
  /\ ruled' = ruled \cup {i}
  /\ UNCHANGED <<table, checks, loads>>

\* PUT and PATCH read the row...
Load(r, i) ==
  /\ \A q \in loads : q.request # r
  /\ place[i] = "live"
  /\ loads' = loads \cup {[request |-> r, id |-> i, before |-> row[i]]}
  /\ UNCHANGED <<table, place, row, checks, ruled>>

\* ...and save it by its id.  Whether a row that went to the trash in between is
\* found, and comes back with the metadata that was loaded, is not for this
\* repository to say.
Save(q) ==
  /\ Stored(q.id)
  /\ \E after \in Versions(q.before) :
       /\ UpdateAdmits(q.before, after)
       /\ Passes(after)
       /\ row' = [row EXCEPT ![q.id] = after]
  /\ place' \in {place, [place EXCEPT ![q.id] = "live"]}
  /\ loads' = loads \ {q}
  /\ UNCHANGED <<table, checks, ruled>>

\* Not found, a broken rule, or a broken CHECK (a database error).
Refuse(q) ==
  /\ \/ place[q.id] # "live"
     \/ \E after \in Versions(q.before) :
          ~UpdateAdmits(q.before, after) \/ ~Passes(after)
  /\ loads' = loads \ {q}
  /\ UNCHANGED <<table, place, row, checks, ruled>>

\* No guard is asked when a row goes to the trash or comes back.
SoftDelete(i) ==
  /\ place[i] = "live"
  /\ place' = [place EXCEPT ![i] = "trash"]
  /\ UNCHANGED <<table, row, checks, loads, ruled>>

Restore(i) ==
  /\ place[i] = "trash"
  /\ place' = [place EXCEPT ![i] = "live"]
  /\ UNCHANGED <<table, row, checks, loads, ruled>>

Purge(i) ==
  /\ place[i] = "trash"
  /\ place' = [place EXCEPT ![i] = "gone"]
  /\ row' = [row EXCEPT ![i] = NoText]
  /\ UNCHANGED <<table, checks, loads, ruled>>

-------------------------------------------------------------------------------
(* The migration *)

\* Mutant: only live rows are looked at.
Migrate_LiveOnly(rule) ==
  /\ rule \notin checks
  /\ \A i \in Ids : place[i] = "live" => row[i][rule[1]] \notin CheckBreakers(rule[2])
  /\ checks' = checks \cup {rule}
  /\ UNCHANGED <<table, place, row, loads, ruled>>

\* One DO block of the up migration: a CHECK that a stored row breaks is not
\* added, and nobody adds it later.
Migrate(rule) ==
  /\ rule \notin checks
  /\ \A i \in Ids : Stored(i) => row[i][rule[1]] \notin CheckBreakers(rule[2])
  /\ checks' = checks \cup {rule}
  /\ UNCHANGED <<table, place, row, loads, ruled>>

\* One line of the down migration.
Rollback(rule) ==
  /\ rule \in checks
  /\ checks' = checks \ {rule}
  /\ UNCHANGED <<table, place, row, loads, ruled>>

-------------------------------------------------------------------------------
\* The rows are older than the rules: any text may be in them.
Init ==
  /\ table \in Tables
  /\ place \in [Ids -> {"free", "live", "trash"}]
  /\ row \in [Ids -> Row]
  /\ \A i \in Ids : place[i] = "free" => row[i] = NoText
  /\ checks = {}
  /\ loads = {}
  /\ ruled = {}

Next ==
  \/ \E i \in Ids : Register(i) \/ Redrive(i)
  \/ \E i \in Ids : Post(i) \/ SoftDelete(i) \/ Restore(i) \/ Purge(i)
  \/ \E r \in Requests, i \in Ids : Load(r, i)
  \/ \E q \in loads : Save(q) \/ Refuse(q)
  \/ \E rule \in Rules : Migrate(rule) \/ Rollback(rule)

Spec == Init /\ [][Next]_vars

-------------------------------------------------------------------------------
RowTypeOK ==
  /\ table \in Tables
  /\ place \in [Ids -> {"free", "live", "trash", "gone"}]
  /\ row \in [Ids -> Row]
  /\ checks \subseteq Rules
  /\ loads \subseteq [request : Requests, id : Ids, before : Row]
  /\ ruled \subseteq Ids

\* Every stored row passes every CHECK that is installed, those in the trash
\* too: the migration's EXISTS and the CHECKs leave no gap for one another, so a
\* row can always be written back as it is.
InstalledChecksHold == \A i \in Ids : Stored(i) => Passes(row[i])

\* The rules answer before the database has to: a POST that they admit passes
\* every CHECK, and so does an update, unless it writes back a value it loaded
\* and somebody has mended since.
RulesShieldChecks ==
  /\ \A text \in CreateBodies : CreateAdmits(text) => Passes(text)
  /\ \A q \in loads : Stored(q.id) =>
       \A after \in Row :
         UpdateAdmits(q.before, after) /\ ~Passes(after) =>
           \E c \in table.columns :
             after[c] = q.before[c] /\ after[c] # row[q.id][c]

\* A row that breaks some rules can still be edited: any one column of it can be
\* given a sound text, whatever is in the others and whichever CHECKs the
\* migration has added.
LegacyRowsStayEditable ==
  \A i \in Ids, c \in table.columns : place[i] = "live" =>
    LET after == [row[i] EXCEPT ![c] = "ok"]
    IN  UpdateAdmits(row[i], after) /\ Passes(after)

\* The rules a row breaks grow in two ways only: the write service stores text it
\* does not test (then the row is not one the generic service answers for), or a
\* save brings back a text that broke the rule when it was loaded.
NewBreaksAreExplained ==
  \A i \in Ids, rule \in Rules :
    Breaks(row'[i], rule) /\ ~Breaks(row[i], rule) =>
      \/ \E q \in loads \ loads' : q.id = i /\ Breaks(q.before, rule)
      \/ /\ loads' = loads
         /\ i \notin ruled'
         /\ rule[2] = "required" => rule[1] \notin table.tested

NoWriteAddsABreak == [][NewBreaksAreExplained]_vars

===============================================================================
