------------------------------- MODULE UblIntake -------------------------------
(***************************************************************************)
(* The way into the exchange.  receive_ubl_order reads the partner's row,  *)
(* checks it, measures and parses the document, and hands it to the claim  *)
(* or turns it away; receive_document takes parsed documents without any   *)
(* gate.  Composes EdiExchange (everything from the claim on) with UblOrder *)
(* (the parser) and UblRefusal (the line a refusal is recorded with).      *)
(*                                                                         *)
(* The partner's row changes under the calls: the generic CRUD surface     *)
(* updates and deletes it, and the gate is one statement, the claim        *)
(* another.                                                                *)
(***************************************************************************)
EXTENDS EdiExchange

CONSTANTS
  Partners,       \* the rows the partner may have
  Sent,           \* what partners send: the content of each named transmission
  MaxOrderLines,  \* of the parser
  MaxNotes,       \* of the parser
  Cap             \* of the refusal line

Parser == INSTANCE UblOrder

Renderer == INSTANCE UblRefusal

VARIABLES
  partner,  \* the row of edi.trading_partners all these calls name
  content,  \* the name of what each call delivers
  gate,     \* the partner row each call read
  intake    \* how far each call came before the exchange

intakeVars == <<partner, content, gate, intake>>

allVars == <<vars, intakeVars>>

-------------------------------------------------------------------------------
(* Partners and documents *)

Partner ==
  [status: {"active", "inactive"}, direction: {"both", "inbound", "outbound"},
   format: {"custom_json", "x12", "edifact", "csv", "ubl_bis3"}]

ASSUME PartnersAssumption == Partners \subseteq Partner

NoPartner == [status |-> "none", direction |-> "none", format |-> "none"]

\* Mutant: the direction a partner declares is not looked at.
Admits_AnyDirection(p) == p.status = "active" /\ p.format = "ubl_bis3"

Admits(p) ==
  /\ p.status = "active"
  /\ p.direction \in {"inbound", "both"}
  /\ p.format = "ubl_bis3"

\* size: "fits", "over_column" (the payload CHECK) or "over_budget"
\* (MAX_XML_BYTES).  xml is what the parser sees, items the texts its problems
\* render to.  A document of the other verb may have a blank control number or
\* business key.
IsUbl(m) == Sent[m].verb = "ubl"

Parsings == [m \in DOMAIN Sent |-> Parser!parse_ubl_order(Sent[m].xml)]

Parsed(m) == Parsings[m]

RefusedByParser(m) == IsUbl(m) /\ Parsed(m).problems # <<>>

Identified(m) == Sent[m].size # "over_budget" /\ Parsed(m).business_key

\* The transmissions whose refusal cannot be rendered: detail_line panics.
Panicking ==
  {m \in DOMAIN Sent : RefusedByParser(m) /\ Renderer!detail_line(Sent[m].items).panics}

Panics(m) == m \in Panicking

\* The CHECKs of the columns: the payload, and the control number, which is the
\* cbc:UUID (not measured by the parser) when there is one and the key when the
\* document is refused.
Storable(m) ==
  /\ Sent[m].size = "fits"
  /\ IsUbl(m) /\ ~RefusedByParser(m) => Sent[m].xml.order.uuid # "long"

\* The message of EdiExchange is what becomes of the content.
Delivers(c, m) ==
  /\ msg[c].refused = RefusedByParser(m)
  /\ IsUbl(m) => msg[c].doc_type = PurchaseOrder

-------------------------------------------------------------------------------
(* receive_ubl_order and receive_document, before the claim *)

IntakeInit ==
  /\ Init
  /\ partner \in Partners \cup {NoPartner}
  /\ content \in [Calls -> DOMAIN Sent]
  /\ \A c \in Calls : Delivers(c, content[c])
  /\ \A c \in Calls : Panics(content[c]) => c \in Fallible
  /\ gate = [c \in Calls |-> NoPartner]
  /\ intake = [c \in Calls |-> "arrived"]

Arrived(c) == pc[c] = "idle" /\ intake[c] = "arrived"

Answer(c, place) ==
  /\ intake' = [intake EXCEPT ![c] = place]
  /\ UNCHANGED <<vars, partner, content>>

ReadGate(c) == gate' = [gate EXCEPT ![c] = partner]

\* NotFound.
PartnerUnknown(c) ==
  /\ Arrived(c) /\ IsUbl(content[c])
  /\ partner = NoPartner
  /\ ReadGate(c)
  /\ Answer(c, "not_found")

\* Invalid.
PartnerUnfit(c) ==
  /\ Arrived(c) /\ IsUbl(content[c])
  /\ partner # NoPartner /\ ~Admits(partner)
  /\ ReadGate(c)
  /\ Answer(c, "invalid")

\* UblRefused: too large, or refused without a business key.  The panicking
\* rendering of a refusal returns nothing at all.
RefuseAnonymous(c) ==
  /\ Arrived(c) /\ IsUbl(content[c])
  /\ Admits(partner)
  /\ ~Identified(content[c])
  /\ ReadGate(c)
  /\ Answer(c, IF Sent[content[c]].size # "over_budget" /\ Panics(content[c])
                 THEN "panicked" ELSE "ubl_refused")

\* Parsed, or refused with a business key: on to the claim.  Nothing is awaited
\* between the gate's answer and the claim.
AdmitUbl(c) ==
  /\ Arrived(c) /\ IsUbl(content[c])
  /\ Admits(partner)
  /\ Identified(content[c])
  /\ ReadGate(c)
  /\ Answer(c, "admitted")

\* receive_document: the blank checks, and no gate.
TakeDocument(c) ==
  /\ Arrived(c) /\ ~IsUbl(content[c])
  /\ Answer(c, IF Sent[content[c]].blank THEN "invalid" ELSE "admitted")
  /\ UNCHANGED gate

Receive(c) ==
  \/ PartnerUnknown(c) \/ PartnerUnfit(c) \/ RefuseAnonymous(c)
  \/ AdmitUbl(c) \/ TakeDocument(c)

\* Mutant: the claim does not wait for the gate's answer.
Enter_Unadmitted(c) ==
  /\ intake[c] \in {"arrived", "admitted"}
  /\ Storable(content[c])
  /\ partner # NoPartner
  /\ Claim(c)
  /\ intake' = [intake EXCEPT ![c] = "entered"]
  /\ UNCHANGED <<partner, content, gate>>

\* The claim, when the row passes the CHECKs and the foreign key.
Enter(c) ==
  /\ intake[c] = "admitted"
  /\ Storable(content[c])
  /\ partner # NoPartner
  /\ Claim(c)
  /\ intake' = [intake EXCEPT ![c] = "entered"]
  /\ UNCHANGED <<partner, content, gate>>

\* The INSERT fails, whatever the dedup index would say: CHECKs come first, and
\* a deleted partner has no rows to conflict with.
ClaimFails(c) ==
  /\ intake[c] = "admitted"
  /\ ~Storable(content[c]) \/ partner = NoPartner
  /\ Answer(c, "db")
  /\ UNCHANGED gate

\* A call cut short before its claim.
Cut(c) ==
  /\ c \in Fallible
  /\ intake[c] = "admitted"
  /\ Answer(c, "cut")
  /\ UNCHANGED gate

-------------------------------------------------------------------------------
(* The exchange under the intake *)

\* Mutant: the row is marked before the line is rendered, and not in the
\* transaction.
Panic_Marks(c) ==
  /\ pc[c] = "refuse"
  /\ Panics(content[c])
  /\ c \in Fallible
  /\ Goto(c, "dead")
  /\ row' = [row EXCEPT ![KeyOf(c)] = FailedRow(@, c)]
  /\ intake' = [intake EXCEPT ![c] = "panicked"]
  /\ UNCHANGED <<outbox, orders, msg, doc, answer, reply, ackPending, published,
                 ackEvents, partner, content, gate>>

\* record_parse_failure renders the line before its UPDATE: the transaction is
\* dropped with the call.
Panic(c) ==
  /\ pc[c] = "refuse"
  /\ Panics(content[c])
  /\ Die(c)
  /\ intake' = [intake EXCEPT ![c] = "panicked"]
  /\ UNCHANGED <<partner, content, gate>>

Proceed(c) ==
  /\ ~(pc[c] = "refuse" /\ Panics(content[c]))
  /\ Step(c)
  /\ UNCHANGED intakeVars

Elsewhere ==
  /\ \/ \E c \in Calls : Die(c)
     \/ \E k \in Keys : Acknowledge(k)
     \/ \E a \in ackPending : PublishAck(a) \/ DropAck(a)
  /\ UNCHANGED intakeVars

\* No column of a partner is write-protected.
UpdatePartner ==
  /\ partner # NoPartner
  /\ partner' \in Partners \ {partner}
  /\ UNCHANGED <<vars, content, gate, intake>>

\* Hard delete, unless the foreign key of a document holds it.
DeletePartner ==
  /\ partner # NoPartner
  /\ \A k \in Keys : ~HasRow(k)
  /\ partner' = NoPartner
  /\ UNCHANGED <<vars, content, gate, intake>>

IntakeNext ==
  \/ \E c \in Calls :
       Receive(c) \/ Enter(c) \/ ClaimFails(c) \/ Cut(c) \/ Panic(c) \/ Proceed(c)
  \/ Elsewhere
  \/ UpdatePartner \/ DeletePartner

IntakeSpec == IntakeInit /\ [][IntakeNext]_allVars

-------------------------------------------------------------------------------
(* Properties *)

\* The core is used as it is specified: whatever comes through the door, what
\* happens in the table, the outbox and at the target is a behaviour of
\* EdiExchange, so its theorems hold of the whole service.
ImplementsExchange == Spec

\* c left something behind: its envelope in a row, its event in an outbox, its
\* order at the target.
Left(c) ==
  \/ \E k \in Keys : row[k].copy = c
  \/ \E d \in Calls : orders[d] = c \/ \E i \in DOMAIN outbox[d] : outbox[d][i].by = c

\* "the partner must be active, handle inbound, and declare ubl_bis3", "Nothing
\* persisted, no events": a UBL document leaves a trace only if the row its call
\* read declared all three, it was within the budget and could be identified, and
\* an order only if the parser accepted it.
TracesWereAdmitted ==
  \A c \in Calls : Left(c) /\ IsUbl(content[c]) =>
    /\ gate[c].status = "active"
    /\ gate[c].direction \in {"inbound", "both"}
    /\ gate[c].format = "ubl_bis3"
    /\ Sent[content[c]].size # "over_budget"
    /\ Parsed(content[c]).business_key
    /\ (\E d \in Calls : orders[d] = c) => Parsed(content[c]).problems = <<>>

\* "A refusal WITH a business key is DURABLE: the document is claimed, marked
\* failed with the joined detail line, and an EdiDocumentFailed event is staged"
\* (ADR-002): a call that admitted such a document and was not cut short ends
\* with the document settled.
IdentifiedRefusalsAreDurable ==
  \A c \in Calls :
    /\ RefusedByParser(content[c])
    /\ intake[c] \in {"db", "panicked"} \/ pc[c] = "done"
    /\ gate[c] # NoPartner /\ Admits(gate[c]) /\ Identified(content[c])
    => HasRow(KeyOf(c)) /\ outbox[row[KeyOf(c)].id] # <<>>

-------------------------------------------------------------------------------
(* The inductive invariant of the intake *)

Stages == {"arrived", "not_found", "invalid", "ubl_refused", "panicked",
           "admitted", "entered", "db", "cut"}

IntakeTypeOK ==
  /\ partner \in Partners \cup {NoPartner}
  /\ content \in [Calls -> DOMAIN Sent]
  /\ gate \in [Calls -> Partners \cup {NoPartner}]
  /\ intake \in [Calls -> Stages]

\* Only a call that entered leaves something behind, and it entered with a row of
\* the partner that admits it; a refused document never gets to the target.
IntakeInv ==
  /\ IntakeTypeOK
  /\ \A c \in Calls :
       /\ msg[c].refused = RefusedByParser(content[c])
       /\ Left(c) => pc[c] # "idle"
       /\ intake[c] = "admitted" \/ pc[c] # "idle" =>
            (IsUbl(content[c]) => Admits(gate[c]) /\ Identified(content[c]))
       /\ pc[c] = "map" \/ (\E d \in Calls : orders[d] = c) => ~msg[c].refused

-------------------------------------------------------------------------------
(* Liveness *)

IntakeFairness ==
  \A c \in Calls : WF_allVars(Enter(c) \/ ClaimFails(c) \/ Proceed(c) \/ Panic(c))

IntakeFairSpec == IntakeSpec /\ IntakeFairness

\* An admitted document that the table can store gets settled, unless its call is
\* cut short or its partner is deleted first.
AdmittedDocumentsSettle ==
  \A c \in Calls \ Fallible :
    intake[c] = "admitted" /\ Storable(content[c]) ~>
      \/ row[KeyOf(c)].status \in {"mapped", "failed", "acknowledged"}
      \/ intake[c] = "db" /\ partner = NoPartner

===============================================================================
