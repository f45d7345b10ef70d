------------------------------- MODULE UblOrder -------------------------------
(***************************************************************************)
(* parse_ubl_order: the structural validation of an inbound UBL BIS 3      *)
(* order.  Pure; every field is abstracted to the class of its content     *)
(* that the parser tells apart:                                            *)
(*   text    "absent" (or blank), "ok", "long" (over its budget)           *)
(*   date    "absent", "iso", "loose" (not yyyy-mm-dd, yet read by chrono),*)
(*           "bad"                                                         *)
(*   amount  "absent", "negative", "zero", "positive", "bad"               *)
(*   code    "absent", "ok", "bad" (a currency, the customization, an      *)
(*           amount whose sign nobody looks at)                            *)
(*   node    "none" (no element), "empty" (no text), "ok", "long"          *)
(***************************************************************************)
EXTENDS Naturals, Sequences, SequencesExt

CONSTANTS
  MaxOrderLines,  \* 500
  MaxNotes        \* 10

ASSUME MaxOrderLinesAssumption == MaxOrderLines \in Nat \ {0}
ASSUME MaxNotesAssumption == MaxNotes \in Nat

Text == {"absent", "ok", "long"}

Date == {"absent", "iso", "loose", "bad"}

Amount == {"absent", "negative", "zero", "positive", "bad"}

Code == {"absent", "ok", "bad"}

Node == {"none", "empty", "ok", "long"}

OrderFields ==
  [customization: Code, id: Text, uuid: Text, issue_date: Date, currency: Code,
   delivery: Date, notes: Seq(Text)]

\* The elements a party may be identified by.  schemes are those that carry a
\* schemeID which is not blank; the attribute is optional.
Identifiers == {"ident", "endpoint", "legal"}

Party ==
  [ident: Node, endpoint: Node, legal: Node, schemes: SUBSET Identifiers, name: Text]

Totals ==
  [line_extension: Code, tax_exclusive: Code, tax_inclusive: Code, payable: Code]

\* item is the cac:LineItem the other fields are read from.
OrderLine ==
  [item: {"none", "ok"}, number: Text, seller: Text, gtin: Text, name: Text,
   qty: Amount, price: Amount, price_currency: Code, base_qty: Amount, amount: Code,
   delivery: Date]

Document ==
  [root: {"malformed", "other", "order"}, order: OrderFields, buyer: Party,
   seller: Party, totals: Totals, lines: Seq(OrderLine)]

\* A problem: its code, and the element it names (n is the order line, else 0).
Problem(code, part, n, field) ==
  [code |-> code, part |-> part, n |-> n, field |-> field]

Report(bad, code, part, n, field) ==
  IF bad THEN <<Problem(code, part, n, field)>> ELSE <<>>

\* check_text_budget
OverBudget(v, part, n, field) == Report(v = "long", "id_too_long", part, n, field)

InvalidCurrency(v, part, n, field) ==
  Report(v = "bad", "invalid_currency", part, n, field)

\* parse_delivery_date: what chrono reads is accepted.
InvalidDelivery(v, part, n) ==
  Report(v = "bad", "invalid_delivery_date", part, n, "delivery")

InvalidAmount(v, part, n, field) ==
  Report(v = "bad", "invalid_line_amount", part, n, field)

-------------------------------------------------------------------------------
(* Parties: the id comes from the first element present, blank or not, and so   *)
(* does its scheme, if it has one.  A schemeID is told by the element that      *)
(* carries it.                                                                  *)

PartySource(p) ==
  IF p.ident # "none" THEN "ident" ELSE IF p.endpoint # "none" THEN "endpoint" ELSE "legal"

NodeText(node) == IF node \in {"none", "empty"} THEN "absent" ELSE node

\* node_attr of schemeID
SchemeOf(p, element) ==
  IF p[element] # "none" /\ element \in p.schemes THEN element ELSE "absent"

PartyId(p) == NodeText(p[PartySource(p)])

\* Mutant: the scheme is always read from the EndpointID.
ParsedParty_EndpointScheme(p) ==
  [id |-> PartyId(p), scheme |-> SchemeOf(p, "endpoint"),
   endpoint_id |-> NodeText(p.endpoint), endpoint_scheme |-> SchemeOf(p, "endpoint"),
   name |-> p.name]

ParsedParty(p) ==
  [id |-> PartyId(p), scheme |-> SchemeOf(p, PartySource(p)),
   endpoint_id |-> NodeText(p.endpoint), endpoint_scheme |-> SchemeOf(p, "endpoint"),
   name |-> p.name]

parse_party(p, part) ==
  OverBudget(PartyId(p), part, 0, "id") \o OverBudget(p.name, part, 0, "name")

parse_totals(t) ==
  InvalidAmount(t.line_extension, "totals", 0, "line_extension")
    \o InvalidAmount(t.tax_exclusive, "totals", 0, "tax_exclusive")
    \o InvalidAmount(t.tax_inclusive, "totals", 0, "tax_inclusive")
    \o InvalidAmount(t.payable, "totals", 0, "payable")

-------------------------------------------------------------------------------
(* Order lines *)

\* The seller's code is preferred, the GTIN stands in for it.
ItemId(l) == IF l.seller # "absent" THEN l.seller ELSE l.gtin

ItemIdSource(l) == IF l.seller # "absent" THEN "seller_assigned" ELSE "standard_gtin"

QuantityUsable(l) == l.qty = "positive"

\* An explicit zero is a free sample.
PriceUsable(l) == l.price \in {"zero", "positive"}

Usable(l) == ItemId(l) # "absent" /\ QuantityUsable(l) /\ PriceUsable(l)

\* Mutant: the first unusable field ends the line.
LineProblems_Early(l, n) ==
  CASE ItemId(l) = "absent" ->
         <<Problem("missing_item_identifier", "line", n, "seller")>>
    [] OTHER ->
         Report(l.qty = "absent", "missing_line_quantity", "line", n, "qty")
           \o Report(l.qty \in {"negative", "zero", "bad"}, "invalid_line_quantity",
                     "line", n, "qty")
           \o Report(l.price = "absent", "missing_line_price", "line", n, "price")
           \o Report(l.price \in {"negative", "bad"}, "invalid_line_price", "line", n,
                     "price")

\* Mutant: a line without a price is dropped, and nobody is told.
LineProblems_Silent(l, n) ==
  Report(ItemId(l) = "absent", "missing_item_identifier", "line", n, "seller")
    \o Report(l.qty = "absent", "missing_line_quantity", "line", n, "qty")
    \o Report(l.qty \in {"negative", "zero", "bad"}, "invalid_line_quantity", "line",
              n, "qty")
    \o Report(l.price \in {"negative", "bad"}, "invalid_line_price", "line", n, "price")

\* parse_line, its problems in source order.
LineProblems(l, n) ==
  Report(ItemId(l) = "absent", "missing_item_identifier", "line", n, "seller")
    \o Report(l.qty = "absent", "missing_line_quantity", "line", n, "qty")
    \o Report(l.qty \in {"negative", "zero", "bad"}, "invalid_line_quantity", "line",
              n, "qty")
    \o Report(l.price = "absent", "missing_line_price", "line", n, "price")
    \o Report(l.price \in {"negative", "bad"}, "invalid_line_price", "line", n, "price")
    \o InvalidCurrency(l.price_currency, "line", n, "price_currency")
    \o Report(l.base_qty \in {"negative", "zero", "bad"}, "invalid_base_quantity",
              "line", n, "base_qty")
    \o InvalidAmount(l.amount, "line", n, "amount")
    \o InvalidDelivery(l.delivery, "line", n)
    \o OverBudget(l.number, "line", n, "number")
    \o OverBudget(ItemId(l), "line", n, "seller")
    \o OverBudget(l.gtin, "line", n, "gtin")
    \o OverBudget(l.name, "line", n, "name")

\* What an unusable line leaves behind is nothing, whatever was reported of it.
ParsedLine(l) ==
  IF l.item = "none" \/ ~Usable(l) THEN <<>>
  ELSE <<[line_number |-> l.number, item_id |-> ItemId(l), item_id_source |-> ItemIdSource(l),
          gtin |-> l.gtin, item_name |-> l.name, qty |-> l.qty, unit_price |-> l.price,
          price_currency |-> l.price_currency,
          base_qty |-> IF l.base_qty = "positive" THEN "positive" ELSE "absent",
          line_amount |-> l.amount, requested_delivery_date |-> l.delivery]>>

OrderLineProblems(l, n) ==
  IF l.item = "none" THEN <<Problem("missing_order_line", "line", n, "item")>>
  ELSE LineProblems(l, n)

LinesProblems(lines) ==
  FlattenSeq([n \in DOMAIN lines |-> OrderLineProblems(lines[n], n)])

LineCountProblems(lines) ==
  Report(lines = <<>>, "missing_order_line", "order", 0, "lines")
    \o Report(Len(lines) > MaxOrderLines, "too_many_lines", "order", 0, "lines")

-------------------------------------------------------------------------------
(* The document *)

\* cbc:ID is the business key when it is present and fits the column.
UsableId(o) == o.id = "ok"

DateParsed(v) == v \in {"iso", "loose"}

IdProblems(o) ==
  Report(o.id = "absent", "missing_document_id", "order", 0, "id")
    \o Report(o.id = "long", "id_too_long", "order", 0, "id")

\* Mutant: a malformed issue date is tolerated like a missing one.
IssueDateProblems_Lenient(o) ==
  Report(o.issue_date = "absent", "missing_issue_date", "order", 0, "issue_date")

IssueDateProblems(o) ==
  Report(o.issue_date = "absent", "missing_issue_date", "order", 0, "issue_date")
    \o Report(o.issue_date = "bad", "invalid_issue_date", "order", 0, "issue_date")

\* In the order of parse_ubl_order.
OrderProblems(d) ==
  Report(d.order.customization = "bad", "unsupported_customization", "order", 0,
         "customization")
    \o IdProblems(d.order)
    \o IssueDateProblems(d.order)
    \o InvalidCurrency(d.order.currency, "order", 0, "currency")
    \o InvalidDelivery(d.order.delivery, "order", 0)
    \o parse_party(d.buyer, "buyer")
    \o parse_party(d.seller, "seller")
    \o parse_totals(d.totals)
    \o LineCountProblems(d.lines)
    \o LinesProblems(d.lines)

\* The notes that say something, as many as the budget allows, each cut to length.
Notes(o) ==
  LET said == SelectSeq(o.notes, LAMBDA note : note # "absent")
  IN  [i \in 1 .. (IF Len(said) < MaxNotes THEN Len(said) ELSE MaxNotes) |->
         IF said[i] = "long" THEN "cut" ELSE said[i]]

NoOrder == [id |-> "none"]

\* The order built from a document without a problem; the two expects of the
\* parser would panic on an id or a date that is not there.
ParsedOrder(d) ==
  [id |-> d.order.id, uuid |-> d.order.uuid, customization |-> d.order.customization,
   issue_date |-> d.order.issue_date, currency |-> d.order.currency,
   requested_delivery_date |-> d.order.delivery, notes |-> Notes(d.order),
   control_number |-> IF d.order.uuid # "absent" THEN "uuid" ELSE "id",
   buyer |-> ParsedParty(d.buyer), seller |-> ParsedParty(d.seller),
   lines |-> FlattenSeq([n \in DOMAIN d.lines |-> ParsedLine(d.lines[n])]),
   totals |-> d.totals,
   warnings |-> IF d.order.customization = "absent"
                  THEN {"missing_customization_id"} ELSE {}]

Refused(problems, key) ==
  [problems |-> problems, business_key |-> key, order |-> NoOrder]

\* Mutant: the key is only kept by documents without a problem of their own.
Key_OfSound(d) == UsableId(d.order) /\ IssueDateProblems(d.order) = <<>>

Key(d) == UsableId(d.order)

\* business_key tells whether cbc:ID is carried out of a refusal.
parse_ubl_order(d) ==
  CASE d.root = "malformed" ->
         Refused(<<Problem("xml_malformed", "order", 0, "root")>>, FALSE)
    [] d.root = "other" ->
         Refused(<<Problem("wrong_root_element", "order", 0, "root")>>, FALSE)
    [] d.root = "order" /\ OrderProblems(d) # <<>> ->
         Refused(OrderProblems(d), Key(d))
    [] OTHER ->
         [problems |-> <<>>, business_key |-> TRUE, order |-> ParsedOrder(d)]

===============================================================================
