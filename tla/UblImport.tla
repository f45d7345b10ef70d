------------------------------- MODULE UblImport -------------------------------
(***************************************************************************)
(* What receive_ubl_order does with the bytes of a document before the     *)
(* exchange sees it: parse and validate, write the canonical payload, or   *)
(* render the refusal.  Composes UblOrder (parser.rs), UblPayload          *)
(* (payload.rs) and UblRefusal (error.rs): the sizes of the rendered       *)
(* problems depend on what the partner wrote, so each problem may render   *)
(* to any of the given Items; to one over the cap only when its detail     *)
(* repeats text of the partner.                                            *)
(***************************************************************************)
EXTENDS UblPayload, UblRefusal

CONSTANTS
  Documents,  \* the documents a partner sends
  Items       \* the texts a rendered problem may have

ASSUME DocumentsAssumption == Documents \subseteq Document

\* A rendered problem is a code, an element and a detail, and so longer than a
\* suffix; and a character begins with its first byte.
ASSUME ItemsAssumption ==
  \A item \in Items :
    /\ item \in Rendering /\ item.bytes > LongestSuffix
    /\ item.inside \subseteq 1 .. item.bytes - 1

VARIABLES
  doc,     \* the document received
  result,  \* what the parser made of it
  payload, \* the canonical payload, once it is written
  items,   \* the rendered problems
  line     \* the joined line

vars == <<doc, result, payload, items, line>>

NoResult == [problems |-> <<>>, business_key |-> FALSE, order |-> NoOrder]

Init ==
  /\ doc \in Documents
  /\ result = NoResult
  /\ payload = NoPayload
  /\ items = <<>>
  /\ line = Line(Empty, 0, 0)

Parse ==
  /\ result = NoResult
  /\ result' = parse_ubl_order(doc)
  /\ UNCHANGED <<doc, payload, items, line>>

\* What is handed to the claim, and so to the target.
WritePayload ==
  /\ result.order # NoOrder
  /\ payload = NoPayload
  /\ payload' = to_payload(result.order)
  /\ UNCHANGED <<doc, result, items, line>>

\* The problems whose detail quotes what the partner wrote.  The details of the
\* others are fixed sentences with at most a count or a budget in them.
Quoting ==
  {"xml_malformed", "wrong_root_element", "unsupported_customization",
   "invalid_issue_date", "invalid_currency", "invalid_delivery_date",
   "invalid_line_quantity", "invalid_line_price", "invalid_base_quantity",
   "invalid_line_amount"}

\* What code[field]: detail may be: UblFieldError and the item of detail_line.
TextsOf(p) == IF p.code \in Quoting THEN Items ELSE {item \in Items : item.bytes <= Cap}

\* Both refusal paths, stored or returned, render the same line.
Render ==
  /\ result.problems # <<>>
  /\ items = <<>>
  /\ items' \in [DOMAIN result.problems -> Items]
  /\ \A i \in DOMAIN items' : items'[i] \in TextsOf(result.problems[i])
  /\ line' = detail_line(items')
  /\ UNCHANGED <<doc, result, payload>>

Next == Parse \/ WritePayload \/ Render

Spec == Init /\ [][Next]_vars

-------------------------------------------------------------------------------
(* The parser *)

Accepted == result.order # NoOrder

\* The two expects of the parser hold: whenever no problem was collected, the id
\* and the issue date are there.  (Each is guarded by a report somewhere else.)
AcceptedOrdersAreBuilt ==
  Accepted => result.order.id = "ok" /\ DateParsed(result.order.issue_date)

Written == payload # NoPayload

\* A host that reads the payload takes the order it was sent: the dates are in the
\* one form it parses, and every line of the document is there, with the quantity
\* and the price that were written.  A line that could not be used is a reported
\* problem, never an order silently one line short, or free of charge because the
\* host's adapter puts zero for what it cannot read.
NoLineIsLost ==
  Written =>
    LET host == HostOrder(payload) IN
    /\ ~BadPayload(payload)
    /\ host.order_date = "iso" /\ host.delivery_date \in {"iso", "null"}
    /\ Len(host.lines) = Len(doc.lines)
    /\ \A n \in DOMAIN host.lines :
         /\ host.lines[n].quantity = doc.lines[n].qty /\ doc.lines[n].qty = "positive"
         /\ host.lines[n].unit_price = doc.lines[n].price

\* What is told of a party is one of the identities it sent, with that identity's
\* scheme if it has one.
TellsAnIdentity(told, sent) ==
  /\ told.scheme # "null" =>
       /\ told.scheme \in sent.schemes
       /\ told.id = Optional(NodeText(sent[told.scheme]))
  /\ told.scheme = "null" /\ told.id # "null" =>
       \E element \in Identifiers \ sent.schemes : told.id = sent[element]

\* The payload says where its identities come from, and they are those of the
\* document: a scheme that is told is that of the element the id was read from, an
\* id without a scheme is that of an element without one (never does an id lose its
\* scheme, or get that of another element), and a buyer that an empty
\* PartyIdentification hides from the id is still named by its endpoint; an item is
\* labelled by the element that gave its code, and its GTIN is there even when the
\* seller's code was preferred.
PayloadKeepsIdentities ==
  Written =>
    /\ \A part \in {"buyer", "seller"} : TellsAnIdentity(payload[part], doc[part])
    /\ doc.buyer.ident = "ok" \/ doc.buyer.endpoint = "ok" =>
         "ok" \in {payload.buyer.id, payload.buyer.endpoint_id}
    /\ \A n \in DOMAIN payload.lines :
         LET sent == doc.lines[n]
             told == payload.lines[n]
         IN  /\ told.gtin = Optional(sent.gtin)
             /\ told.item_id =
                  IF told.item_id_source = "seller_assigned" THEN sent.seller ELSE sent.gtin
             /\ told.item_id # "absent"

GoodLine ==
  [item |-> "ok", number |-> "ok", seller |-> "ok", gtin |-> "absent", name |-> "ok",
   qty |-> "positive", price |-> "positive", price_currency |-> "ok",
   base_qty |-> "absent", amount |-> "ok", delivery |-> "iso"]

GoodOrder ==
  [customization |-> "ok", id |-> "ok", uuid |-> "ok", issue_date |-> "iso",
   currency |-> "ok", delivery |-> "iso", notes |-> <<"ok">>]

GoodParty ==
  [ident |-> "ok", endpoint |-> "ok", legal |-> "ok", schemes |-> Identifiers,
   name |-> "ok"]

GoodTotals ==
  [line_extension |-> "ok", tax_exclusive |-> "ok", tax_inclusive |-> "ok",
   payable |-> "ok"]

Named(part, n, field) ==
  \E i \in DOMAIN result.problems :
    LET p == result.problems[i]
    IN  p.part = part /\ p.n = n /\ p.field = field

\* The document with every element that was reported put right, and no other.
MendedParty(p, part) ==
  IF Named(part, 0, "id")
    THEN [GoodParty EXCEPT !.name = IF Named(part, 0, "name") THEN "ok" ELSE p.name]
    ELSE [p EXCEPT !.name = IF Named(part, 0, "name") THEN "ok" ELSE @]

MendedLine(l, n) ==
  IF Named("line", n, "item") THEN GoodLine
  ELSE [f \in DOMAIN l |-> IF Named("line", n, f) THEN GoodLine[f] ELSE l[f]]

MendedLines(lines) ==
  LET mended == [n \in DOMAIN lines |-> MendedLine(lines[n], n)] IN
  IF ~Named("order", 0, "lines") THEN mended
  ELSE IF lines = <<>> THEN <<GoodLine>> ELSE SubSeq(mended, 1, MaxOrderLines)

Mended(d) ==
  [root |-> d.root,
   order |-> [f \in DOMAIN d.order |->
                IF Named("order", 0, f) THEN GoodOrder[f] ELSE d.order[f]],
   buyer |-> MendedParty(d.buyer, "buyer"),
   seller |-> MendedParty(d.seller, "seller"),
   totals |-> [f \in DOMAIN d.totals |->
                 IF Named("totals", 0, f) THEN GoodTotals[f] ELSE d.totals[f]],
   lines |-> MendedLines(d.lines)]

\* "ALL collected problems are reported together, never one at a time": a
\* partner who puts right exactly what the refusal of an Order names has a
\* document that is accepted, and needs no second round.
OneRoundOfCorrections ==
  result.problems # <<>> /\ doc.root = "order" =>
    parse_ubl_order(Mended(doc)).problems = <<>>

\* A refusal is either durable or names what makes the document impossible to
\* identify: malformed, not an Order, or its own id missing or too long.  A long
\* item name (also id_too_long) never costs the partner its negative answer.
AnonymousRefusalsAreExplained ==
  result.problems # <<>> =>
    (~result.business_key <=>
      \E i \in DOMAIN result.problems :
        LET p == result.problems[i] IN
        \/ p.code \in {"xml_malformed", "wrong_root_element", "missing_document_id"}
        \/ p.code = "id_too_long" /\ p.part = "order")

-------------------------------------------------------------------------------
(* The line *)

Rendered == items # <<>> /\ ~line.panics

\* Every problem has its beginning (and so its code) in the line, or is one of
\* those the suffix counts.
EveryProblemIsAccountedFor ==
  Rendered =>
    Cardinality({i \in DOMAIN items : Offset(items, i) < line.kept}) + line.hidden
      = Len(items)

\* Only a refusal with one single problem can exceed the cap: joining and
\* counting never push the line over it.
JoiningKeepsTheCap ==
  Rendered /\ Chars(line.text) > Cap => Len(items) = 1

\* Nothing is counted that could have been shown: the first problem left out
\* would have pushed the line over the cap.
NothingIsElidedNeedlessly ==
  Rendered /\ line.hidden > 0 =>
    Offset(items, Len(items) - line.hidden + 2) - 2 > Cap

-------------------------------------------------------------------------------
(* What the repository says and the code does not do *)

\* "Single-line rendering shaped for the error_detail column (max 1000 chars)": the
\* line of a refusal that is recorded, which takes a business key, fits it.
LinesFitTheColumn ==
  Rendered /\ result.business_key => Chars(line.text) <= Cap

===============================================================================
