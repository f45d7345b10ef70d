------------------------------ MODULE UblPayload ------------------------------
(***************************************************************************)
(* to_payload: the canonical payload, which is all that the target ever    *)
(* reads of an accepted order; and what a host's MappingPort makes of it.  *)
(* An absent optional is "null", every other value the class UblOrder read *)
(* in the document; a date is written out again, in the ISO form.          *)
(***************************************************************************)
EXTENDS UblOrder

NoPayload == [kind |-> "none"]

Optional(v) == IF v = "absent" THEN "null" ELSE v

\* NaiveDate is formatted, whatever spelling it was read from.
DateStr(v) == IF DateParsed(v) THEN "iso" ELSE "null"

PayloadDocument(o) ==
  [id |-> o.id, uuid |-> Optional(o.uuid), customization_id |-> Optional(o.customization),
   issue_date |-> DateStr(o.issue_date), currency |-> Optional(o.currency),
   requested_delivery_date |-> DateStr(o.requested_delivery_date), notes |-> o.notes]

PayloadBuyer(p) == [f \in DOMAIN p |-> Optional(p[f])]

\* The endpoint of the seller is parsed and left out.
PayloadSeller(p) == [f \in {"id", "scheme", "name"} |-> Optional(p[f])]

PayloadLine(l) ==
  [l EXCEPT !.gtin = Optional(@), !.item_name = Optional(@), !.base_qty = Optional(@),
            !.price_currency = Optional(@), !.line_amount = Optional(@),
            !.requested_delivery_date = DateStr(@)]

to_payload(o) ==
  [kind |-> "ubl_bis3_order", document |-> PayloadDocument(o),
   buyer |-> PayloadBuyer(o.buyer), seller |-> PayloadSeller(o.seller),
   lines |-> [n \in DOMAIN o.lines |-> PayloadLine(o.lines[n])],
   totals |-> [f \in DOMAIN o.totals |-> Optional(o.totals[f])],
   warnings |-> o.warnings]

-------------------------------------------------------------------------------
(* The adapter of a selling host, as the seam test builds it *)

\* What does not parse as an amount becomes zero.
AmountOrZero(v) == IF v \in {"negative", "zero", "positive"} THEN v ELSE "zero"

\* The adapter answers bad_payload without reaching its own service.
BadPayload(p) ==
  \/ p.kind # "ubl_bis3_order"
  \/ p.document.id = "null"
  \/ ~DateParsed(p.document.issue_date)
  \/ p.document.requested_delivery_date # "null"
     /\ ~DateParsed(p.document.requested_delivery_date)
  \/ p.lines = <<>>

HostLine(l) ==
  [quantity |-> AmountOrZero(l.qty), unit_price |-> AmountOrZero(l.unit_price),
   description |-> l.item_name]

HostOrder(p) ==
  [order_date |-> p.document.issue_date, currency |-> p.document.currency,
   delivery_date |-> p.document.requested_delivery_date,
   lines |-> [n \in DOMAIN p.lines |-> HostLine(p.lines[n])]]

===============================================================================
