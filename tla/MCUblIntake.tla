------------------------------ MODULE MCUblIntake ------------------------------
(* Transmissions of every kind the intake tells apart.                         *)
EXTENDS UblIntake, TLC

\* One that is admitted, and one for each reason not to be.
MCPartners ==
  {[status |-> "active", direction |-> "inbound", format |-> "ubl_bis3"],
   [status |-> "inactive", direction |-> "both", format |-> "ubl_bis3"],
   [status |-> "active", direction |-> "outbound", format |-> "ubl_bis3"],
   [status |-> "active", direction |-> "both", format |-> "x12"]}

GoodLine ==
  [item |-> "ok", number |-> "ok", seller |-> "ok", gtin |-> "absent", name |-> "ok",
   qty |-> "positive", price |-> "positive", price_currency |-> "ok",
   base_qty |-> "absent", amount |-> "ok", delivery |-> "iso"]

GoodParty ==
  [ident |-> "ok", endpoint |-> "ok", legal |-> "ok", schemes |-> {"ident"},
   name |-> "ok"]

Good ==
  [root |-> "order",
   order |-> [customization |-> "ok", id |-> "ok", uuid |-> "ok", issue_date |-> "iso",
              currency |-> "ok", delivery |-> "iso", notes |-> <<>>],
   buyer |-> GoodParty, seller |-> GoodParty,
   totals |-> [f \in {"line_extension", "tax_exclusive", "tax_inclusive", "payable"} |-> "ok"],
   lines |-> <<GoodLine>>]

\* Two problems, so that the first can be cut.
Refused == [Good EXCEPT !.lines[1].qty = "bad", !.lines[1].price = "absent"]

Anonymous == [Refused EXCEPT !.order.id = "long", !.lines[1].price = "zero"]

Ubl(xml, size, items) ==
  [verb |-> "ubl", size |-> size, xml |-> xml, items |-> items, blank |-> FALSE]

Other(blank, size) ==
  [verb |-> "document", size |-> size, xml |-> Good, items |-> <<>>, blank |-> blank]

Short == <<Renderer!Ascii(10), Renderer!Ascii(10)>>

\* A cap of 30 leaves room for 21 bytes before the suffix, and byte 21 is inside
\* a character of the first text.
Broken == <<[bytes |-> 31, inside |-> {21}], Renderer!Ascii(10)>>

MCSent ==
  [valid |-> Ubl(Good, "fits", <<>>),
   valid_large |-> Ubl(Good, "over_column", <<>>),
   too_large |-> Ubl(Good, "over_budget", <<>>),
   valid_long_uuid |-> Ubl([Good EXCEPT !.order.uuid = "long"], "fits", <<>>),
   refused |-> Ubl(Refused, "fits", Short),
   refused_large |-> Ubl(Refused, "over_column", Short),
   refused_broken |-> Ubl(Refused, "fits", Broken),
   anonymous |-> Ubl(Anonymous, "fits", Short),
   parsed |-> Other(FALSE, "fits"),
   blank |-> Other(TRUE, "fits")]

===============================================================================
