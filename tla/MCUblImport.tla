------------------------------ MODULE MCUblImport ------------------------------
(* Every document that differs from a sound order in at most two fields. *)
EXTENDS UblImport

Change(part, n, f, values) ==
  {[part |-> part, n |-> n, field |-> f, value |-> v] : v \in values}

OrderChanges ==
  Change("order", 0, "customization", Code) \cup Change("order", 0, "id", Text)
    \cup Change("order", 0, "uuid", {"absent"}) \cup Change("order", 0, "issue_date", Date)
    \cup Change("order", 0, "currency", Code) \cup Change("order", 0, "delivery", Date)
    \cup Change("order", 0, "notes",
                {<<>>, <<"absent", "long", "ok">>, <<"ok", "absent", "long", "ok">>})

PartyChanges(part) ==
  Change(part, 0, "ident", Node) \cup Change(part, 0, "endpoint", Node)
    \cup Change(part, 0, "legal", {"none"}) \cup Change(part, 0, "name", Text)
    \cup Change(part, 0, "schemes", {{}, {"endpoint", "legal"}, {"ident"}})

TotalsChanges ==
  UNION {Change("totals", 0, f, Code) : f \in {"line_extension", "payable"}}

LineChanges(n) ==
  Change("line", n, "item", {"none"}) \cup Change("line", n, "number", Text)
    \cup Change("line", n, "seller", Text) \cup Change("line", n, "gtin", Text)
    \cup Change("line", n, "name", {"long"}) \cup Change("line", n, "qty", Amount)
    \cup Change("line", n, "price", Amount) \cup Change("line", n, "price_currency", Code)
    \cup Change("line", n, "base_qty", Amount) \cup Change("line", n, "amount", Code)
    \cup Change("line", n, "delivery", Date)

Changes ==
  OrderChanges \cup PartyChanges("buyer") \cup PartyChanges("seller")
    \cup TotalsChanges \cup LineChanges(1) \cup LineChanges(2)

Sound(n) ==
  [root |-> "order", order |-> GoodOrder, buyer |-> GoodParty, seller |-> GoodParty,
   totals |-> GoodTotals, lines |-> [i \in 1 .. n |-> GoodLine]]

Changed(d, c) ==
  CASE c.part = "order" -> [d EXCEPT !.order[c.field] = c.value]
    [] c.part = "buyer" -> [d EXCEPT !.buyer[c.field] = c.value]
    [] c.part = "seller" -> [d EXCEPT !.seller[c.field] = c.value]
    [] c.part = "totals" -> [d EXCEPT !.totals[c.field] = c.value]
    [] c.part = "line" /\ c.n \in DOMAIN d.lines ->
         [d EXCEPT !.lines[c.n][c.field] = c.value]
    [] OTHER -> d

MCDocuments ==
  {[Sound(1) EXCEPT !.root = r] : r \in {"malformed", "other"}}
    \cup {Changed(Changed(Sound(2), a), b) : a, b \in Changes}
    \cup {Changed(Sound(n), a) : n \in {0, 1, 3}, a \in Changes}

\* With a cap of 60 and a suffix of 9 bytes: items that just fit or just miss
\* after one another, that leave or do not leave room for the suffix, that are
\* too long alone, with two-byte characters in the way of the cut or not.
Wide(ascii, n) ==
  [bytes |-> ascii + 2 * n, inside |-> {ascii + 2 * i - 1 : i \in 1 .. n}]

MCItems ==
  {Ascii(20), Ascii(29), Ascii(40), Ascii(61), Wide(20, 16), Wide(21, 22)}

===============================================================================
