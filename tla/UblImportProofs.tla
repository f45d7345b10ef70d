---------------------------- MODULE UblImportProofs ----------------------------
(***************************************************************************)
(* What the parser reports and builds, what the payload keeps of it and    *)
(* what the refusal line says, for every document, every limit and every   *)
(* cap.  The state machine has one step per function, so its invariant     *)
(* only says that each variable is what its function makes of the earlier  *)
(* ones; the work is in the lemmas on those functions.                     *)
(***************************************************************************)
EXTENDS UblImport, UblRefusalProofs

-------------------------------------------------------------------------------
(* Lists of problems *)

\* The list is of these problems, and of all of them.
Collects(list, set) == list \in Seq(set) /\ Range(list) = set

Told(bad, code, part, n, field) == IF bad THEN {Problem(code, part, n, field)} ELSE {}

LEMMA ReportCollects ==
  ASSUME NEW bad, NEW code, NEW part, NEW n, NEW field
  PROVE  Collects(Report(bad, code, part, n, field), Told(bad, code, part, n, field))
<1>1. CASE bad
  <2> DEFINE p == Problem(code, part, n, field)
  <2> HIDE DEF p
  <2>1. <<p>> \in Seq({p}) /\ Range(<<p>>) = {p}
    BY DEF Range
  <2> QED
    BY <1>1, <2>1 DEF Report, Told, Collects, p
<1>2. CASE ~bad
  <2>1. Collects(<<>>, {})
    BY DEF Collects, Range
  <2> QED
    BY <1>2, <2>1 DEF Report, Told
<1> QED
  BY <1>1, <1>2

LEMMA BothCollect ==
  ASSUME NEW s, NEW S, Collects(s, S), NEW t, NEW T, Collects(t, T)
  PROVE  Collects(s \o t, S \cup T)
<1>1. s \in Seq(S \cup T) /\ t \in Seq(S \cup T)
  BY DEF Collects
<1>2. s \o t \in Seq(S \cup T)
  BY <1>1, ConcatProperties
<1>3. Range(s \o t) = Range(s) \cup Range(t)
  BY <1>1, RangeConcatenation
<1> QED
  BY <1>2, <1>3 DEF Collects

LEMMA FourMoreCollect ==
  ASSUME NEW r, NEW R, Collects(r, R), NEW s, NEW S, Collects(s, S),
         NEW t, NEW T, Collects(t, T), NEW u, NEW U, Collects(u, U),
         NEW v, NEW V, Collects(v, V)
  PROVE  Collects(r \o s \o t \o u \o v, R \cup S \cup T \cup U \cup V)
<1>1. Collects(r \o s, R \cup S)
  BY BothCollect
<1>2. Collects(r \o s \o t, R \cup S \cup T)
  BY <1>1, BothCollect
<1>3. Collects(r \o s \o t \o u, R \cup S \cup T \cup U)
  BY <1>2, BothCollect
<1> QED
  BY <1>3, BothCollect

LEMMA NothingCollected ==
  ASSUME NEW s, NEW S, Collects(s, S)
  PROVE  s = <<>> <=> S = {}
BY EmptyRange DEF Collects

-------------------------------------------------------------------------------
(* What is reported of an order line, and of the fields of the document *)

LineReports(l, n) ==
  Told(ItemId(l) = "absent", "missing_item_identifier", "line", n, "seller")
    \cup Told(l.qty = "absent", "missing_line_quantity", "line", n, "qty")
    \cup Told(l.qty \in {"negative", "zero", "bad"}, "invalid_line_quantity", "line",
              n, "qty")
    \cup Told(l.price = "absent", "missing_line_price", "line", n, "price")
    \cup Told(l.price \in {"negative", "bad"}, "invalid_line_price", "line", n, "price")
    \cup Told(l.price_currency = "bad", "invalid_currency", "line", n, "price_currency")
    \cup Told(l.base_qty \in {"negative", "zero", "bad"}, "invalid_base_quantity",
              "line", n, "base_qty")
    \cup Told(l.amount = "bad", "invalid_line_amount", "line", n, "amount")
    \cup Told(l.delivery = "bad", "invalid_delivery_date", "line", n, "delivery")
    \cup Told(l.number = "long", "id_too_long", "line", n, "number")
    \cup Told(ItemId(l) = "long", "id_too_long", "line", n, "seller")
    \cup Told(l.gtin = "long", "id_too_long", "line", n, "gtin")
    \cup Told(l.name = "long", "id_too_long", "line", n, "name")

LEMMA LineCollects ==
  ASSUME NEW l, NEW n
  PROVE  Collects(LineProblems(l, n), LineReports(l, n))
<1> DEFINE noItem == ItemId(l) = "absent"
           noQty == l.qty = "absent"
           badQty == l.qty \in {"negative", "zero", "bad"}
           noPrice == l.price = "absent"
           badPrice == l.price \in {"negative", "bad"}
           badCurrency == l.price_currency = "bad"
           badBase == l.base_qty \in {"negative", "zero", "bad"}
           badAmount == l.amount = "bad"
           badDelivery == l.delivery = "bad"
           longNumber == l.number = "long"
           longItem == ItemId(l) = "long"
           longGtin == l.gtin = "long"
           longName == l.name = "long"
           five == Report(noItem, "missing_item_identifier", "line", n, "seller")
                     \o Report(noQty, "missing_line_quantity", "line", n, "qty")
                     \o Report(badQty, "invalid_line_quantity", "line", n, "qty")
                     \o Report(noPrice, "missing_line_price", "line", n, "price")
                     \o Report(badPrice, "invalid_line_price", "line", n, "price")
           nine == five \o Report(badCurrency, "invalid_currency", "line", n, "price_currency")
                     \o Report(badBase, "invalid_base_quantity", "line", n, "base_qty")
                     \o Report(badAmount, "invalid_line_amount", "line", n, "amount")
                     \o Report(badDelivery, "invalid_delivery_date", "line", n, "delivery")
           toldFive == Told(noItem, "missing_item_identifier", "line", n, "seller")
                     \cup Told(noQty, "missing_line_quantity", "line", n, "qty")
                     \cup Told(badQty, "invalid_line_quantity", "line", n, "qty")
                     \cup Told(noPrice, "missing_line_price", "line", n, "price")
                     \cup Told(badPrice, "invalid_line_price", "line", n, "price")
           toldNine == toldFive
                     \cup Told(badCurrency, "invalid_currency", "line", n, "price_currency")
                     \cup Told(badBase, "invalid_base_quantity", "line", n, "base_qty")
                     \cup Told(badAmount, "invalid_line_amount", "line", n, "amount")
                     \cup Told(badDelivery, "invalid_delivery_date", "line", n, "delivery")
<1> HIDE DEF noItem, noQty, badQty, noPrice, badPrice, badCurrency, badBase, badAmount,
             badDelivery, longNumber, longItem, longGtin, longName
<1>1. Collects(five, toldFive)
  BY ReportCollects, FourMoreCollect
<1> HIDE DEF five, toldFive
<1>2. Collects(nine, toldNine)
  BY <1>1, ReportCollects, FourMoreCollect
<1> HIDE DEF nine, toldNine
<1>3. Collects(nine \o Report(longNumber, "id_too_long", "line", n, "number")
                 \o Report(longItem, "id_too_long", "line", n, "seller")
                 \o Report(longGtin, "id_too_long", "line", n, "gtin")
                 \o Report(longName, "id_too_long", "line", n, "name"),
               toldNine \cup Told(longNumber, "id_too_long", "line", n, "number")
                 \cup Told(longItem, "id_too_long", "line", n, "seller")
                 \cup Told(longGtin, "id_too_long", "line", n, "gtin")
                 \cup Told(longName, "id_too_long", "line", n, "name"))
  BY <1>2, ReportCollects, FourMoreCollect
<1> QED
  BY <1>3 DEF LineProblems, LineReports, InvalidCurrency, InvalidAmount, InvalidDelivery,
              OverBudget, five, nine, toldFive, toldNine, noItem, noQty, badQty, noPrice,
              badPrice, badCurrency, badBase, badAmount, badDelivery, longNumber,
              longItem, longGtin, longName

OneLineReports(l, n) ==
  IF l.item = "none" THEN {Problem("missing_order_line", "line", n, "item")}
  ELSE LineReports(l, n)

LinesReports(lines) == UNION {OneLineReports(lines[n], n) : n \in DOMAIN lines}

LEMMA OneLineCollects ==
  ASSUME NEW l, NEW n
  PROVE  Collects(OrderLineProblems(l, n), OneLineReports(l, n))
<1>1. CASE l.item = "none"
  <2> DEFINE missing == TRUE
  <2>1. Collects(Report(missing, "missing_order_line", "line", n, "item"),
                 Told(missing, "missing_order_line", "line", n, "item"))
    <3> HIDE DEF missing
    <3> QED
      BY ReportCollects
  <2> QED
    BY <1>1, <2>1 DEF OrderLineProblems, OneLineReports, Report, Told
<1>2. CASE l.item # "none"
  BY <1>2, LineCollects DEF OrderLineProblems, OneLineReports
<1> QED
  BY <1>1, <1>2

LEMMA LinesCollect ==
  ASSUME NEW lines, Len(lines) \in Nat, DOMAIN lines = 1 .. Len(lines)
  PROVE  Collects(LinesProblems(lines), LinesReports(lines))
<1> DEFINE lists == [n \in DOMAIN lines |-> OrderLineProblems(lines[n], n)]
           S == LinesReports(lines)
<1>1. ASSUME NEW n \in DOMAIN lines
      PROVE  lists[n] \in Seq(S) /\ Range(lists[n]) = OneLineReports(lines[n], n)
  <2>1. Collects(lists[n], OneLineReports(lines[n], n))
    BY OneLineCollects
  <2>2. OneLineReports(lines[n], n) \subseteq S
    BY DEF LinesReports
  <2> HIDE DEF S, lists
  <2> QED
    BY <2>1, <2>2 DEF Collects
<1> HIDE DEF S
<1>2. lists \in Seq(Seq(S)) /\ DOMAIN lists = DOMAIN lines
  BY <1>1
<1>3. LinesProblems(lines) = FlattenSeq(lists)
  BY DEF LinesProblems
<1> HIDE DEF lists
<1>4. /\ FlattenSeq(lists) \in Seq(S)
      /\ Range(FlattenSeq(lists)) = UNION {Range(lists[n]) : n \in DOMAIN lists}
  BY <1>2, FlattenCollects
<1>5. UNION {Range(lists[n]) : n \in DOMAIN lists} = S
  BY <1>1, <1>2 DEF LinesReports, S
<1> QED
  BY <1>3, <1>4, <1>5 DEF Collects, S

PartyReports(p, part) ==
  Told(PartyId(p) = "long", "id_too_long", part, 0, "id")
    \cup Told(p.name = "long", "id_too_long", part, 0, "name")

LEMMA PartyCollects ==
  ASSUME NEW p, NEW part
  PROVE  Collects(parse_party(p, part), PartyReports(p, part))
<1> DEFINE longId == PartyId(p) = "long"
           longName == p.name = "long"
<1> HIDE DEF longId, longName
<1>1. Collects(Report(longId, "id_too_long", part, 0, "id")
                 \o Report(longName, "id_too_long", part, 0, "name"),
               Told(longId, "id_too_long", part, 0, "id")
                 \cup Told(longName, "id_too_long", part, 0, "name"))
  BY ReportCollects, BothCollect
<1> QED
  BY <1>1 DEF parse_party, PartyReports, OverBudget, longId, longName

TotalsReports(t) ==
  Told(t.line_extension = "bad", "invalid_line_amount", "totals", 0, "line_extension")
    \cup Told(t.tax_exclusive = "bad", "invalid_line_amount", "totals", 0, "tax_exclusive")
    \cup Told(t.tax_inclusive = "bad", "invalid_line_amount", "totals", 0, "tax_inclusive")
    \cup Told(t.payable = "bad", "invalid_line_amount", "totals", 0, "payable")

LEMMA TotalsCollect ==
  ASSUME NEW t
  PROVE  Collects(parse_totals(t), TotalsReports(t))
<1> DEFINE first == t.line_extension = "bad"
           second == t.tax_exclusive = "bad"
           third == t.tax_inclusive = "bad"
           fourth == t.payable = "bad"
           two == Report(first, "invalid_line_amount", "totals", 0, "line_extension")
                    \o Report(second, "invalid_line_amount", "totals", 0, "tax_exclusive")
           toldTwo == Told(first, "invalid_line_amount", "totals", 0, "line_extension")
                    \cup Told(second, "invalid_line_amount", "totals", 0, "tax_exclusive")
           three == two \o Report(third, "invalid_line_amount", "totals", 0, "tax_inclusive")
           toldThree ==
             toldTwo \cup Told(third, "invalid_line_amount", "totals", 0, "tax_inclusive")
<1> HIDE DEF first, second, third, fourth
<1>1. Collects(two, toldTwo)
  BY ReportCollects, BothCollect
<1> HIDE DEF two, toldTwo
<1>2. Collects(three, toldThree)
  BY <1>1, ReportCollects, BothCollect
<1> HIDE DEF three, toldThree
<1>3. Collects(three \o Report(fourth, "invalid_line_amount", "totals", 0, "payable"),
               toldThree \cup Told(fourth, "invalid_line_amount", "totals", 0, "payable"))
  BY <1>2, ReportCollects, BothCollect
<1> QED
  BY <1>3 DEF parse_totals, TotalsReports, InvalidAmount, first, second, third, fourth,
              two, toldTwo, three, toldThree

HeaderReports(d) ==
  Told(d.order.customization = "bad", "unsupported_customization", "order", 0,
       "customization")
    \cup Told(d.order.id = "absent", "missing_document_id", "order", 0, "id")
    \cup Told(d.order.id = "long", "id_too_long", "order", 0, "id")
    \cup Told(d.order.issue_date = "absent", "missing_issue_date", "order", 0, "issue_date")
    \cup Told(d.order.issue_date = "bad", "invalid_issue_date", "order", 0, "issue_date")
    \cup Told(d.order.currency = "bad", "invalid_currency", "order", 0, "currency")
    \cup Told(d.order.delivery = "bad", "invalid_delivery_date", "order", 0, "delivery")
    \cup Told(d.lines = <<>>, "missing_order_line", "order", 0, "lines")
    \cup Told(Len(d.lines) > MaxOrderLines, "too_many_lines", "order", 0, "lines")

\* Everything that is reported of a document.
Reported(d) ==
  HeaderReports(d) \cup PartyReports(d.buyer, "buyer") \cup PartyReports(d.seller, "seller")
    \cup TotalsReports(d.totals) \cup LinesReports(d.lines)

LEMMA OrderCollects ==
  ASSUME NEW d, Len(d.lines) \in Nat, DOMAIN d.lines = 1 .. Len(d.lines)
  PROVE  Collects(OrderProblems(d), Reported(d))
<1> DEFINE customization == d.order.customization = "bad"
           noId == d.order.id = "absent"
           longId == d.order.id = "long"
           noDate == d.order.issue_date = "absent"
           badDate == d.order.issue_date = "bad"
           badCurrency == d.order.currency = "bad"
           badDelivery == d.order.delivery = "bad"
           noLine == d.lines = <<>>
           manyLines == Len(d.lines) > MaxOrderLines
           first == Report(customization, "unsupported_customization", "order", 0,
                           "customization")
           toldFirst == Told(customization, "unsupported_customization", "order", 0,
                             "customization")
           ids == Told(noId, "missing_document_id", "order", 0, "id")
                    \cup Told(longId, "id_too_long", "order", 0, "id")
           dates == Told(noDate, "missing_issue_date", "order", 0, "issue_date")
                      \cup Told(badDate, "invalid_issue_date", "order", 0, "issue_date")
           currency == Told(badCurrency, "invalid_currency", "order", 0, "currency")
           delivery == Told(badDelivery, "invalid_delivery_date", "order", 0, "delivery")
           count == Told(noLine, "missing_order_line", "order", 0, "lines")
                      \cup Told(manyLines, "too_many_lines", "order", 0, "lines")
           buyer == PartyReports(d.buyer, "buyer")
           seller == PartyReports(d.seller, "seller")
           five == first \o IdProblems(d.order) \o IssueDateProblems(d.order)
                     \o InvalidCurrency(d.order.currency, "order", 0, "currency")
                     \o InvalidDelivery(d.order.delivery, "order", 0)
           nine == five \o parse_party(d.buyer, "buyer") \o parse_party(d.seller, "seller")
                     \o parse_totals(d.totals) \o LineCountProblems(d.lines)
           toldFive == toldFirst \cup ids \cup dates \cup currency \cup delivery
           toldNine == toldFive \cup buyer \cup seller \cup TotalsReports(d.totals) \cup count
<1> HIDE DEF customization, noId, longId, noDate, badDate, badCurrency, badDelivery,
             noLine, manyLines
<1>1. Collects(first, toldFirst)
  BY ReportCollects
<1>2. Collects(IdProblems(d.order), ids)
  <2>1. Collects(Report(noId, "missing_document_id", "order", 0, "id")
                   \o Report(longId, "id_too_long", "order", 0, "id"), ids)
    BY ReportCollects, BothCollect
  <2> HIDE DEF ids
  <2> QED
    BY <2>1 DEF IdProblems, noId, longId
<1>3. Collects(IssueDateProblems(d.order), dates)
  <2>1. Collects(Report(noDate, "missing_issue_date", "order", 0, "issue_date")
                   \o Report(badDate, "invalid_issue_date", "order", 0, "issue_date"), dates)
    BY ReportCollects, BothCollect
  <2> HIDE DEF dates
  <2> QED
    BY <2>1 DEF IssueDateProblems, noDate, badDate
<1>4. Collects(InvalidCurrency(d.order.currency, "order", 0, "currency"), currency)
  <2>1. Collects(Report(badCurrency, "invalid_currency", "order", 0, "currency"), currency)
    BY ReportCollects
  <2> HIDE DEF currency
  <2> QED
    BY <2>1 DEF InvalidCurrency, badCurrency
<1>5. Collects(InvalidDelivery(d.order.delivery, "order", 0), delivery)
  <2>1. Collects(Report(badDelivery, "invalid_delivery_date", "order", 0, "delivery"),
                 delivery)
    BY ReportCollects
  <2> HIDE DEF delivery
  <2> QED
    BY <2>1 DEF InvalidDelivery, badDelivery
<1>6. Collects(LineCountProblems(d.lines), count)
  <2>1. Collects(Report(noLine, "missing_order_line", "order", 0, "lines")
                   \o Report(manyLines, "too_many_lines", "order", 0, "lines"), count)
    BY ReportCollects, BothCollect
  <2> HIDE DEF count
  <2> QED
    BY <2>1 DEF LineCountProblems, noLine, manyLines
<1>7. /\ Collects(parse_party(d.buyer, "buyer"), buyer)
      /\ Collects(parse_party(d.seller, "seller"), seller)
      /\ Collects(parse_totals(d.totals), TotalsReports(d.totals))
      /\ Collects(LinesProblems(d.lines), LinesReports(d.lines))
  BY PartyCollects, TotalsCollect, LinesCollect
<1> HIDE DEF first, toldFirst, ids, dates, currency, delivery, count, buyer, seller
<1>8. Collects(five, toldFive)
  BY <1>1, <1>2, <1>3, <1>4, <1>5, FourMoreCollect
<1> HIDE DEF five, toldFive
<1>9. Collects(nine, toldNine)
  BY <1>6, <1>7, <1>8, FourMoreCollect
<1> HIDE DEF nine, toldNine
<1>10. Collects(nine \o LinesProblems(d.lines), toldNine \cup LinesReports(d.lines))
  BY <1>7, <1>9, BothCollect
<1>11. OrderProblems(d) = nine \o LinesProblems(d.lines)
  BY DEF OrderProblems, nine, five, first, customization
<1>12. toldNine \cup LinesReports(d.lines) = Reported(d)
  BY DEF Reported, HeaderReports, toldNine, toldFive, toldFirst, ids, dates, currency,
         delivery, count, buyer, seller, customization, noId, longId, noDate, badDate,
         badCurrency, badDelivery, noLine, manyLines
<1> QED
  BY <1>10, <1>11, <1>12

-------------------------------------------------------------------------------
(* A document without a problem *)

LEMMA DocumentLines ==
  ASSUME NEW d \in Document
  PROVE  /\ d.lines \in Seq(OrderLine) /\ Len(d.lines) \in Nat
         /\ DOMAIN d.lines = 1 .. Len(d.lines)
         /\ \A n \in DOMAIN d.lines : d.lines[n] \in OrderLine
<1>1. d.lines \in Seq(OrderLine)
  BY DEF Document
<1> QED
  BY <1>1

LEMMA SoundLine ==
  ASSUME NEW l \in OrderLine, NEW n, OneLineReports(l, n) = {}
  PROVE  l.item # "none" /\ Usable(l)
<1>1. l.item # "none" /\ LineReports(l, n) = {}
  BY DEF OneLineReports
<1>2. /\ ~(ItemId(l) = "absent") /\ ~(l.qty = "absent")
      /\ ~(l.qty \in {"negative", "zero", "bad"}) /\ ~(l.price = "absent")
      /\ ~(l.price \in {"negative", "bad"})
  BY <1>1 DEF LineReports, Told
<1>3. l.qty \in Amount /\ l.price \in Amount
  BY DEF OrderLine
<1> QED
  BY <1>1, <1>2, <1>3 DEF Usable, QuantityUsable, PriceUsable, Amount

\* A document nothing is reported of has all that the order is built from.
LEMMA SoundDocument ==
  ASSUME NEW d \in Document, OrderProblems(d) = <<>>
  PROVE  /\ d.order.id = "ok" /\ DateParsed(d.order.issue_date)
         /\ d.order.delivery \in {"absent", "iso", "loose"}
         /\ d.lines # <<>>
         /\ \A n \in DOMAIN d.lines : d.lines[n].item # "none" /\ Usable(d.lines[n])
<1>1. Collects(OrderProblems(d), Reported(d))
  BY DocumentLines, OrderCollects
<1>2. HeaderReports(d) = {} /\ LinesReports(d.lines) = {}
  <2>1. Reported(d) = {}
    BY <1>1, NothingCollected
  <2> QED
    BY <2>1 DEF Reported
<1>3. /\ ~(d.order.id = "absent") /\ ~(d.order.id = "long")
      /\ ~(d.order.issue_date = "absent") /\ ~(d.order.issue_date = "bad")
      /\ ~(d.order.delivery = "bad") /\ ~(d.lines = <<>>)
  BY <1>2 DEF HeaderReports, Told
<1>4. d.order.id \in Text /\ d.order.issue_date \in Date /\ d.order.delivery \in Date
  BY DEF Document, OrderFields
<1>5. ASSUME NEW n \in DOMAIN d.lines
      PROVE  d.lines[n].item # "none" /\ Usable(d.lines[n])
  <2>1. OneLineReports(d.lines[n], n) = {}
    BY <1>2 DEF LinesReports
  <2> QED
    BY <2>1, DocumentLines, SoundLine
<1> QED
  BY <1>3, <1>4, <1>5 DEF Text, Date, DateParsed

\* Every line of such a document is a line of the order, in its place.
LEMMA EveryLineIsKept ==
  ASSUME NEW d \in Document, OrderProblems(d) = <<>>
  PROVE  LET lines == ParsedOrder(d).lines IN
         /\ Len(lines) = Len(d.lines) /\ DOMAIN lines = DOMAIN d.lines
         /\ \A n \in DOMAIN d.lines : lines[n] = ParsedLine(d.lines[n])[1]
         /\ \A n \in DOMAIN d.lines : ParsedLine(d.lines[n]) # <<>>
<1> DEFINE T == {ParsedLine(d.lines[n])[1] : n \in DOMAIN d.lines}
           lists == [n \in DOMAIN d.lines |-> ParsedLine(d.lines[n])]
<1>1. ASSUME NEW n \in DOMAIN d.lines
      PROVE  ParsedLine(d.lines[n]) \in Seq(T) /\ Len(ParsedLine(d.lines[n])) = 1
  <2>1. d.lines[n].item # "none" /\ Usable(d.lines[n])
    BY SoundDocument
  <2>2. \E x : ParsedLine(d.lines[n]) = <<x>>
    BY <2>1 DEF ParsedLine
  <2>3. PICK x : ParsedLine(d.lines[n]) = <<x>>
    BY <2>2
  <2>4. x \in T
    BY <2>3
  <2> HIDE DEF T
  <2> QED
    BY <2>3, <2>4
<1> HIDE DEF T
<1>2. lists \in Seq(Seq(T)) /\ DOMAIN lists = DOMAIN d.lines /\ Len(lists) = Len(d.lines)
  BY <1>1, DocumentLines
<1>3. \A n \in DOMAIN lists : Len(lists[n]) = 1
  BY <1>1, <1>2
<1>4. ParsedOrder(d).lines = FlattenSeq(lists)
  BY DEF ParsedOrder
<1>5. \A n \in DOMAIN d.lines : lists[n] = ParsedLine(d.lines[n])
  OBVIOUS
<1> HIDE DEF lists
<1>6. /\ FlattenSeq(lists) \in Seq(T) /\ Len(FlattenSeq(lists)) = Len(lists)
      /\ \A n \in DOMAIN lists : FlattenSeq(lists)[n] = lists[n][1]
  BY <1>2, <1>3, FlattenSingletons
<1>7. DOMAIN FlattenSeq(lists) = DOMAIN d.lines
  BY <1>2, <1>6, DocumentLines
<1>8. \A n \in DOMAIN d.lines : ParsedLine(d.lines[n]) # <<>>
  BY <1>1
<1> QED
  BY <1>2, <1>4, <1>5, <1>6, <1>7, <1>8

-------------------------------------------------------------------------------
(* The state machine *)

\* Each variable is what its function makes of the earlier ones.
ImportInv ==
  /\ doc \in Documents
  /\ result \in {NoResult, parse_ubl_order(doc)}
  /\ payload # NoPayload => result.order # NoOrder /\ payload = to_payload(result.order)
  /\ items \in Seq(Items)
  /\ items # <<>> => IsItems(items) /\ line = detail_line(items)

LEMMA ParseResults ==
  ASSUME NEW d \in Document
  PROVE  /\ parse_ubl_order(d).order # NoOrder =>
              /\ d.root = "order" /\ OrderProblems(d) = <<>>
              /\ parse_ubl_order(d).order = ParsedOrder(d)
         /\ d.root = "order" => parse_ubl_order(d).problems = OrderProblems(d)
         /\ d.root = "order" /\ OrderProblems(d) # <<>> =>
              parse_ubl_order(d).business_key = UsableId(d.order)
         /\ d.root = "malformed" =>
              parse_ubl_order(d) =
                Refused(<<Problem("xml_malformed", "order", 0, "root")>>, FALSE)
         /\ d.root = "other" =>
              parse_ubl_order(d) =
                Refused(<<Problem("wrong_root_element", "order", 0, "root")>>, FALSE)
<1>1. d.root \in {"malformed", "other", "order"}
  BY DEF Document
<1>2. CASE d.root = "malformed"
  BY <1>2 DEF parse_ubl_order, Refused
<1>3. CASE d.root = "other"
  BY <1>3 DEF parse_ubl_order, Refused
<1>4. CASE d.root = "order" /\ OrderProblems(d) # <<>>
  BY <1>4 DEF parse_ubl_order, Refused, Key
<1>5. CASE d.root = "order" /\ OrderProblems(d) = <<>>
  BY <1>5 DEF parse_ubl_order
<1> QED
  BY <1>1, <1>2, <1>3, <1>4, <1>5

LEMMA ProblemsAreListed ==
  ASSUME ImportInv
  PROVE  Len(result.problems) \in Nat /\ DOMAIN result.problems = 1 .. Len(result.problems)
<1>1. doc \in Document
  BY DocumentsAssumption DEF ImportInv
<1>2. CASE result = NoResult
  BY <1>2 DEF NoResult
<1>3. CASE result = parse_ubl_order(doc) /\ doc.root = "order"
  <2>1. Collects(result.problems, Reported(doc))
    BY <1>1, <1>3, ParseResults, DocumentLines, OrderCollects
  <2> QED
    BY <2>1 DEF Collects
<1>4. CASE result = parse_ubl_order(doc) /\ doc.root # "order"
  <2>1. \E p : result.problems = <<p>>
    BY <1>1, <1>4, ParseResults DEF Refused, Document
  <2> QED
    BY <2>1
<1> QED
  BY <1>2, <1>3, <1>4 DEF ImportInv

LEMMA InitImportInv == Init => ImportInv
BY DEF Init, ImportInv

LEMMA NextImportInv == ImportInv /\ [Next]_vars => ImportInv'
<1> SUFFICES ASSUME ImportInv, [Next]_vars PROVE ImportInv'
  OBVIOUS
<1>1. ASSUME Parse PROVE ImportInv'
  <2>1. payload = NoPayload
    BY <1>1 DEF Parse, ImportInv, NoResult
  <2> QED
    BY <1>1, <2>1 DEF Parse, ImportInv
<1>2. ASSUME WritePayload PROVE ImportInv'
  BY <1>2 DEF WritePayload, ImportInv
<1>3. ASSUME Render PROVE ImportInv'
  <2>1. items' \in Seq(Items) /\ IsItems(items')
    <3>1. DOMAIN items' = 1 .. Len(result.problems) /\ Len(result.problems) \in Nat
      BY <1>3, ProblemsAreListed DEF Render
    <3>2. items' \in Seq(Items) /\ Len(items') = Len(result.problems)
      BY <1>3, <3>1, ProblemsAreListed DEF Render
    <3>3. \A i \in 1 .. Len(items') : IsItem(items'[i])
      BY <3>2, ItemsAssumption DEF IsItem
    <3> QED
      BY <3>1, <3>2, <3>3 DEF IsItems
  <2> QED
    BY <1>3, <2>1 DEF Render, ImportInv
<1>4. ASSUME UNCHANGED vars PROVE ImportInv'
  BY <1>4 DEF vars, ImportInv
<1> QED
  BY <1>1, <1>2, <1>3, <1>4 DEF Next

\* On every run the result is the parser's, the payload is the order's and the line
\* is rendered from the problems: nothing is recomputed from what has changed since.
THEOREM ImportInvariance == Spec => []ImportInv
<1> QED
  BY InitImportInv, NextImportInv, PTL DEF Spec

-------------------------------------------------------------------------------
(* The parser and the payload *)

LEMMA AcceptedIsSound ==
  ASSUME ImportInv, Accepted
  PROVE  /\ doc \in Document /\ OrderProblems(doc) = <<>>
         /\ result.order = ParsedOrder(doc)
<1>1. doc \in Document /\ result = parse_ubl_order(doc)
  BY DocumentsAssumption DEF ImportInv, Accepted, NoResult
<1> QED
  BY <1>1, ParseResults DEF Accepted

LEMMA InvBuilds == ImportInv => AcceptedOrdersAreBuilt
<1> SUFFICES ASSUME ImportInv, Accepted
             PROVE  result.order.id = "ok" /\ DateParsed(result.order.issue_date)
  BY DEF AcceptedOrdersAreBuilt
<1>1. /\ doc \in Document /\ OrderProblems(doc) = <<>>
      /\ result.order = ParsedOrder(doc)
  BY AcceptedIsSound
<1>2. /\ result.order.id = doc.order.id
      /\ result.order.issue_date = doc.order.issue_date
  BY <1>1 DEF ParsedOrder
<1> QED
  BY <1>1, <1>2, SoundDocument

\* The two expects of the parser never fail: every accepted document has an id and
\* an issue date.
THEOREM AcceptedAreBuilt == Spec => []AcceptedOrdersAreBuilt
<1> QED
  BY ImportInvariance, InvBuilds, PTL

LEMMA WrittenIsSound ==
  ASSUME ImportInv, Written
  PROVE  /\ doc \in Document /\ OrderProblems(doc) = <<>>
         /\ payload = to_payload(ParsedOrder(doc))
BY AcceptedIsSound DEF ImportInv, Written, Accepted

LEMMA PayloadLineTells ==
  ASSUME NEW l, l.item # "none", Usable(l)
  PROVE  LET told == PayloadLine(ParsedLine(l)[1]) IN
         /\ told.qty = l.qty /\ told.unit_price = l.price
         /\ told.gtin = Optional(l.gtin)
         /\ told.item_id = ItemId(l) /\ told.item_id_source = ItemIdSource(l)
<1> DEFINE parsed == ParsedLine(l)[1]
<1>1. parsed = [line_number |-> l.number, item_id |-> ItemId(l),
                item_id_source |-> ItemIdSource(l), gtin |-> l.gtin, item_name |-> l.name,
                qty |-> l.qty, unit_price |-> l.price, price_currency |-> l.price_currency,
                base_qty |-> IF l.base_qty = "positive" THEN "positive" ELSE "absent",
                line_amount |-> l.amount, requested_delivery_date |-> l.delivery]
  BY DEF ParsedLine
<1> HIDE DEF parsed
<1> DEFINE told == PayloadLine(parsed)
<1>2. /\ told.qty = parsed.qty /\ told.unit_price = parsed.unit_price
      /\ told.gtin = Optional(parsed.gtin)
      /\ told.item_id = parsed.item_id /\ told.item_id_source = parsed.item_id_source
  BY <1>1 DEF PayloadLine
<1> HIDE DEF told
<1>3. /\ told.qty = l.qty /\ told.unit_price = l.price
      /\ told.gtin = Optional(l.gtin)
      /\ told.item_id = ItemId(l) /\ told.item_id_source = ItemIdSource(l)
  BY <1>1, <1>2
<1> QED
  BY <1>3 DEF told, parsed

\* Line by line, the payload is the document.
LEMMA PayloadLinesTell ==
  ASSUME NEW d \in Document, OrderProblems(d) = <<>>
  PROVE  LET lines == to_payload(ParsedOrder(d)).lines IN
         /\ DOMAIN lines = DOMAIN d.lines /\ Len(lines) = Len(d.lines) /\ lines # <<>>
         /\ \A n \in DOMAIN d.lines :
              /\ lines[n].qty = d.lines[n].qty /\ lines[n].unit_price = d.lines[n].price
              /\ lines[n].gtin = Optional(d.lines[n].gtin)
              /\ lines[n].item_id = ItemId(d.lines[n])
              /\ lines[n].item_id_source = ItemIdSource(d.lines[n])
<1> DEFINE order == ParsedOrder(d)
           lines == to_payload(order).lines
<1>1. lines = [n \in DOMAIN order.lines |-> PayloadLine(order.lines[n])]
  <2> HIDE DEF order
  <2> QED
    BY DEF to_payload
<1>2. /\ Len(d.lines) \in Nat /\ DOMAIN d.lines = 1 .. Len(d.lines) /\ d.lines # <<>>
      /\ d.lines \in Seq(OrderLine)
  BY DocumentLines, SoundDocument
<1>3. /\ DOMAIN order.lines = DOMAIN d.lines
      /\ \A n \in DOMAIN d.lines : order.lines[n] = ParsedLine(d.lines[n])[1]
  BY EveryLineIsKept
<1> HIDE DEF order, lines
<1>4. DOMAIN lines = 1 .. Len(d.lines) /\ Len(lines) = Len(d.lines)
  BY <1>1, <1>2, <1>3
<1>5. lines # <<>>
  BY <1>2, <1>4
<1>6. \A n \in DOMAIN d.lines : lines[n] = PayloadLine(ParsedLine(d.lines[n])[1])
  BY <1>1, <1>3
<1>7. ASSUME NEW n \in DOMAIN d.lines
      PROVE  /\ lines[n].qty = d.lines[n].qty /\ lines[n].unit_price = d.lines[n].price
             /\ lines[n].gtin = Optional(d.lines[n].gtin)
             /\ lines[n].item_id = ItemId(d.lines[n])
             /\ lines[n].item_id_source = ItemIdSource(d.lines[n])
  <2>1. d.lines[n].item # "none" /\ Usable(d.lines[n])
    BY SoundDocument
  <2> QED
    BY <1>6, <2>1, PayloadLineTells
<1> QED
  BY <1>2, <1>4, <1>5, <1>7 DEF order, lines

LEMMA InvKeepsLines == ImportInv => NoLineIsLost
<1> DEFINE host == HostOrder(payload)
<1> SUFFICES ASSUME ImportInv, Written
             PROVE  /\ ~BadPayload(payload)
                    /\ host.order_date = "iso" /\ host.delivery_date \in {"iso", "null"}
                    /\ Len(host.lines) = Len(doc.lines)
                    /\ \A n \in DOMAIN host.lines :
                         /\ host.lines[n].quantity = doc.lines[n].qty
                         /\ doc.lines[n].qty = "positive"
                         /\ host.lines[n].unit_price = doc.lines[n].price
  BY DEF NoLineIsLost
<1> DEFINE order == ParsedOrder(doc)
<1>1. doc \in Document /\ OrderProblems(doc) = <<>> /\ payload = to_payload(order)
  BY WrittenIsSound
<1>2. /\ order.id = doc.order.id /\ order.issue_date = doc.order.issue_date
      /\ order.requested_delivery_date = doc.order.delivery
  BY DEF ParsedOrder
<1>3. /\ doc.order.id = "ok" /\ DateParsed(doc.order.issue_date)
      /\ doc.order.delivery \in {"absent", "iso", "loose"}
      /\ \A n \in DOMAIN doc.lines : Usable(doc.lines[n])
  BY <1>1, SoundDocument
<1>4. /\ DOMAIN payload.lines = DOMAIN doc.lines /\ payload.lines # <<>>
      /\ \A n \in DOMAIN doc.lines : /\ payload.lines[n].qty = doc.lines[n].qty
                                     /\ payload.lines[n].unit_price = doc.lines[n].price
  BY <1>1, PayloadLinesTell
<1> HIDE DEF order
<1>5. /\ payload.kind = "ubl_bis3_order"
      /\ payload.document.id = order.id
      /\ payload.document.issue_date = DateStr(order.issue_date)
      /\ payload.document.requested_delivery_date = DateStr(order.requested_delivery_date)
  BY <1>1 DEF to_payload, PayloadDocument
<1>6. /\ payload.document.id = "ok" /\ payload.document.issue_date = "iso"
      /\ payload.document.requested_delivery_date \in {"iso", "null"}
  BY <1>2, <1>3, <1>5 DEF DateStr
<1>7. ~BadPayload(payload)
  BY <1>4, <1>5, <1>6 DEF BadPayload, DateParsed
<1>8. /\ host.order_date = payload.document.issue_date
      /\ host.delivery_date = payload.document.requested_delivery_date
      /\ host.lines = [n \in DOMAIN payload.lines |-> HostLine(payload.lines[n])]
  BY DEF HostOrder
<1>9. Len(host.lines) = Len(doc.lines) /\ DOMAIN host.lines = DOMAIN doc.lines
  <2> HIDE DEF host
  <2> QED
    BY <1>1, <1>4, <1>8, DocumentLines
<1>10. ASSUME NEW n \in DOMAIN host.lines
       PROVE  /\ host.lines[n].quantity = doc.lines[n].qty /\ doc.lines[n].qty = "positive"
              /\ host.lines[n].unit_price = doc.lines[n].price
  <2>1. n \in DOMAIN doc.lines
    BY <1>9
  <2>2. doc.lines[n].qty = "positive" /\ doc.lines[n].price \in {"zero", "positive"}
    BY <1>3, <2>1 DEF Usable, QuantityUsable, PriceUsable
  <2>3. host.lines[n] = HostLine(payload.lines[n])
    BY <1>4, <1>8, <2>1
  <2>4. /\ payload.lines[n].qty = doc.lines[n].qty
        /\ payload.lines[n].unit_price = doc.lines[n].price
    BY <1>4, <2>1
  <2> HIDE DEF host
  <2> QED
    BY <2>2, <2>3, <2>4 DEF HostLine, AmountOrZero
<1> HIDE DEF host
<1> QED
  BY <1>6, <1>7, <1>8, <1>9, <1>10

\* Every line of every accepted document reaches the host with the quantity and the
\* price that were written, whatever the number of lines: a line that cannot be used
\* refuses the document instead.
THEOREM LinesReachTheHost == Spec => []NoLineIsLost
<1> QED
  BY ImportInvariance, InvKeepsLines, PTL

\* Whichever of the three elements the id is read from, it is told with the scheme
\* of that element, or without one if the element has none.
LEMMA PartyIsTold ==
  ASSUME NEW p \in Party, NEW told,
         told.id = Optional(ParsedParty(p).id),
         told.scheme = Optional(ParsedParty(p).scheme)
  PROVE  TellsAnIdentity(told, p)
<1> DEFINE source == PartySource(p)
<1>1. source \in Identifiers
  BY DEF PartySource, Identifiers
<1>2. p[source] \in Node
  BY <1>1 DEF Party, Identifiers
<1>3. /\ told.id = Optional(NodeText(p[source]))
      /\ told.scheme = Optional(SchemeOf(p, source))
  BY DEF ParsedParty, PartyId
<1> HIDE DEF source
<1>4. CASE told.scheme # "null"
  <2>1. told.scheme = source /\ source \in p.schemes
    BY <1>3, <1>4 DEF SchemeOf, Optional
  <2> QED
    BY <1>3, <1>4, <2>1 DEF TellsAnIdentity
<1>5. CASE told.scheme = "null" /\ told.id # "null"
  <2>1. p[source] \notin {"none", "empty"} /\ told.id = p[source]
    BY <1>3, <1>5 DEF NodeText, Optional
  <2>2. source \notin p.schemes
    BY <1>1, <1>3, <1>5, <2>1 DEF SchemeOf, Optional, Identifiers
  <2> QED
    BY <1>1, <1>5, <2>1, <2>2 DEF TellsAnIdentity
<1>6. CASE told.scheme = "null" /\ told.id = "null"
  BY <1>6 DEF TellsAnIdentity
<1> QED
  BY <1>4, <1>5, <1>6

LEMMA InvKeepsIdentities == ImportInv => PayloadKeepsIdentities
<1> SUFFICES ASSUME ImportInv, Written
             PROVE  /\ \A part \in {"buyer", "seller"} :
                         TellsAnIdentity(payload[part], doc[part])
                    /\ doc.buyer.ident = "ok" \/ doc.buyer.endpoint = "ok" =>
                         "ok" \in {payload.buyer.id, payload.buyer.endpoint_id}
                    /\ \A n \in DOMAIN payload.lines :
                         LET sent == doc.lines[n]
                             told == payload.lines[n]
                         IN  /\ told.gtin = Optional(sent.gtin)
                             /\ told.item_id = IF told.item_id_source = "seller_assigned"
                                                 THEN sent.seller ELSE sent.gtin
                             /\ told.item_id # "absent"
  BY DEF PayloadKeepsIdentities
<1> DEFINE order == ParsedOrder(doc)
<1>1. doc \in Document /\ OrderProblems(doc) = <<>> /\ payload = to_payload(order)
  BY WrittenIsSound
<1>2. order.buyer = ParsedParty(doc.buyer) /\ order.seller = ParsedParty(doc.seller)
  BY DEF ParsedOrder
<1> HIDE DEF order
<1>3. /\ payload.buyer = PayloadBuyer(order.buyer)
      /\ payload.seller = PayloadSeller(order.seller)
  BY <1>1 DEF to_payload
<1>4. /\ payload.buyer.id = Optional(ParsedParty(doc.buyer).id)
      /\ payload.buyer.scheme = Optional(ParsedParty(doc.buyer).scheme)
      /\ payload.buyer.endpoint_id = Optional(ParsedParty(doc.buyer).endpoint_id)
  BY <1>2, <1>3 DEF PayloadBuyer, ParsedParty
<1>5. /\ payload.seller.id = Optional(ParsedParty(doc.seller).id)
      /\ payload.seller.scheme = Optional(ParsedParty(doc.seller).scheme)
  BY <1>2, <1>3 DEF PayloadSeller
<1>6. doc.buyer \in Party /\ doc.seller \in Party
  BY <1>1 DEF Document
<1>7. TellsAnIdentity(payload.buyer, doc.buyer)
  BY <1>4, <1>6, PartyIsTold
<1>8. TellsAnIdentity(payload.seller, doc.seller)
  BY <1>5, <1>6, PartyIsTold
<1>9. \A part \in {"buyer", "seller"} : TellsAnIdentity(payload[part], doc[part])
  BY <1>7, <1>8
<1>10. doc.buyer.ident = "ok" => payload.buyer.id = "ok"
  BY <1>4 DEF ParsedParty, PartyId, PartySource, NodeText, Optional
<1>11. doc.buyer.endpoint = "ok" => payload.buyer.endpoint_id = "ok"
  BY <1>4 DEF ParsedParty, NodeText, Optional
<1>12. ASSUME NEW n \in DOMAIN payload.lines
       PROVE  LET sent == doc.lines[n]
                  told == payload.lines[n]
              IN  /\ told.gtin = Optional(sent.gtin)
                  /\ told.item_id = IF told.item_id_source = "seller_assigned"
                                      THEN sent.seller ELSE sent.gtin
                  /\ told.item_id # "absent"
  <2>1. /\ n \in DOMAIN doc.lines
        /\ payload.lines[n].gtin = Optional(doc.lines[n].gtin)
        /\ payload.lines[n].item_id = ItemId(doc.lines[n])
        /\ payload.lines[n].item_id_source = ItemIdSource(doc.lines[n])
    BY <1>1, PayloadLinesTell DEF order
  <2>2. Usable(doc.lines[n])
    BY <1>1, <2>1, SoundDocument
  <2> QED
    BY <2>1, <2>2 DEF Usable, ItemId, ItemIdSource
<1> QED
  BY <1>9, <1>10, <1>11, <1>12

\* The payload of every accepted document tells who its parties and what its items
\* are, and where each of those identities was read.
THEOREM IdentitiesAreKept == Spec => []PayloadKeepsIdentities
<1> QED
  BY ImportInvariance, InvKeepsIdentities, PTL

-------------------------------------------------------------------------------
(* What a refusal says *)

Anonymous(p) ==
  \/ p.code \in {"xml_malformed", "wrong_root_element", "missing_document_id"}
  \/ p.code = "id_too_long" /\ p.part = "order"

\* What is reported of a line is about that line, and about its GTIN only if that is
\* too long.
LEMMA LineReportsAreTrue ==
  ASSUME NEW l, NEW n, NEW p \in OneLineReports(l, n)
  PROVE  /\ p.part = "line" /\ p.n = n
         /\ p.field = "gtin" => l.gtin = "long"
         /\ p.code \notin {"xml_malformed", "wrong_root_element", "missing_document_id"}
BY DEF OneLineReports, LineReports, Told, Problem

LEMMA PartyReportsAreTrue ==
  ASSUME NEW party, NEW part, NEW p \in PartyReports(party, part)
  PROVE  p.part = part /\ p.code = "id_too_long"
BY DEF PartyReports, Told, Problem

LEMMA TotalsReportsAreTrue ==
  ASSUME NEW t, NEW p \in TotalsReports(t)
  PROVE  p.part = "totals" /\ p.code = "invalid_line_amount"
BY DEF TotalsReports, Told, Problem

LEMMA HeaderReportsAreTrue ==
  ASSUME NEW d, NEW p \in HeaderReports(d)
  PROVE  /\ p.part = "order"
         /\ Anonymous(p) => d.order.id \in {"absent", "long"}
         /\ p.field = "lines" => d.lines = <<>> \/ Len(d.lines) > MaxOrderLines
BY DEF HeaderReports, Told, Problem, Anonymous

\* No report is false, so far as the properties below need it.
LEMMA ReportsAreTrue ==
  ASSUME NEW d \in Document, NEW p \in Reported(d)
  PROVE  /\ Anonymous(p) => d.order.id \in {"absent", "long"}
         /\ p.part = "order" /\ p.field = "lines" =>
              d.lines = <<>> \/ Len(d.lines) > MaxOrderLines
         /\ p.part = "line" /\ p.field = "gtin" => d.lines[p.n].gtin = "long"
<1>1. CASE p \in HeaderReports(d)
  BY <1>1, HeaderReportsAreTrue
<1>2. CASE p \in PartyReports(d.buyer, "buyer")
  BY <1>2, PartyReportsAreTrue DEF Anonymous
<1>3. CASE p \in PartyReports(d.seller, "seller")
  BY <1>3, PartyReportsAreTrue DEF Anonymous
<1>4. CASE p \in TotalsReports(d.totals)
  BY <1>4, TotalsReportsAreTrue DEF Anonymous
<1>5. CASE p \in LinesReports(d.lines)
  <2>1. PICK n \in DOMAIN d.lines : p \in OneLineReports(d.lines[n], n)
    BY <1>5 DEF LinesReports
  <2> QED
    BY <2>1, LineReportsAreTrue DEF Anonymous
<1> QED
  BY <1>1, <1>2, <1>3, <1>4, <1>5 DEF Reported

LEMMA InvExplains == ImportInv => AnonymousRefusalsAreExplained
<1> SUFFICES ASSUME ImportInv, result.problems # <<>>
             PROVE  ~result.business_key <=>
                      \E i \in DOMAIN result.problems : Anonymous(result.problems[i])
  BY DEF AnonymousRefusalsAreExplained, Anonymous
<1>1. doc \in Document /\ result = parse_ubl_order(doc)
  BY DocumentsAssumption DEF ImportInv, NoResult
<1>2. CASE doc.root # "order"
  <2>1. PICK p : /\ p.code \in {"xml_malformed", "wrong_root_element"}
                 /\ result.problems = <<p>> /\ result.business_key = FALSE
    <3>1. doc.root \in {"malformed", "other"}
      BY <1>1, <1>2 DEF Document
    <3> QED
      BY <1>1, <3>1, ParseResults DEF Refused, Problem
  <2> QED
    BY <2>1 DEF Anonymous
<1>3. CASE doc.root = "order"
  <2>1. Collects(result.problems, Reported(doc))
    BY <1>1, <1>3, ParseResults, DocumentLines, OrderCollects
  <2>2. result.business_key = (doc.order.id = "ok")
    BY <1>1, <1>3, ParseResults DEF UsableId
  <2>3. doc.order.id \in Text
    BY <1>1 DEF Document, OrderFields
  <2>4. ASSUME NEW i \in DOMAIN result.problems, Anonymous(result.problems[i])
        PROVE  doc.order.id # "ok"
    <3>1. result.problems[i] \in Reported(doc)
      BY <2>1 DEF Collects, Range
    <3> QED
      BY <1>1, <2>4, <3>1, ReportsAreTrue
  <2>5. ASSUME doc.order.id # "ok"
        PROVE  \E i \in DOMAIN result.problems : Anonymous(result.problems[i])
    <3>1. \E p \in HeaderReports(doc) : Anonymous(p)
      <4>1. CASE doc.order.id = "absent"
        <5>1. Problem("missing_document_id", "order", 0, "id") \in HeaderReports(doc)
          BY <4>1 DEF HeaderReports, Told
        <5> QED
          BY <5>1 DEF Anonymous, Problem
      <4>2. CASE doc.order.id = "long"
        <5>1. Problem("id_too_long", "order", 0, "id") \in HeaderReports(doc)
          BY <4>2 DEF HeaderReports, Told
        <5> QED
          BY <5>1 DEF Anonymous, Problem
      <4> QED
        BY <2>3, <2>5, <4>1, <4>2 DEF Text
    <3>2. PICK p \in Reported(doc) : Anonymous(p)
      BY <3>1 DEF Reported
    <3>3. PICK i \in DOMAIN result.problems : result.problems[i] = p
      BY <2>1 DEF Collects, Range
    <3> QED
      BY <3>2, <3>3
  <2> QED
    BY <2>2, <2>4, <2>5
<1> QED
  BY <1>2, <1>3

\* A refusal is anonymous exactly when it names what makes the document impossible to
\* identify, however many other problems it reports.
THEOREM AnonymityIsExplained == Spec => []AnonymousRefusalsAreExplained
<1> QED
  BY ImportInvariance, InvExplains, PTL

-------------------------------------------------------------------------------
(* One round of corrections *)

\* A report names its element.
LEMMA ReportNames ==
  ASSUME Collects(result.problems, Reported(doc)), NEW p \in Reported(doc)
  PROVE  Named(p.part, p.n, p.field)
<1>1. PICK i \in DOMAIN result.problems : result.problems[i] = p
  BY DEF Collects, Range
<1> QED
  BY <1>1 DEF Named

\* What is named was reported.
LEMMA NamedIsReported ==
  ASSUME Collects(result.problems, Reported(doc)),
         NEW part, NEW n, NEW field, Named(part, n, field)
  PROVE  \E p \in Reported(doc) : p.part = part /\ p.n = n /\ p.field = field
<1>1. PICK i \in DOMAIN result.problems :
        /\ result.problems[i].part = part /\ result.problems[i].n = n
        /\ result.problems[i].field = field
  BY DEF Named
<1>2. result.problems[i] \in Reported(doc)
  BY DEF Collects, Range
<1> QED
  BY <1>1, <1>2

\* The elements of the header that nothing good can be made of are named.
LEMMA BadHeaderIsNamed ==
  ASSUME Collects(result.problems, Reported(doc))
  PROVE  /\ doc.order.customization = "bad" => Named("order", 0, "customization")
         /\ doc.order.id \in {"absent", "long"} => Named("order", 0, "id")
         /\ doc.order.issue_date \in {"absent", "bad"} => Named("order", 0, "issue_date")
         /\ doc.order.currency = "bad" => Named("order", 0, "currency")
         /\ doc.order.delivery = "bad" => Named("order", 0, "delivery")
         /\ doc.lines = <<>> => Named("order", 0, "lines")
         /\ Len(doc.lines) > MaxOrderLines => Named("order", 0, "lines")
<1>1. ASSUME NEW code, NEW field, Problem(code, "order", 0, field) \in HeaderReports(doc)
      PROVE  Named("order", 0, field)
  <2>1. Problem(code, "order", 0, field) \in Reported(doc)
    BY <1>1 DEF Reported
  <2> QED
    BY <2>1, ReportNames DEF Problem
<1>2. /\ doc.order.customization = "bad" =>
           Problem("unsupported_customization", "order", 0, "customization")
             \in HeaderReports(doc)
      /\ doc.order.id = "absent" =>
           Problem("missing_document_id", "order", 0, "id") \in HeaderReports(doc)
      /\ doc.order.id = "long" =>
           Problem("id_too_long", "order", 0, "id") \in HeaderReports(doc)
      /\ doc.order.issue_date = "absent" =>
           Problem("missing_issue_date", "order", 0, "issue_date") \in HeaderReports(doc)
      /\ doc.order.issue_date = "bad" =>
           Problem("invalid_issue_date", "order", 0, "issue_date") \in HeaderReports(doc)
      /\ doc.order.currency = "bad" =>
           Problem("invalid_currency", "order", 0, "currency") \in HeaderReports(doc)
      /\ doc.order.delivery = "bad" =>
           Problem("invalid_delivery_date", "order", 0, "delivery") \in HeaderReports(doc)
      /\ doc.lines = <<>> =>
           Problem("missing_order_line", "order", 0, "lines") \in HeaderReports(doc)
      /\ Len(doc.lines) > MaxOrderLines =>
           Problem("too_many_lines", "order", 0, "lines") \in HeaderReports(doc)
  BY DEF HeaderReports, Told
<1> QED
  BY <1>1, <1>2

LEMMA BadPartyIsNamed ==
  ASSUME Collects(result.problems, Reported(doc)), NEW part \in {"buyer", "seller"}
  PROVE  /\ PartyId(doc[part]) = "long" => Named(part, 0, "id")
         /\ doc[part].name = "long" => Named(part, 0, "name")
<1>1. PartyReports(doc[part], part) \subseteq Reported(doc)
  BY DEF Reported
<1>2. /\ PartyId(doc[part]) = "long" =>
           Problem("id_too_long", part, 0, "id") \in PartyReports(doc[part], part)
      /\ doc[part].name = "long" =>
           Problem("id_too_long", part, 0, "name") \in PartyReports(doc[part], part)
  BY DEF PartyReports, Told
<1> QED
  BY <1>1, <1>2, ReportNames DEF Problem

LEMMA BadTotalsAreNamed ==
  ASSUME Collects(result.problems, Reported(doc)),
         NEW f \in {"line_extension", "tax_exclusive", "tax_inclusive", "payable"},
         doc.totals[f] = "bad"
  PROVE  Named("totals", 0, f)
<1>1. Problem("invalid_line_amount", "totals", 0, f) \in TotalsReports(doc.totals)
  BY DEF TotalsReports, Told
<1>2. Problem("invalid_line_amount", "totals", 0, f) \in Reported(doc)
  BY <1>1 DEF Reported
<1> QED
  BY <1>2, ReportNames DEF Problem

LEMMA BadLineIsNamed ==
  ASSUME Collects(result.problems, Reported(doc)), NEW n \in DOMAIN doc.lines
  PROVE  LET l == doc.lines[n] IN
         /\ l.item = "none" => Named("line", n, "item")
         /\ l.item # "none" =>
              /\ ItemId(l) \in {"absent", "long"} => Named("line", n, "seller")
              /\ l.qty \in {"absent", "negative", "zero", "bad"} => Named("line", n, "qty")
              /\ l.price \in {"absent", "negative", "bad"} => Named("line", n, "price")
              /\ l.price_currency = "bad" => Named("line", n, "price_currency")
              /\ l.base_qty \in {"negative", "zero", "bad"} => Named("line", n, "base_qty")
              /\ l.amount = "bad" => Named("line", n, "amount")
              /\ l.delivery = "bad" => Named("line", n, "delivery")
              /\ l.number = "long" => Named("line", n, "number")
              /\ l.gtin = "long" => Named("line", n, "gtin")
              /\ l.name = "long" => Named("line", n, "name")
<1> DEFINE l == doc.lines[n]
<1>1. OneLineReports(l, n) \subseteq Reported(doc)
  BY DEF Reported, LinesReports
<1> HIDE DEF l
<1>2. ASSUME NEW code, NEW field, Problem(code, "line", n, field) \in OneLineReports(l, n)
      PROVE  Named("line", n, field)
  <2>1. Problem(code, "line", n, field) \in Reported(doc)
    BY <1>1, <1>2
  <2> QED
    BY <2>1, ReportNames DEF Problem
<1>3. l.item = "none" => Problem("missing_order_line", "line", n, "item") \in OneLineReports(l, n)
  BY DEF OneLineReports
<1>4. l.item # "none" => OneLineReports(l, n) = LineReports(l, n)
  BY DEF OneLineReports
<1>5. /\ ItemId(l) = "absent" =>
           Problem("missing_item_identifier", "line", n, "seller") \in LineReports(l, n)
      /\ ItemId(l) = "long" =>
           Problem("id_too_long", "line", n, "seller") \in LineReports(l, n)
      /\ l.qty = "absent" =>
           Problem("missing_line_quantity", "line", n, "qty") \in LineReports(l, n)
      /\ l.qty \in {"negative", "zero", "bad"} =>
           Problem("invalid_line_quantity", "line", n, "qty") \in LineReports(l, n)
      /\ l.price = "absent" =>
           Problem("missing_line_price", "line", n, "price") \in LineReports(l, n)
      /\ l.price \in {"negative", "bad"} =>
           Problem("invalid_line_price", "line", n, "price") \in LineReports(l, n)
  BY DEF LineReports, Told
<1>6. /\ l.price_currency = "bad" =>
           Problem("invalid_currency", "line", n, "price_currency") \in LineReports(l, n)
      /\ l.base_qty \in {"negative", "zero", "bad"} =>
           Problem("invalid_base_quantity", "line", n, "base_qty") \in LineReports(l, n)
      /\ l.amount = "bad" =>
           Problem("invalid_line_amount", "line", n, "amount") \in LineReports(l, n)
      /\ l.delivery = "bad" =>
           Problem("invalid_delivery_date", "line", n, "delivery") \in LineReports(l, n)
      /\ l.number = "long" =>
           Problem("id_too_long", "line", n, "number") \in LineReports(l, n)
      /\ l.gtin = "long" => Problem("id_too_long", "line", n, "gtin") \in LineReports(l, n)
      /\ l.name = "long" => Problem("id_too_long", "line", n, "name") \in LineReports(l, n)
  BY DEF LineReports, Told
<1> QED
  BY <1>2, <1>3, <1>4, <1>5, <1>6 DEF l

\* A line in which every reported element is put right has nothing left to report:
\* the GTIN is only taken out when it is too long, and then the seller's code is there.
LEMMA MendedLineIsSound ==
  ASSUME doc \in Document, Collects(result.problems, Reported(doc)),
         NEW n \in DOMAIN doc.lines
  PROVE  OneLineReports(MendedLine(doc.lines[n], n), n) = {}
<1> DEFINE l == doc.lines[n]
           m == MendedLine(l, n)
<1>1. l \in OrderLine
  BY DocumentLines
<1>2. /\ l.item = "none" => Named("line", n, "item")
      /\ l.item # "none" =>
           /\ ItemId(l) \in {"absent", "long"} => Named("line", n, "seller")
           /\ l.qty \in {"absent", "negative", "zero", "bad"} => Named("line", n, "qty")
           /\ l.price \in {"absent", "negative", "bad"} => Named("line", n, "price")
           /\ l.price_currency = "bad" => Named("line", n, "price_currency")
           /\ l.base_qty \in {"negative", "zero", "bad"} => Named("line", n, "base_qty")
           /\ l.amount = "bad" => Named("line", n, "amount")
           /\ l.delivery = "bad" => Named("line", n, "delivery")
           /\ l.number = "long" => Named("line", n, "number")
           /\ l.gtin = "long" => Named("line", n, "gtin")
           /\ l.name = "long" => Named("line", n, "name")
  BY BadLineIsNamed
<1>3. Named("line", n, "gtin") => l.gtin = "long"
  <2>1. SUFFICES ASSUME Named("line", n, "gtin") PROVE l.gtin = "long"
    OBVIOUS
  <2>2. PICK p \in Reported(doc) : p.part = "line" /\ p.n = n /\ p.field = "gtin"
    BY <2>1, NamedIsReported
  <2> QED
    BY <2>2, ReportsAreTrue
<1> HIDE DEF l
<1>4. CASE Named("line", n, "item")
  <2>1. m = GoodLine
    BY <1>4 DEF MendedLine
  <2> QED
    BY <2>1 DEF GoodLine, OneLineReports, LineReports, Told, ItemId, l
<1>5. CASE ~Named("line", n, "item")
  <2>1. m = [f \in DOMAIN l |-> IF Named("line", n, f) THEN GoodLine[f] ELSE l[f]]
    BY <1>5 DEF MendedLine
  <2>2. DOMAIN l = {"item", "number", "seller", "gtin", "name", "qty", "price",
                    "price_currency", "base_qty", "amount", "delivery"}
    BY <1>1 DEF OrderLine
  <2> HIDE DEF m
  <2>3. /\ m.item = l.item
        /\ m.number = IF Named("line", n, "number") THEN "ok" ELSE l.number
        /\ m.seller = IF Named("line", n, "seller") THEN "ok" ELSE l.seller
        /\ m.gtin = IF Named("line", n, "gtin") THEN "absent" ELSE l.gtin
        /\ m.name = IF Named("line", n, "name") THEN "ok" ELSE l.name
        /\ m.qty = IF Named("line", n, "qty") THEN "positive" ELSE l.qty
    BY <1>5, <2>1, <2>2 DEF GoodLine
  <2>4. /\ m.price = IF Named("line", n, "price") THEN "positive" ELSE l.price
        /\ m.price_currency =
             IF Named("line", n, "price_currency") THEN "ok" ELSE l.price_currency
        /\ m.base_qty = IF Named("line", n, "base_qty") THEN "absent" ELSE l.base_qty
        /\ m.amount = IF Named("line", n, "amount") THEN "ok" ELSE l.amount
        /\ m.delivery = IF Named("line", n, "delivery") THEN "iso" ELSE l.delivery
    BY <2>1, <2>2 DEF GoodLine
  <2>5. l.item # "none"
    BY <1>2, <1>5
  <2>6. ItemId(m) \notin {"absent", "long"} /\ m.gtin # "long"
    BY <1>2, <1>3, <2>3, <2>5 DEF ItemId
  <2>7. /\ m.item # "none" /\ m.number # "long" /\ m.name # "long"
        /\ m.qty \notin {"absent", "negative", "zero", "bad"}
        /\ m.price \notin {"absent", "negative", "bad"}
        /\ m.price_currency # "bad" /\ m.base_qty \notin {"negative", "zero", "bad"}
        /\ m.amount # "bad" /\ m.delivery # "bad"
    BY <1>2, <2>3, <2>4, <2>5
  <2>8. OneLineReports(m, n) = {}
    BY <2>6, <2>7 DEF OneLineReports, LineReports, Told
  <2> QED
    BY <2>8 DEF m, l
<1> QED
  BY <1>4, <1>5

LEMMA MendedPartyIsSound ==
  ASSUME doc \in Document, Collects(result.problems, Reported(doc)),
         NEW part \in {"buyer", "seller"}
  PROVE  PartyReports(MendedParty(doc[part], part), part) = {}
<1> DEFINE p == doc[part]
           m == MendedParty(p, part)
<1>1. p \in Party
  BY DEF Document
<1>2. /\ PartyId(p) = "long" => Named(part, 0, "id")
      /\ p.name = "long" => Named(part, 0, "name")
  BY BadPartyIsNamed
<1> HIDE DEF p
<1>3. CASE Named(part, 0, "id")
  <2>1. m = [GoodParty EXCEPT !.name = IF Named(part, 0, "name") THEN "ok" ELSE p.name]
    BY <1>3 DEF MendedParty
  <2> HIDE DEF m
  <2>2. m.ident = "ok" /\ m.name = IF Named(part, 0, "name") THEN "ok" ELSE p.name
    BY <2>1 DEF GoodParty
  <2>3. PartyId(m) = "ok" /\ m.name # "long"
    BY <1>2, <2>2 DEF PartyId, PartySource, NodeText
  <2>4. PartyReports(m, part) = {}
    BY <2>3 DEF PartyReports, Told
  <2> QED
    BY <2>4 DEF m, p
<1>4. CASE ~Named(part, 0, "id")
  <2>1. m = [p EXCEPT !.name = IF Named(part, 0, "name") THEN "ok" ELSE @]
    BY <1>4 DEF MendedParty
  <2> HIDE DEF m
  <2>2. /\ m.ident = p.ident /\ m.endpoint = p.endpoint /\ m.legal = p.legal
        /\ m.name = IF Named(part, 0, "name") THEN "ok" ELSE p.name
    BY <1>1, <2>1 DEF Party
  <2>3. PartyId(m) = PartyId(p) /\ m.name # "long"
    BY <1>2, <2>2 DEF PartyId, PartySource
  <2>4. PartyReports(m, part) = {}
    BY <1>2, <1>4, <2>3 DEF PartyReports, Told
  <2> QED
    BY <2>4 DEF m, p
<1> QED
  BY <1>3, <1>4

LEMMA MendedLinesAreSound ==
  ASSUME doc \in Document, Collects(result.problems, Reported(doc))
  PROVE  LET lines == MendedLines(doc.lines) IN
         /\ Len(lines) \in Nat /\ DOMAIN lines = 1 .. Len(lines)
         /\ lines # <<>> /\ ~(Len(lines) > MaxOrderLines)
         /\ LinesReports(lines) = {}
<1> DEFINE mended == [n \in DOMAIN doc.lines |-> MendedLine(doc.lines[n], n)]
           T == {MendedLine(doc.lines[n], n) : n \in DOMAIN doc.lines}
           lines == MendedLines(doc.lines)
<1>1. Len(doc.lines) \in Nat /\ DOMAIN doc.lines = 1 .. Len(doc.lines)
      /\ doc.lines \in Seq(OrderLine)
  BY DocumentLines
<1>2. \A n \in DOMAIN doc.lines : OneLineReports(mended[n], n) = {}
  BY MendedLineIsSound
<1>3. /\ mended \in Seq(T) /\ Len(mended) = Len(doc.lines)
      /\ DOMAIN mended = DOMAIN doc.lines
  <2>1. \A n \in DOMAIN doc.lines : mended[n] \in T
    OBVIOUS
  <2>2. DOMAIN mended = DOMAIN doc.lines
    OBVIOUS
  <2>3. mended \in [DOMAIN doc.lines -> T]
    OBVIOUS
  <2> HIDE DEF T, mended
  <2> QED
    BY <1>1, <2>1, <2>2, <2>3
<1>4. /\ doc.lines = <<>> => Named("order", 0, "lines")
      /\ Len(doc.lines) > MaxOrderLines => Named("order", 0, "lines")
  BY BadHeaderIsNamed
<1>5. Named("order", 0, "lines") => doc.lines = <<>> \/ Len(doc.lines) > MaxOrderLines
  <2>1. SUFFICES ASSUME Named("order", 0, "lines")
                 PROVE  doc.lines = <<>> \/ Len(doc.lines) > MaxOrderLines
    OBVIOUS
  <2>2. PICK p \in Reported(doc) : p.part = "order" /\ p.n = 0 /\ p.field = "lines"
    BY <2>1, NamedIsReported
  <2> QED
    BY <2>2, ReportsAreTrue
<1>6. MaxOrderLines \in Nat \ {0}
  BY MaxOrderLinesAssumption
<1>7. CASE ~Named("order", 0, "lines")
  <2>1. lines = mended
    BY <1>7 DEF MendedLines
  <2>2. LinesReports(mended) = {}
    BY <1>2, <1>3 DEF LinesReports
  <2> HIDE DEF mended, T, lines
  <2>3. mended # <<>>
    BY <1>1, <1>3, <1>4, <1>7
  <2> QED
    BY <1>1, <1>3, <1>4, <1>7, <2>1, <2>2, <2>3 DEF lines
<1>8. CASE Named("order", 0, "lines") /\ doc.lines = <<>>
  <2>1. lines = <<GoodLine>>
    BY <1>8 DEF MendedLines
  <2>2. OneLineReports(GoodLine, 1) = {}
    BY DEF GoodLine, OneLineReports, LineReports, Told, ItemId
  <2> HIDE DEF lines
  <2>3. Len(lines) = 1 /\ DOMAIN lines = {1} /\ lines[1] = GoodLine /\ lines # <<>>
    BY <2>1
  <2>4. LinesReports(lines) = {}
    BY <2>2, <2>3 DEF LinesReports
  <2>5. DOMAIN lines = 1 .. Len(lines) /\ ~(Len(lines) > MaxOrderLines)
    BY <1>6, <2>3
  <2> QED
    BY <2>3, <2>4, <2>5 DEF lines
<1>9. CASE Named("order", 0, "lines") /\ doc.lines # <<>>
  <2>1. lines = SubSeq(mended, 1, MaxOrderLines)
    BY <1>9 DEF MendedLines
  <2>2. Len(doc.lines) > MaxOrderLines
    BY <1>5, <1>9
  <2> HIDE DEF lines, mended, T
  <2>3. /\ 1 \in 1 .. Len(mended) + 1
        /\ MaxOrderLines \in (1 - 1) .. Len(mended)
        /\ MaxOrderLines - 1 + 1 = MaxOrderLines
    BY <1>1, <1>3, <1>6, <2>2
  <2>4. /\ lines \in Seq(T) /\ Len(lines) = MaxOrderLines
        /\ \A n \in 1 .. MaxOrderLines : lines[n] = mended[n]
    BY <1>3, <1>6, <2>1, <2>3
  <2>5. DOMAIN lines = 1 .. MaxOrderLines /\ DOMAIN lines \subseteq DOMAIN doc.lines
    BY <1>1, <1>6, <2>2, <2>4
  <2>6. ASSUME NEW n \in DOMAIN lines PROVE OneLineReports(lines[n], n) = {}
    <3>1. n \in DOMAIN doc.lines /\ lines[n] = mended[n]
      BY <2>4, <2>5
    <3> QED
      BY <1>2, <3>1
  <2>7. LinesReports(lines) = {}
    BY <2>6 DEF LinesReports
  <2> QED
    BY <1>6, <2>4, <2>5, <2>7 DEF lines
<1> QED
  BY <1>7, <1>8, <1>9

LEMMA MendedHeaderIsSound ==
  ASSUME doc \in Document, Collects(result.problems, Reported(doc))
  PROVE  HeaderReports(Mended(doc)) = {}
<1> DEFINE m == Mended(doc).order
           order == doc.order
           lines == Mended(doc).lines
<1>1. order \in OrderFields
  BY DEF Document
<1>2. /\ order.customization = "bad" => Named("order", 0, "customization")
      /\ order.id \in {"absent", "long"} => Named("order", 0, "id")
      /\ order.issue_date \in {"absent", "bad"} => Named("order", 0, "issue_date")
      /\ order.currency = "bad" => Named("order", 0, "currency")
      /\ order.delivery = "bad" => Named("order", 0, "delivery")
  BY BadHeaderIsNamed
<1>3. m = [f \in DOMAIN order |-> IF Named("order", 0, f) THEN GoodOrder[f] ELSE order[f]]
  BY DEF Mended
<1>4. lines = MendedLines(doc.lines)
  BY DEF Mended
<1>5. lines # <<>> /\ ~(Len(lines) > MaxOrderLines)
  BY <1>4, MendedLinesAreSound
<1>6. DOMAIN order = {"customization", "id", "uuid", "issue_date", "currency", "delivery",
                      "notes"}
  BY <1>1 DEF OrderFields
<1> HIDE DEF m, order, lines
<1>7. /\ m.customization = IF Named("order", 0, "customization") THEN "ok"
                           ELSE order.customization
      /\ m.id = IF Named("order", 0, "id") THEN "ok" ELSE order.id
      /\ m.issue_date = IF Named("order", 0, "issue_date") THEN "iso" ELSE order.issue_date
      /\ m.currency = IF Named("order", 0, "currency") THEN "ok" ELSE order.currency
      /\ m.delivery = IF Named("order", 0, "delivery") THEN "iso" ELSE order.delivery
  BY <1>3, <1>6 DEF GoodOrder
<1>8. /\ m.customization # "bad" /\ m.id \notin {"absent", "long"}
      /\ m.issue_date \notin {"absent", "bad"} /\ m.currency # "bad" /\ m.delivery # "bad"
  BY <1>2, <1>7
<1> QED
  BY <1>5, <1>8 DEF HeaderReports, Told, m, lines

LEMMA MendedTotalsAreSound ==
  ASSUME doc \in Document, Collects(result.problems, Reported(doc))
  PROVE  TotalsReports(Mended(doc).totals) = {}
<1> DEFINE m == Mended(doc).totals
           totals == doc.totals
           Fields == {"line_extension", "tax_exclusive", "tax_inclusive", "payable"}
<1>1. totals \in Totals
  BY DEF Document
<1>2. \A f \in Fields : totals[f] = "bad" => Named("totals", 0, f)
  BY BadTotalsAreNamed
<1>3. m = [f \in DOMAIN totals |-> IF Named("totals", 0, f) THEN GoodTotals[f] ELSE totals[f]]
  BY DEF Mended
<1>4. DOMAIN totals = Fields
  BY <1>1 DEF Totals
<1> HIDE DEF m, totals
<1>5. \A f \in Fields : m[f] # "bad"
  BY <1>2, <1>3, <1>4 DEF GoodTotals
<1> QED
  BY <1>5 DEF TotalsReports, Told, m

LEMMA InvNeedsOneRound == ImportInv => OneRoundOfCorrections
<1> SUFFICES ASSUME ImportInv, result.problems # <<>>, doc.root = "order"
             PROVE  parse_ubl_order(Mended(doc)).problems = <<>>
  BY DEF OneRoundOfCorrections
<1> DEFINE m == Mended(doc)
<1>1. doc \in Document /\ result = parse_ubl_order(doc)
  BY DocumentsAssumption DEF ImportInv, NoResult
<1>2. Collects(result.problems, Reported(doc))
  BY <1>1, ParseResults, DocumentLines, OrderCollects
<1>3. /\ m.root = "order"
      /\ m.buyer = MendedParty(doc.buyer, "buyer")
      /\ m.seller = MendedParty(doc.seller, "seller")
      /\ m.lines = MendedLines(doc.lines)
  BY DEF Mended
<1>4. /\ PartyReports(m.buyer, "buyer") = {} /\ PartyReports(m.seller, "seller") = {}
  BY <1>1, <1>2, <1>3, MendedPartyIsSound
<1>5. /\ Len(m.lines) \in Nat /\ DOMAIN m.lines = 1 .. Len(m.lines)
      /\ LinesReports(m.lines) = {}
  BY <1>1, <1>2, <1>3, MendedLinesAreSound
<1>6. HeaderReports(m) = {} /\ TotalsReports(m.totals) = {}
  BY <1>1, <1>2, MendedHeaderIsSound, MendedTotalsAreSound
<1> HIDE DEF m
<1>7. Reported(m) = {}
  BY <1>4, <1>5, <1>6 DEF Reported
<1>8. OrderProblems(m) = <<>>
  BY <1>5, <1>7, OrderCollects, NothingCollected
<1>9. parse_ubl_order(m).problems = <<>>
  BY <1>3, <1>8 DEF parse_ubl_order
<1> QED
  BY <1>9 DEF m

\* A partner who puts right exactly what a refusal names has a document that is
\* accepted: no report hides another one, whatever the number of problems and lines.
THEOREM OneRoundSuffices == Spec => []OneRoundOfCorrections
<1> QED
  BY ImportInvariance, InvNeedsOneRound, PTL

-------------------------------------------------------------------------------
(* The line *)

LEMMA RenderedIsTheLine ==
  ASSUME ImportInv, Rendered
  PROVE  /\ IsItems(items) /\ line = detail_line(items)
         /\ Len(items) > 0 /\ ~detail_line(items).panics
<1>1. /\ items \in Seq(Items) /\ items # <<>> /\ ~line.panics
      /\ IsItems(items) /\ line = detail_line(items)
  BY DEF ImportInv, Rendered
<1>2. Len(items) > 0
  BY <1>1
<1> QED
  BY <1>1, <1>2

\* The line of every refusal shows or counts every problem, whatever their number,
\* their sizes and the cap.
THEOREM ProblemsAreAccountedFor == Spec => []EveryProblemIsAccountedFor
<1>1. ImportInv => EveryProblemIsAccountedFor
  <2> SUFFICES ASSUME ImportInv, Rendered
               PROVE  Cardinality({i \in DOMAIN items : Offset(items, i) < line.kept})
                        + line.hidden = Len(items)
    BY DEF EveryProblemIsAccountedFor
  <2> QED
    BY RenderedIsTheLine, ShownAndCountedAreAll
<1> QED
  BY <1>1, ImportInvariance, PTL

\* No line of several problems exceeds the cap.
THEOREM LinesKeepTheCap == Spec => []JoiningKeepsTheCap
<1>1. ImportInv => JoiningKeepsTheCap
  <2> SUFFICES ASSUME ImportInv, Rendered, Chars(line.text) > Cap PROVE Len(items) = 1
    BY DEF JoiningKeepsTheCap
  <2> QED
    BY RenderedIsTheLine, OnlyOneProblemIsLong
<1> QED
  BY <1>1, ImportInvariance, PTL

\* Whatever is counted would not have fitted.
THEOREM OnlyTheExcessIsElided == Spec => []NothingIsElidedNeedlessly
<1>1. ImportInv => NothingIsElidedNeedlessly
  <2> SUFFICES ASSUME ImportInv, Rendered, line.hidden > 0
               PROVE  Offset(items, Len(items) - line.hidden + 2) - 2 > Cap
    BY DEF NothingIsElidedNeedlessly
  <2> QED
    BY RenderedIsTheLine, TheCountedDidNotFit
<1> QED
  BY <1>1, ImportInvariance, PTL

================================================================================
