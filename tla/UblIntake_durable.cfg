SPECIFICATION IntakeSpec
CONSTANTS
  Calls = {c1, c2}
  Fallible = {c1}
  Keys = {k1}
  DocTypes = {purchase_order}
  PurchaseOrder = purchase_order
  NoCall = none
  MaxOrderLines = 2
  MaxNotes = 2
  Cap = 30
  Sent <- MCSent
  Partners <- MCPartners
INVARIANT
  IdentifiedRefusalsAreDurable
\* Transmissions run out and nobody has to acknowledge: the exchange may rest.
CHECK_DEADLOCK FALSE
