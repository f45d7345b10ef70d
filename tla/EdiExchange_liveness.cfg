SPECIFICATION FairSpec
CONSTANTS
  Calls = {c1, c2, c3}
  Fallible = {c1, c2}
  Keys = {k1}
  DocTypes = {purchase_order}
  PurchaseOrder = purchase_order
  NoCall = none
PROPERTIES
  DeliveredDocumentsSettle
\* Transmissions run out and nobody has to acknowledge: the exchange may rest.
CHECK_DEADLOCK FALSE
