SPECIFICATION MCSpec
CONSTANTS
  Calls = {c1, c2}
  Fallible = {c1}
  Keys = {k1, k2}
  DocTypes = {purchase_order}
  PurchaseOrder = purchase_order
  NoCall = none
  Requests = {p1}
  FirstCall = c1
  FirstSlot = k1
INVARIANTS
  AdminInv
  DocumentsAgreeWithOutbox
  DocumentAcksAgree
  UntouchedSlotsHaveOneOrder
  UntouchedRepliesHold
  UntouchedCallsAnswer
PROPERTIES
  DocumentsKeepTheirLife
  UntouchedDocumentsSettle
\* Transmissions and requests run out: the system may rest.
CHECK_DEADLOCK FALSE
