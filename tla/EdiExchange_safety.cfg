SPECIFICATION Spec
CONSTANTS
  Calls = {c1, c2, c3}
  Fallible = {c1, c2, c3}
  Keys = {k1, k2}
  DocTypes = {purchase_order}
  PurchaseOrder = purchase_order
  NoCall = none
SYMMETRY Symmetry
INVARIANTS
  TypeOK
  IInv
  RowAgreesWithOutbox
  MappedIsFinal
  OneOrderPerBusinessDocument
  AckAgreesWithOutbox
  AcksNameADriver
  PublishedWasStaged
  PositiveRepliesHold
  OutcomesAreBacked
  StrandedOnlyByDeath
  OpenRowsCanBeRedriven
PROPERTIES
  SettledRowsStaySettled
  ImplementsLifecycle
\* Transmissions run out and nobody has to acknowledge: the exchange may rest.
CHECK_DEADLOCK FALSE
