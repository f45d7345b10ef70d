SPECIFICATION Spec
CONSTANTS
  MaxOrderLines = 2
  MaxNotes = 2
  Cap = 60
  Documents <- MCDocuments
  Items <- MCItems
INVARIANTS
  AcceptedOrdersAreBuilt
  NoLineIsLost
  PayloadKeepsIdentities
  OneRoundOfCorrections
  AnonymousRefusalsAreExplained
  EveryProblemIsAccountedFor
  JoiningKeepsTheCap
  NothingIsElidedNeedlessly
\* A document is parsed and rendered once.
CHECK_DEADLOCK FALSE
