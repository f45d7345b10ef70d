SPECIFICATION Spec
CONSTANTS
  MaxOrderLines = 2
  MaxNotes = 2
  Cap = 60
  Documents <- MCDocuments
  Items <- MCItems
INVARIANT
  LinesFitTheColumn
\* A document is parsed and rendered once.
CHECK_DEADLOCK FALSE
