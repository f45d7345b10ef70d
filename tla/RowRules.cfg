SPECIFICATION Spec
CONSTANTS
  Tables <- MCTables
  Ids = {i1}
  Requests = {r1, r2}
SYMMETRY Symmetry
INVARIANTS
  RowTypeOK
  InstalledChecksHold
  RulesShieldChecks
  LegacyRowsStayEditable
PROPERTIES
  NoWriteAddsABreak
