SPECIFICATION ConfigSpec
CONSTANTS
  Editors = {e1, e2}
  NoEditor = NoEditor
  Payloads = {p1, p2}
  Managed = Managed
  Keys = {k1}
  NoKey = NoKey
  NoRevision = NoRevision
  CBudget <- MCCBudget
INVARIANTS ConfigurationHolds
PROPERTIES RequestsEndCleanly EditsAreCompareAndSwap
CHECK_DEADLOCK FALSE
