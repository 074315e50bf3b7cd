SPECIFICATION Spec
CONSTANTS
  Clients = {"c1", "c2"}
  Away = {"c2"}
  Topics = {"t"}
  None = None
  Only = Only
  States <- MCStates
  Fresh <- MCFresh
  Row <- MCRow
  Payloads = {"x"}
INVARIANTS NoOrphans StateKept CleanIsForgotten
PROPERTY ImplementsStorage
CHECK_DEADLOCK FALSE
