CONSTANTS
  Library <- MCLibrary
  File = 1
  MaxImages = 2
  MaxSessions = 2
  MaxArtifacts = 1
  MaxFaults = 1
  Parts = {"sessions", "nodes", "reopen", "forms", "browse", "adds", "rows"}
SPECIFICATION MCSpec
CHECK_DEADLOCK FALSE
INVARIANTS OneActiveImage PersistedState RowsSound ShownIsCurrent
PROPERTIES ExpandKeepsSelection
