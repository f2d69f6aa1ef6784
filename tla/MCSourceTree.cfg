CONSTANTS
  Name <- MCName
  Request <- MCRequest
  Run = {1, 2}
\* Every run may have left.
CHECK_DEADLOCK FALSE
SPECIFICATION Spec
INVARIANTS
  PlainConflictsExclude
PROPERTIES
  EntriesLostAcrossScopesOnly
