CONSTANTS
  p = p
  Process = {p, q}
  Run = {"a"}
  Caller = {"c", "d"}
  Home <- MCHome
  ForeignCancel = FALSE
  MaxExits = 2
  MaxCleans = 1
\* Every run may have ended.
CHECK_DEADLOCK FALSE
SPECIFICATION FairSpec
INVARIANTS
  StateDirInv
  OneVerdict
  EndStays
PROPERTIES
  WaitEnds
