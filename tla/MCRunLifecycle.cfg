CONSTANTS
  a = a
  b = b
  Nobody = Nobody
  Key <- OneScope
  LockKeys <- SameScope
  Run <- BothRuns
  Mode <- OneSync
  TempWorkspace <- BothRuns
  DispatchStatus <- EveryStatus
  WaitedFor <- OnlyA
  MaxFaults = 1
\* Every run may have ended.
CHECK_DEADLOCK FALSE
SPECIFICATION FairSpec
INVARIANTS
  RunInv
  OneTerminalEvent
  RecordIsOnDisk
  HandoverIsClean
  NothingLeftBehind
PROPERTIES
  AcceptedRunsSettle
  TasksEnd
  PromiseSpec
