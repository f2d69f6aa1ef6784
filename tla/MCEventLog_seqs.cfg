CONSTANTS
  MaxProgress = 2
  MaxCancels = 1
  MaxCrashes = 0
  Limit = 2
\* The run, its server and its readers may all have ended.
CHECK_DEADLOCK FALSE
SPECIFICATION Spec
INVARIANTS
  SeqsIncrease
