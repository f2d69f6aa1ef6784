CONSTANTS
  MaxProgress = 2
  MaxCancels = 1
  MaxCrashes = 1
  Limit = 2
\* The run, its server and its readers may all have ended.
CHECK_DEADLOCK FALSE
SPECIFICATION FairSpec
INVARIANTS
  LogIsInOrder
  PollerMissesAreKnown
  FollowerPrintsTheLog
  FollowerSeesTheEnd
PROPERTIES
  FollowerFinishes
