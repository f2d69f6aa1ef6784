CONSTANTS
  PromptChunks = 2
  OutputChunks = 2
  PipeCapacity = 1
  Heirs = TRUE
\* Nothing is left to do when the runner has returned.
CHECK_DEADLOCK FALSE
SPECIFICATION FairSpec
INVARIANTS
  OutputIsComplete
  ObserverIsTold
  ChildIsGone
PROPERTIES
  ReturnsUnlessBlocked
