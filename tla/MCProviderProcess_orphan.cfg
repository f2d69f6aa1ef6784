CONSTANTS
  PromptChunks = 0
  OutputChunks = 1
  PipeCapacity = 1
  Heirs = TRUE
\* Nothing is left to do when the runner has returned.
CHECK_DEADLOCK FALSE
SPECIFICATION FairSpec
PROPERTIES
  RunnerReturns
