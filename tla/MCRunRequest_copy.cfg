CONSTANTS
  Unset = Unset
  Broken = Broken
  Settings <- DefaultSettings
  Answers <- MCAnswers
  SlowAnswers <- MCSlowAnswers
  AttemptSettings <- Attempts
  TurnSettings <- Turns
  U32Max = 9
  U64Max = 9
SPECIFICATION RequestSpec
INVARIANT WorktreeFallsBackToCopy
