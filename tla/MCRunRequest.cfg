CONSTANTS
  Unset = Unset
  Broken = Broken
  Settings <- MCSettings
  Answers <- MCAnswers
  SlowAnswers <- MCSlowAnswers
  AttemptSettings <- Attempts
  TurnSettings <- Turns
  U32Max = 9
  U64Max = 9
SPECIFICATION RequestSpec
INVARIANTS
  BudgetIsKept
  RetriesAreEarned
  ResultIsOfLastAttempt
  AgentIsTheOneMeant
  ChainIsBounded
  WritersAreLockedOrAlone
  NothingIsLeft
  GateSeesTheSource
  ReviewEvidenceAgrees
  MemoryIsSaidOnce
  SummaryIsFound
  HistoryIsReadable
  ArchiveKeepsOthers
  UsageIsTheSame
  BlockIsExplained
