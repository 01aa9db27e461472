CONSTANTS
  c = c
  ClientIds <- MCClientIds
  MaxPosts = 2
  Retries = 1
  AlternateRetries = 0
  None = None
SPECIFICATION FairSpec
INVARIANTS
  TypeOK
  RunsAreEarned
  HistoryTellsWhatRan
  ResultIsReturned
  AnswerMatchesRecord
  ProviderBudget
PROPERTIES
  EveryPostSettles
CHECK_DEADLOCK FALSE
