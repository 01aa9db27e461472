CONSTANTS
  MaxRequests = 3
  MaxSends = 2
  None = None
CHECK_DEADLOCK FALSE
SPECIFICATION FairSpec
INVARIANTS
  TypeOK
  NotExecutedIsTrue
  FeedbackSentOnce
PROPERTIES
  WorkspaceSettles
