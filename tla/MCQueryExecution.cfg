CONSTANTS
  MaxReturnedRows = 3
  MaxSubqueryDepth = 1
  Names <- MCNames
  None = None
  Texts <- MCTexts
  Catalogs <- MCCatalogs
  Plans <- MCPlans
  MaxRows = 2
  MaxPlanRows = 1
  MaxPlanCost = 1
  MaxMatches = 4
  RoleReadOnly = FALSE
SPECIFICATION FairSpec
INVARIANTS
  TypeOK
  PolicyEnforced
  BlockedNeverRan
  AnswerIsFaithful
  ConnectionIsReturned
PROPERTIES
  TimeoutIsReported
  CallReturns
  ImplementsGuardedExecution
