CONSTANTS
  PageSize = 2
  MaxRecords = 5
  MaxLoads = 5
  None = None
SPECIFICATION FairSpec
INVARIANTS
  TypeOK
  PagesFitTogether
PROPERTIES
  ListSettles
CHECK_DEADLOCK FALSE
