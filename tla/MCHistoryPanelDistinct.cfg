CONSTANTS
  PageSize = 2
  MaxRecords = 5
  MaxLoads = 5
  None = None
SPECIFICATION Spec
INVARIANT EntriesAreDistinct
CHECK_DEADLOCK FALSE
