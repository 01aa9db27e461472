CONSTANTS
  MaxRequests = 3
  MaxSends = 2
  None = None
CHECK_DEADLOCK FALSE
SPECIFICATION Spec
INVARIANT RecordedIsTrue
