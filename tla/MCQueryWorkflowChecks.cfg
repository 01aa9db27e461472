CONSTANTS
  c = c
  ClientIds <- MCClientIds
  MaxPosts = 2
  Retries = 1
  AlternateRetries = 0
  None = None
SPECIFICATION Spec
INVARIANTS
  ChecksDoNotBlock
CHECK_DEADLOCK FALSE
