CONSTANTS
  MaxReturnedRows = 2
  MaxSubqueryDepth = 1
  Names <- MCNames
  None = None
  Drafts <- MCDrafts
  Catalogs <- MCCatalogs
SPECIFICATION Spec
CHECK_DEADLOCK FALSE
INVARIANTS
  TypeOK
  ExecutedIsDrafted
  OnlyTheLimitNarrows
  NamesAreUnambiguous
