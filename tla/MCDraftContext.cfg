CONSTANTS
  Tables <- MCTables
  Exposed <- MCExposed
  SchemaOf <- MCSchemaOf
  Sampled <- MCSampled
  Values <- MCValues
  SampleLimit = 1
  TTL = 2
  Id = 0
  Plain = 9
  Scenarios <- MCScenarios
  Scores <- MCScores
  MinTableScore = 1
  ColumnScores <- MCColumnScores
  MinColumnScore = 1
  KeyNames <- MCKeyNames
  MaxColumns = 3
  None = None
SPECIFICATION FairSpec
INVARIANTS
  TypeOK
  AnswerIsFresh
  RefreshSeesEarlierChanges
  SamplesAreComplete
  PathsAreShortest
  LeftOutForAReason
  JoinColumnsAreShown
PROPERTIES
  RequestsAreAnswered
CHECK_DEADLOCK FALSE
