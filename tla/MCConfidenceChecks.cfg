CONSTANTS
  Folded <- MCFolded
  MaxComparedRows = 2
  DecimalTolerance = 1
  FloatTolerance = 0
  FloatPrecision = 1000000
  CountLike <- MCCountLike
  PercentLike <- MCPercentLike
  DateLike <- MCDateLike
  MinPercent = 0
  MaxPercent = 100
  MinDate = 1
  MaxDate = 9
  NullHeavyPercent = 80
  None = None
  UnavailableScore = 3500
  NotApplicableScore = 3500
  HighThreshold = 8500
  MediumThreshold = 7000
  LowThreshold = 5000
  PassThreshold = 8200
  FailThreshold = 5500
  LexicalCap = 6500
  Scenarios <- MCScenarios
  Opinions <- MCOpinions
  Translations <- MCTranslations
  Similarities <- MCSimilarities
  Reports <- MCReports
  AlignmentRetries = 1
  Durations <- MCDurations
  TimeLimit = 2
  ExecutionLimit = 1
  ProviderRetries = 1
  AlternateRetries = 0
SPECIFICATION Spec
INVARIANTS
  TypeOK
  FailureIsNeverOutvoted
  UnavailableNeverHelps
  ModelReportIsAuxiliary
  AgreementIsSound
  SecondOpinionIsEarned
CHECK_DEADLOCK FALSE
