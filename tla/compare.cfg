CONSTANTS
  IntLimit = 8
  Garbage <- MCGarbage
  Threshold = 8
  NoText = NoText
  NULL = NULL
  NormData = "normData"
  NameOrder <- MCNameOrder
  NoParam = NoParam
  NotGiven = NotGiven
  PropertyId = {1, 2, 9}
  MetricParam <- MCMetricParam
  Worlds <- MCWorlds
SPECIFICATION Spec
CHECK_DEADLOCK FALSE
INVARIANTS
  RequestedIsReported
  StatusIsJustified
  SameIsEqual
  ValidationProtects
PROPERTIES
  ImplementsResults
  ComparisonEnds
