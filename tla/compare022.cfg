CONSTANTS
  IntLimit = 8
  Garbage <- MCGarbage
  Threshold = 8
  NoParam = NoParam
  NULL = NULL
  NormData = "normData"
  Worlds <- MCWorlds
  NameOrder <- MCNameOrder
  MaxFaults = 1
SPECIFICATION Spec
CHECK_DEADLOCK FALSE
INVARIANTS
  ReportIsWhole
  ReportsAgree
  EndsEarlyForReason
