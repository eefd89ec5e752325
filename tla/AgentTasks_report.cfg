CONSTANTS
  d1 = d1
  Databases = {d1}
  Host = "host"
  Types <- MCReportTypes
  Args <- MCArgs
  ClaimFilters <- MCFilters
  MaxTasks = 2
  KeepFinished = 2
  MaxAttempts = 4
  MaxLosses = 2
  MaxRefusals = 1
  MaxStops = 2
SPECIFICATION ASpec
INVARIANTS
  TruthfulSuccess
PROPERTIES
  NeverBegunTwice
  KeptUntilSent
  UsesQueue
  KeptTaskCloses
