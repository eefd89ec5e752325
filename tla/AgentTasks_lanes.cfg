CONSTANTS
  d1 = d1
  Databases = {d1}
  Host = "host"
  Types <- MCApartTypes
  Args <- MCArgs
  ClaimFilters <- MCFilters
  MaxTasks = 2
  KeepFinished = 2
  MaxAttempts = 1
  MaxLosses = 0
  MaxRefusals = 2
  MaxStops = 1
SPECIFICATION ASpec
INVARIANT ExecutedApart
