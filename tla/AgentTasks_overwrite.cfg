CONSTANTS
  d1 = d1
  Databases = {d1}
  Host = "host"
  Types <- MCReportTypes
  Args <- MCArgs
  ClaimFilters <- MCFilters
  MaxTasks = 2
  KeepFinished = 2
  MaxAttempts = 2
  MaxLosses = 2
  MaxRefusals = 0
  MaxStops = 0
SPECIFICATION ASpec
PROPERTY KeptUntilSent
