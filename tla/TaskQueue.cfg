CONSTANTS
  d1 = d1
  Databases = {d1}
  Host = "host"
  Types <- MCTypes
  Args <- MCArgs
  ClaimFilters <- MCFilters
  MaxTasks = 3
  KeepFinished = 1
SPECIFICATION Spec
INVARIANTS
  OneOpenPerKey
  OnePerLane
  NoFixBesideStop
  DependentsWait
PROPERTIES
  ImplementsLifecycle
  EveryClaimCloses
  EveryQueuedMoves
CHECK_DEADLOCK FALSE
