CONSTANTS
  d1 = d1
  d2 = d2
  Databases = {d1, d2}
  Host = "host"
  Types <- MCTypes
  Args <- MCArgs
  ClaimFilters = {{}}
  MaxTasks = 8
  KeepFinished = 2
  Scenarios <- MCScenarios
  MarkNames <- MCMarkNames
SPECIFICATION CSpec
SYMMETRY MCSymmetry
INVARIANTS
  BackupsNeedProof
  HostWideAlone
  MarksOfTasks
  MarkBeforeChange
  UndoHasItsData
PROPERTIES
  ProofWaits
CHECK_DEADLOCK FALSE
