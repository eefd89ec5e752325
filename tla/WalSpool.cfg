CONSTANTS
  Setups <- MCSetups
  MaxWal = 3
  QueueMax = 2
  MaxFaults = 1
SPECIFICATION Spec
INVARIANTS
  NoGap
  ReportTrue
  GapKnown
CHECK_DEADLOCK FALSE
