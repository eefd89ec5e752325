SPECIFICATION Spec
CONSTANTS
  MaxAsks = 2
  MaxFaults = 0
  MaxWrites = 1
PROPERTY NeverStartedBehind
CHECK_DEADLOCK FALSE
