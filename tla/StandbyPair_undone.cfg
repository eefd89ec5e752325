SPECIFICATION Spec
CONSTANTS
  MaxAsks = 3
  MaxFaults = 1
  MaxWrites = 0
INVARIANT NeverBothWrite
CHECK_DEADLOCK FALSE
