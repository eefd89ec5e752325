SPECIFICATION Spec
CONSTANTS
  MaxAsks = 2
  MaxFaults = 1
  MaxWrites = 2
INVARIANTS
  OneWriter
  StoppedIsStopped
  NothingLost
PROPERTY SupersededStops
CHECK_DEADLOCK FALSE
