CONSTANTS
  Entries = 3
  FailedDirs = {"failed1", "failed2", "failed3", "failed4"}
  Setups <- MCSetups
SPECIFICATION Spec
CHECK_DEADLOCK FALSE
INVARIANTS OldDataKept ServesWhole RecordTrue OnNewestTimeline
PROPERTIES Settles
