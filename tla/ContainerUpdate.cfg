CONSTANTS
  MaxFaults = 3
  MaxDeaths = 2
  MaxKills = 1
SPECIFICATION Spec
CHECK_DEADLOCK FALSE
INVARIANTS OutcomeIsTrue OldKeptUntilHeard RolledBackIsBack
PROPERTIES HandedOverCloses
