SPECIFICATION FairBuildSpec
CONSTANTS
  Attempts = 2
  MaxTransport = 2
INVARIANTS
  VmInCharge
PROPERTIES
  RunEnds
  VmGoesAway
CHECK_DEADLOCK FALSE
