SPECIFICATION FairLockSpec
CONSTANTS
  s1 = s1
  s2 = s2
  x1 = x1
  Sharers <- TwoSharers
  Cleaners <- OneCleaner
INVARIANTS
  OkWasHeld
  CleanRunsAlone
PROPERTIES
  EveryoneEnds
CHECK_DEADLOCK FALSE
