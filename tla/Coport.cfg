CONSTANTS
  t1 = t1
  t2 = t2
  s1 = s1
  s2 = s2
  Templates = {t1, t2}
  Storages = {s1, s2}
  Nodes <- MCNodes
  Accepted <- MCVmids
  ImageSize <- MCImage
  VirtualSize <- MCVirtual
  Extras <- MCExtras
  Order <- MCOrder
  Vmids <- MCVmids
  Suggested <- MCSuggested
  VmidStart = 1
  DownloadLimit = 1
  InstallLimit = 2
  LastVersion = 2
  MaxHands = 1

SPECIFICATION Spec
CHECK_DEADLOCK FALSE

INVARIANTS
  CacheIsTrue
  UpgradeRetries
  PreflightJudges
  FailsOpen
PROPERTIES
  UnaskedSurvive
  RunEnds
