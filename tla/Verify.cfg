SPECIFICATION Spec
CONSTANTS
  v1 = v1
  v2 = v2
  Verification <- Two
  Vmids = 2
  LeaseStale = 1
  ResStale = 1
  MaxVersion = 2
  Rebuilt <- One
  Stranger = Stranger
  None = None
INVARIANTS
  HealthyVmStands
  VmIsFindable
  OneArtifact
