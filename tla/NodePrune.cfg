SPECIFICATION Spec
CONSTANTS
  b1 = b1
  b2 = b2
  h1 = h1
  h2 = h2
  Build <- TwoBuilds
  Snapshot <- TwoSnapshots
  None = None
SYMMETRY Alike
INVARIANTS
  EarlyPinStands
  CurrentStands
PROPERTIES
  PruneSparesMedia
