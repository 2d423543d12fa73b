SPECIFICATION Spec
CONSTANTS
  r1 = r1
  r2 = r2
  r3 = r3
  Run <- Rivals
  Recipe <- RivalRecipe
  Resource <- Resources
  Need <- Needs
  Capacity <- NodeHas
  Budget <- Budgets
  Preserve <- KeptRival
  StaleTicks = 1
  Prefixes <- OnlyByName
  Builders <- Twins
  Mortal <- Twins
  Nobody = Nobody
  Pruner = Pruner
INVARIANTS
  HealthyRunKeepsLease
  VmHasLease
PROPERTIES
  PreservedVmSurvives
