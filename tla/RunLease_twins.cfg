SPECIFICATION FairSpec
CONSTANTS
  r1 = r1
  r2 = r2
  r3 = r3
  Run <- Twins
  Recipe <- TwinRecipe
  Resource <- Resources
  Need <- Needs
  Capacity <- NodeHas
  Budget <- Budgets
  Preserve = {}
  StaleTicks = 1
  Prefixes = {{}}
  Builders = {}
  Mortal <- Twin
  Nobody = Nobody
  Pruner = Pruner
PROPERTIES
  AdmissionSpec
  AdmissionAnswers
