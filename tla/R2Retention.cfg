SPECIFICATION Spec
CONSTANTS
  Template <- TwoTemplates
  Legacy <- OldTemplates
  Builds <- TwoBuilds
  EfiOf <- SharedVarstore
  Direct <- SecondBare
  Bare <- SecondBare
  Unfit <- NewTemplates
  Keep = 1
  MaxStored = 3
  MaxPrunes = 1
  Pruner <- BothPruners
INVARIANTS
  SidecarsWhole
  RegistryStands
PROPERTIES
  RegistryNeverBack
