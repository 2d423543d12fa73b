SPECIFICATION FairSpec
CONSTANTS
  p1 = p1
  p2 = p2
  p3 = p3
  p4 = p4
  Run <- Runs
  Recipe <- RecipeOf
  Resource <- Resources
  Need <- Needs
  Capacity <- Budgets
  Concurrency = 2
  PrefetchConcurrency = 1
  LocksFail = TRUE
INVARIANTS
  ReportIsComplete
  ParallelBuildsDiffer
  QuietWhenReleased
  BudgetsRespected
PROPERTIES
  EveryRecipeEnds
  OvertakesOnlyTooBig
CHECK_DEADLOCK FALSE
