SPECIFICATION Spec
CONSTANTS
  none = none
  n1 = n1
  n2 = n2
  r1 = r1
  r2 = r2
  r3 = r3
  f1 = f1
  Node <- TwoNodes
  Run <- ThreeRuns
  NodeOf <- Peers
  SlotCount = 1
  Lapsing <- First
  Foreign <- ATemplate
  SlotOf <- FirstSlot
INVARIANTS
  SlotIsHeld
CHECK_DEADLOCK FALSE
