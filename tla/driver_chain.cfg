CONSTANTS
  Lines <- MCLines
  NPages = 3
  PageOf <- MCPageOf
  InitLinks <- MCChain
  Dangling <- MCDangling
  PlanOf <- PlanByPage
  PerChunkBudget = 3
  MaxAttempts = 2
  Routing = FALSE
  CanEscalate = FALSE
SPECIFICATION Spec
INVARIANTS UnitWhole
