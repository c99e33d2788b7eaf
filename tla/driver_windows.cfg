CONSTANTS
  Lines <- MCLines
  NPages = 3
  PageOf <- MCPageOf
  InitLinks <- MCPairs
  Dangling <- MCDangling
  PlanOf <- PlanByWindow
  PerChunkBudget = 4
  MaxAttempts = 1
  Routing = TRUE
  CanEscalate = TRUE
SPECIFICATION Spec
INVARIANTS NoLimbo PairWhole
PROPERTIES OnlyOwnUnits
