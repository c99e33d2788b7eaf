CONSTANTS
  Lines <- MCLines
  NPages = 3
  PageOf <- MCPageOf
  InitLinks <- MCPairs
  Dangling <- MCDangling
  PlanOf <- PlanByPage
  PerChunkBudget = 4
  MaxAttempts = 2
  Routing = FALSE
  CanEscalate = FALSE
SPECIFICATION FairSpec
INVARIANTS TypeOK FallenIsSource Purse PairWhole OwnAnswer CauseReported
PROPERTIES DecisionsHold Terminates
