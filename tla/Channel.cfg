SPECIFICATION FairSpec
CONSTANTS
  Pages = {"first", "second"}
  FirstPage = "first"
  Connections = {"c", "d"}
  MaxPending = 2
  Budgets <- Troubles
INVARIANTS EndKeepsEverything
PROPERTIES KeepsItsPromise OutboxDrains
CHECK_DEADLOCK FALSE
