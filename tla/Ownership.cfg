SPECIFICATION FairSpec
CONSTANTS
  Nodes = {"a", "b"}
  MaxInputs = 1
  MaxOthers = 2
  MaxFaults = 2
INVARIANTS OwnersInTurn RestoredIsComplete SealIsFinal InputsAccounted AckedIsDurable
PROPERTIES InputsGetThrough
CHECK_DEADLOCK FALSE
