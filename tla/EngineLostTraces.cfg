CONSTANTS
  r1 = r1
  r2 = r2
  Runs = {r1}
  NodeCount = 2
  Worlds <- CellSubscribers
SPECIFICATION Spec
CHECK_DEADLOCK FALSE
INVARIANTS
  FailedRunKeepsExecution
