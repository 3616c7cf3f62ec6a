CONSTANTS
  r1 = r1
  r2 = r2
  Runs = {r1, r2}
  NodeCount = 2
  Worlds <- HardWorlds
SPECIFICATION Spec
CHECK_DEADLOCK FALSE
SYMMETRY Interchangeable
INVARIANTS
  DurabilityInv
  HistoryInv
  FailureAnnounced
  LossHasItsCause
PROPERTIES
  RunFileSettles
