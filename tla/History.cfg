CONSTANTS
  Runs = {r1, r2}
  Bindings = {1, 2}
  MinTraces = 2
  MaxFailed = 1
  OutOf = 4
  Settings <- OverlapAndRanking
  r1 = r1
  r2 = r2
SPECIFICATION FairHistorySpec
INVARIANTS
  PlacementInv
PROPERTIES
  EveryBindingReturns
  NeutralOutcomes
