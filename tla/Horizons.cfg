CONSTANTS
  Duration <- Minutes
  BlankTarget = BlankTarget
  Policy <- DefaultPolicy
  Scenarios <- BatchScenarios
SPECIFICATION Spec
CHECK_DEADLOCK FALSE
INVARIANTS
  BatchInv
  DirectionInv
  EveryAnalysisIsDecided
  NoSidePreferred
  RiskOnlyCoversPosture
