CONSTANTS
  Duration <- Minutes
  BlankTarget = BlankTarget
  Policy <- DefaultPolicy
  Scenarios <- HairlineScenarios
SPECIFICATION Spec
CHECK_DEADLOCK FALSE
INVARIANTS
  EveryAnalysisIsDecided
