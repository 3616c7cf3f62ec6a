CONSTANTS
  Worlds <- GraphsAndInputs
SPECIFICATION Spec
CHECK_DEADLOCK FALSE
INVARIANTS
  AcceptedPlansRun
  LevelsAreEarliest
  ResolutionInv
  OutcomeHonest
PROPERTIES
  ImplementsDependencyWalk
