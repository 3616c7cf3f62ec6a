CONSTANTS
  c1 = c1
  c2 = c2
  c3 = c3
  b1 = b1
  b2 = b2
  b3 = b3
  Unlimited = Unlimited
  Calls = {c1}
  Bindings = {b1, b2, b3}
  Candidates <- LadderCandidates
  NodeRetries <- LadderNode
  BindingRetries <- LadderRetries
  MaxConcurrency <- LadderLimits
  Stateful = {b2, b3}
  Idempotent = {b2}
  DelegateResults = {"ok", "routing", "dispatch", "execution", "timeout", "backpressure", "canceled", "contract"}
  AdmissionFaults = TRUE
SPECIFICATION FairSpec
CHECK_DEADLOCK FALSE
INVARIANTS
  TypeOK
  AtMostOnce
  CancellationBoundary
  RecordWellFormed
PROPERTIES
  ImplementsAttemptPolicy
  Termination
