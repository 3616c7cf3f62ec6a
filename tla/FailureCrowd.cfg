CONSTANTS
  c1 = c1
  c2 = c2
  c3 = c3
  b1 = b1
  b2 = b2
  b3 = b3
  Unlimited = Unlimited
  Calls = {c1, c2, c3}
  Bindings = {b1, b2}
  Candidates <- CrowdCandidates
  NodeRetries <- CrowdNode
  BindingRetries <- CrowdRetries
  MaxConcurrency <- CrowdLimits
  Stateful = {}
  Idempotent = {}
  DelegateResults = {"ok"}
  AdmissionFaults = FALSE
SPECIFICATION Spec
CHECK_DEADLOCK FALSE
INVARIANTS
  AdmissionBound
  ExactAccounting
PROPERTIES
  ImplementsBindingSlots
