CONSTANTS
  MaxAttempts = 3
  Worlds <- Configurations
SPECIFICATION Spec
CHECK_DEADLOCK FALSE
INVARIANTS
  AcceptedIsPlanned
  EvidenceInv
  HonestAttemptsPassAudit
  SummaryChargesWhoAnswered
