CONSTANTS
  Requests <- AllRequests
  Catalog <- Services
  Decisions <- Answers
SPECIFICATION Spec
CHECK_DEADLOCK FALSE
INVARIANTS
  AssemblyInv
  LaddersAreCatalogued
  OrgansAreClosed
