SPECIFICATION Spec
CONSTANTS
  b1 = b1
  b2 = b2
  Samples <- SampleList
  E2E = e2e
  People = {b1, p1}
  Names = {b1, e2e}
  Long = {e2e}
  Requests = {r1, r2}
  MaxTenants = 3
  MaxEdits = 2
SYMMETRY Symmetry
INVARIANTS
  RerunIsSafe
  SeedFailsForReason
  TenantsOwned
CHECK_DEADLOCK FALSE
