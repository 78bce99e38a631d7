SPECIFICATION FairSpec
CONSTANTS
  Customers = {c1}
  Presses = {p1, p2}
  Editors = {e1}
  Concurrency = 2
  Limit = 1
  MaxCrashes = 1
  c1 = c1
  p1 = p1
  p2 = p2
  e1 = e1
  NoCustomer = NoCustomer
INVARIANT OptOutRespected
INVARIANT NoRepeat
INVARIANT NoneLeftBehind
INVARIANT RowsBacked
INVARIANT NeverStranded
PROPERTY QueuedGetsOutcome
