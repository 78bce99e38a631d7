SPECIFICATION Spec
CONSTANTS
  Customers = {c1, c2}
  Presses = {p1}
  Editors = {}
  Concurrency = 1
  Limit = 0
  MaxCrashes = 1
  c1 = c1
  c2 = c2
  p1 = p1
  NoCustomer = NoCustomer
INVARIANT CountsMatchRows
PROPERTY KeepsPromise
