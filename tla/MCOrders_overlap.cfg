SPECIFICATION Spec
CONSTANTS
  p1 = p1
  p2 = p2
  Products = {p1, p2}
  Prices = {1, 2}
  Quantity <- QuantityOf
  Movers = {m1, m2, m3}
  Editors = {e1}
  Nobody = Nobody
  Unread = Unread
  MaxServed = 4
SYMMETRY Symmetry
INVARIANT FulfilledWasConfirmed
INVARIANT AuditExplains
INVARIANT TotalIsSnapshot
