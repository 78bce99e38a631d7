SPECIFICATION Spec
CONSTANTS
  p1 = p1
  p2 = p2
  Products = {p1, p2}
  Prices = {1}
  Quantity <- QuantityOf
  Movers = {m1, m2, m3}
  Editors = {e1}
  Nobody = Nobody
  Unread = Unread
  MaxServed = 1
PROPERTY FollowsLifecycle
CHECK_DEADLOCK FALSE
