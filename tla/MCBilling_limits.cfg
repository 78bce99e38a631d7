SPECIFICATION Spec
CONSTANTS
  Tenants = {t1, t2}
  Requests = {r1, r2}
  Us = t1
  Limit = 1
  Months = 2
  MaxLive = 3
  MaxSends = 2
  MaxServed = 3
SYMMETRY Symmetry
INVARIANTS
  LimitHolds
  CampaignLimit
  BilledOnce
PROPERTIES
  InvoicesStay
CHECK_DEADLOCK FALSE
