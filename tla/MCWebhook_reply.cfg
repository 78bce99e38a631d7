SPECIFICATION Spec
CONSTANTS
  Events = {e1, e2}
  Deliveries = {d1, d2}
  Staff = {}
  MaxFailures = 0
  MaxDeletions = 0
  NoEvent = NoEvent
  e1 = e1
  e2 = e2
  d1 = d1
  d2 = d2
INVARIANT ReplyFindsMessage
CHECK_DEADLOCK FALSE
