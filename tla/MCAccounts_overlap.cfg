SPECIFICATION Spec
CONSTANTS
  Requests = {r1, r2}
  MaxAttempts = 2
  MaxServed = 6
SYMMETRY Symmetry
INVARIANTS
  LockedInTime
  LockExplained
  SingleUse
  LastWordHolds
CHECK_DEADLOCK FALSE
