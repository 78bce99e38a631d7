SPECIFICATION Spec
CONSTANTS
  Staff = {s1, s2}
  NoOne = NoOne
  Businesses = {b1, b2}
  Segments = {g1, g2}
  Templates = {m1, m2}
  Requests = {r1, r2, r3}
  Conversations = {c1, c2}
  Questions = {q1, q2}
  TopLimit = 1
  MaxServed = 5
  MaxSetup = 3
  MaxMessages = 5
  MaxDeaths = 1
SYMMETRY Symmetry
INVARIANTS
  HistoryAgrees
  SetupAgrees
  FiguresHold
PROPERTIES
  ConsentReturns
CHECK_DEADLOCK FALSE
