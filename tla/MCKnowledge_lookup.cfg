SPECIFICATION FairSpec
CONSTANTS
  Docs = {d1}
  Lengths = {0, 4, 5, 7}
  MaxWords = 4
  Overlap = 2
  TopK = 2
  Copies = 2
  MaxDeaths = 1
  MaxSwitches = 1
INVARIANTS
  TypeOK
  ReadyIsComplete
  NeverSilent
PROPERTIES
  EveryDocumentSettles
CHECK_DEADLOCK FALSE
