SPECIFICATION FairSpec
CONSTANTS
  Events = {e1, e2}
  Deliveries = {d1, d2}
  Staff = {s1}
  MaxFailures = 1
  MaxDeletions = 1
  NoEvent = NoEvent
  e1 = e1
  e2 = e2
  d1 = d1
  d2 = d2
  s1 = s1

INVARIANT ExactlyOnce
INVARIANT AnsweredIsStored
INVARIANT OneConversation
INVARIANT UnreadCounts
PROPERTY EveryPostAnswered
CHECK_DEADLOCK FALSE
