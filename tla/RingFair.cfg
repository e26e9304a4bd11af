CONSTANTS
  p1 = p1
  p2 = p2
  c1 = c1
  Tasks = {p1, p2, c1}
  Calls <- LoopCalls
  Capacity = 2
  BatchMax = 1
  MaxPushes = 4
  None = None
SPECIFICATION FairSpec
CHECK_DEADLOCK TRUE
INVARIANTS NoLostWakeup
PROPERTIES DrainReturns BlockedAdmitted PushedItemsLeave
