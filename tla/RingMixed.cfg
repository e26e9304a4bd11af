CONSTANTS
  p1 = p1
  p2 = p2
  c1 = c1
  Tasks = {p1, p2, c1}
  Calls <- LockingCalls
  Capacity = 2
  BatchMax = 1
  MaxPushes = 5
  None = None
SPECIFICATION Spec
CHECK_DEADLOCK TRUE
INVARIANTS TypeOK EveryPushAccounted DrainerNotStranded
PROPERTIES BlockingNeverDrops ImplementsQueue
