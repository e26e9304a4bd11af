\* More trades than the ring holds, and enough failures to reach the cap.
SPECIFICATION FairSpec
CONSTANTS
  none = none
  Nothing = none
  InitialDelay = 1
  MaxDelay = 3
  MaxTrades = 4
  MaxReconnects = 3
  Capacity = 2
  BatchMax = 2
  Watermark = 1
INVARIANTS
  TypeOK
  GapCountExact
  DuplicatesBounded
  BackoffFollowsFailures
PROPERTY NewestTradeArrives
CHECK_DEADLOCK FALSE
