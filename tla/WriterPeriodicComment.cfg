CONSTANTS
  k1 = k1
  Keys = {k1}
  None = None
  MaxRows = 2
  MaxFaults = 1
  MaxRuns = 1
SPECIFICATION FairSpec
CHECK_DEADLOCK FALSE
PROPERTIES PeriodicallyFlushed
