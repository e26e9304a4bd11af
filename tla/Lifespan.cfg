\* Late ticks patch closed candles; one fault; one restart.
SPECIFICATION FairSpec
CONSTANTS
  sym = sym
  Symbol = sym
  BucketMs = 2
  HistoryLen = 2
  Times = {1, 2}
  None = None
  MaxTicks = 4
  MaxFaults = 1
  MaxRuns = 2
INVARIANTS
  TypeOK
  DurablePrefix
  FileIsACut
  ShutdownKeepsAll
PROPERTIES
  RowsReachDisk
  StopReturns
CHECK_DEADLOCK FALSE
