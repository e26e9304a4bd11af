\* Two ticks more than the ring holds.
SPECIFICATION FairSpec
CONSTANTS
  None = None
  Capacity = 2
  N = 4
  BatchMax = 2
PROPERTY ReportMade
CHECK_DEADLOCK FALSE
