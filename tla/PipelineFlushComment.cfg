CONSTANTS
  s1 = s1
  s2 = s2
  Symbols = {s1}
  Ticks <- OneSymbol
  RingCapacity = 2
  BatchMax = 2
  WatermarkMs = 1
  CandleHistoryLen = 2
  WindowMs = 2
  Periods = {2}
  Timeframes <- Frames
  None = None
  MaxIngests = 3
SPECIFICATION Spec
CHECK_DEADLOCK TRUE
INVARIANTS NothingHeldAtStop
