CONSTANTS
  s1 = s1
  s2 = s2
  Symbols = {s1, s2}
  Ticks <- TwoSymbols
  RingCapacity = 2
  BatchMax = 2
  WatermarkMs = 1
  CandleHistoryLen = 2
  WindowMs = 2
  Periods = {2}
  Timeframes <- Frames
  None = None
  MaxIngests = 5
SPECIFICATION FairSpec
CHECK_DEADLOCK TRUE
INVARIANTS TicksConserved CandleRowsBacked EventsTellAll WindowExact AveragesExact
PROPERTIES RingEmptied LoopYields
