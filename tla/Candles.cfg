CONSTANTS
  s1 = s1
  s2 = s2
  Symbols = {s1, s2}
  Ticks <- FewTicks
  BucketMs = 2
  HistoryLen = 2
  MaxTicks = 5
  None = None
SPECIFICATION Spec
CHECK_DEADLOCK FALSE
INVARIANTS TypeOK HistoryOrdered CandlesExact RowsFollowHistory UnplacedTicksCounted
