CONSTANTS
  Ids <- FeedIds
  Times <- FeedTimes
  Watermark = 1
  MaxOffers = 4
  None = None
SPECIFICATION Spec
CHECK_DEADLOCK TRUE
INVARIANTS TypeOK ReleasedInOrder InOrderFeedUnchanged GapNeverUndercounts
