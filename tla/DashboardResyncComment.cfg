\* Three ticks and the two requests of a page load.
SPECIFICATION Spec
CONSTANTS
  x = x
  y = y
  Symbols = {x, y}
  First = x
  MaxTicks = 3
  MaxRequests = 2
INVARIANT ClosedBarsCurrent
CHECK_DEADLOCK FALSE
