CONSTANTS
  r1 = r1
  r2 = r2
  n1 = n1
  Tasks = {r1, r2, n1}
  Native = {n1}
  MaxResults = 2
  Yields = {r1, n1}
  OtherStops = FALSE
SPECIFICATION FairSpec
INVARIANT CancelledInTime
PROPERTIES LastResult StoppedEnds CloseEnds
CHECK_DEADLOCK FALSE
