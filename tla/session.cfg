CONSTANTS
  b1 = b1
  b2 = b2
  c1 = c1
  Books = {b1, b2}
  Cells = {c1}
  Starts <- Nested
  Span = 2
  MaxObjects = 3
  MaxCycles = 1
  HandlerOpens = {b2}
  Renames = TRUE
  Silences = TRUE
  MaxChecks = 2
  MaxOpened = 3
SPECIFICATION FairSpec
INVARIANTS OneCycle LatestResolves KnowsOpen
PROPERTY ClosedReaped
CHECK_DEADLOCK FALSE
