CONSTANTS
  main = main
  thread = thread
  start = start
  func = func
  first = first
  second = second
  later = later
  now = now
  Jobs = {start, func, first, second, now}
  Threads = {main, thread}
  Main = main
  Program <- Programs
  Api <- Apis
  NoRetry = {now}
  Enqueue = {start}
  Before <- NoWaits
  Between <- Retries
  Startup = {start}
  FuncOf <- Functions
  Reconnect = 1
  Pumps = {first}
  MaxDepth = 2
  MaxTime = 1
SPECIFICATION FairSpec
INVARIANTS Prompt OnePlace InOrder
PROPERTIES TriedSoon Settled
