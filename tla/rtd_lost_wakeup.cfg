CONSTANTS
  t1 = t1
  t2 = t2
  p1 = p1
  p2 = p2
  None = None
  NoUpdate = NoUpdate
  Topics = {t1}
  Ids = {1}
  Pubs = {}
  Values = {v1}
  TopicOf <- NoPubs
  AsyncPubs = {}
  StartMayThrow = FALSE
  UserCalls = {}
  MaxQueue = 1
  MaxSessions = 1
SPECIFICATION FairSpec
PROPERTY JoinReturns
CHECK_DEADLOCK FALSE
