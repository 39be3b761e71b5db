CONSTANTS
  t1 = t1
  t2 = t2
  p1 = p1
  p2 = p2
  None = None
  NoUpdate = NoUpdate
  Topics = {t1,t2}
  Ids = {1}
  Pubs = {}
  Values = {v1}
  TopicOf <- NoPubs
  AsyncPubs = {}
  StartMayThrow = FALSE
  UserCalls = {"publish","quit"}
  MaxQueue = 1
  MaxSessions = 1
SPECIFICATION BusySpec
INVARIANTS ActiveSubscribed
PROPERTIES FeedSpec RequestsTaken UpdatesDelivered ArrayFetched
CHECK_DEADLOCK FALSE
