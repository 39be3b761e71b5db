CONSTANTS
  t1 = t1
  t2 = t2
  p1 = p1
  p2 = p2
  None = None
  NoUpdate = NoUpdate
  Topics = {t1}
  Ids = {1}
  Pubs = {p1,p2}
  Values = {v1}
  TopicOf <- SameTopic
  AsyncPubs = {}
  StartMayThrow = TRUE
  UserCalls = {"drop"}
  MaxQueue = 1
  MaxSessions = 1
SPECIFICATION Spec
INVARIANTS NoOrphanTask AllStopped Handshake
SYMMETRY Exchange
CHECK_DEADLOCK FALSE
