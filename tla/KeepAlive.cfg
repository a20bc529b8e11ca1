SPECIFICATION FairSpec
CONSTANTS
  k1 = k1
  k2 = k2
  NoConn = NoConn
  NoEnd = NoEnd
  Client = Client
  Server = Server
  Keys = {k1, k2}
  MAX_RETRY = 3
  KeyReuse = FALSE
  Settings <- MCSettings
INVARIANTS EndsMatch
PROPERTIES TimeoutAfterThreeTrials HalfOpenDropped
CHECK_DEADLOCK FALSE
