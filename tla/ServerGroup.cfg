SPECIFICATION FairSpec
CONSTANTS
  a = a
  b = b
  a1 = a1
  a2 = a2
  a3 = a3
  a4 = a4
  b1 = b1
  v1 = v1
  NoConn = NoConn
  NoConv = NoConv
  Ids <- MCIds
  Conns <- MCConns
  Tcp <- MCTcp
  Convs <- MCConvs
  MaxNet = 1
  MaxDials = 2
INVARIANTS SocketsOwned GroupsApart
PROPERTIES  SocketReclaimed GroupReaped
CHECK_DEADLOCK FALSE
