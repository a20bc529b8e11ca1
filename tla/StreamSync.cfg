SPECIFICATION FairSpec
CONSTANTS
  p1 = p1
  p3 = p3
  Pkts <- MCPkts
  LenOf <- MCLenOf
  SockBuf = 13
  ReadMax = 13
  MaxPkt = 8
  MaxSends = 3
INVARIANTS BuffersFit
PROPERTIES IsQueue AllDelivered
CHECK_DEADLOCK FALSE
