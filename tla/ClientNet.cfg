SPECIFICATION FairSpec
CONSTANTS
  p1 = p1
  p2 = p2
  s1 = s1
  s2 = s2
  d1 = d1
  d2 = d2
  d3 = d3
  u1 = u1
  NoConn = NoConn
  NoDial = NoDial
  Ports <- MCPorts
  SrcPorts <- MCSrcPorts
  Dials <- MCDials
  UdpConns <- MCUdp
  MAX_RETRY = 3
  MaxDuration = 5
INVARIANTS OneSlotPerPort SocketsOwned
PROPERTIES SlotProtocol Reconnected
CHECK_DEADLOCK FALSE
