SPECIFICATION AppSpec
CONSTANTS
  g1 = g1
  g2 = g2
  Groups = {g1, g2}
  Taddrs <- MCTaddrs
  Ludps <- MCLudps
  PortLists <- MCPlainPorts
  Durations = {9}
  Timeouts = {20}
  KeepAlives = {0}
INVARIANTS InitAssertsHold
