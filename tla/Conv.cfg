CONSTANTS
    a1 = a1
    a2 = a2
    ip1 = ip1
    ip2 = ip2
    Apps = {a1, a2}
    Ips = {ip1, ip2}
    Sites <- MCSites
    MaxConv = 2
    NoConn = NoConn

SPECIFICATION ConvFairSpec
INVARIANTS MapsAgree NoCrossTalk
PROPERTIES OrphanClosed UnansweredClosed
