\* Three networks the host moves between, loses and finds again.
CONSTANTS
    n1 = n1
    n2 = n2
    n3 = n3
    Networks = {n1, n2, n3}
    NoNet = NoNet
    Link <- MCLink
    PairSize = 1

SPECIFICATION FairSpec
INVARIANTS CapOpenWhileUsed SyncConnOpen
PROPERTIES JoinReturns FollowsNetwork
CHECK_DEADLOCK FALSE
