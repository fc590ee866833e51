SPECIFICATION FairSpec
CONSTANTS
    Listeners = {l1, l2}
    Connections = {c1, c2}
    Requests = {r1}
    ListenerOf <- MCListenerOf
    ConnectionOf <- MCConnectionOf
    MaxConnections = 1
    MaxFaults = 2
INVARIANT Inv
INVARIANT EndLeavesHostAsFound
PROPERTY CleanedAfterUse
PROPERTY ServerEnds
CHECK_DEADLOCK FALSE
