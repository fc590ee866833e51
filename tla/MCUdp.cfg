SPECIFICATION FairSpec
CONSTANTS
    r1 = r1
    r2 = r2
    r3 = r3
    quic = quic
    web = web
    Requests <- MCRequests
    ConnectionOf <- MCConnectionOf
    Asks <- MCAsks
    Names = {"name"}
    Addresses = {"public", "other", "private"}
    Private = {"private"}
    Ipv6 = {"other"}
    Configs <- MCConfigs
    MaxPendingDns = 1
    EgressQueue = 1
    Window = 2
    MaxTime = 2
    Datagrams = {quic}
    None = None
INVARIANT Inv
INVARIANT NeverTwiceTheLimit
PROPERTY EndedTunnelIsReturned
CHECK_DEADLOCK FALSE
