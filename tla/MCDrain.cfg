CONSTANTS
  Requests = {1, 2}
  Principals = {"client"}
  Connections = {1, 2}
  PrincipalOf <- OnePrincipal
  ConnectionOf <- OwnConnection
  ScopeOf <- AnyScope
  PoolOf <- OneAddress
  ActiveLimit = 2
  NewTunnelLimit = 1
  RouteAds <- DrainAds
  PermittedRanges <- OutsideRanges
  MaxSessionRoutes = 1
  MaxRegistryRoutes = 3
  QueueCapacity = 1
  Packets <- TwoPackets
  None = None
SPECIFICATION FairSpec
PROPERTY DrainCompletes
PROPERTY ShutdownReturnsEverything
CHECK_DEADLOCK FALSE
INVARIANT QueueOwnership
PROPERTY ImplementsOwnership
