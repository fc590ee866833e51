CONSTANTS
  Requests = {1, 2, 3}
  Principals = {"client"}
  Connections = {"quic"}
  PrincipalOf <- OnePrincipal
  ConnectionOf <- OneConnection
  ScopeOf <- MixedScopes
  PoolOf <- DualPools
  ActiveLimit = 2
  NewTunnelLimit = 2
  RouteAds <- SomeAds
  PermittedRanges <- OutsideRanges
  MaxSessionRoutes = 2
  MaxRegistryRoutes = 2
  QueueCapacity = 1
  Packets = {}
  None = None
SPECIFICATION Spec
INVARIANT LeaseOwnership
INVARIANT NoRegistryConflict
INVARIANT RoutesExclusive
INVARIANT RouteSelectionUnambiguous
INVARIANT RouteTablesBounded
CHECK_DEADLOCK FALSE
