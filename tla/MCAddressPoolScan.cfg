CONSTANT Networks <- MCNetworks
SPECIFICATION Spec
INVARIANT HostAddressesOnlyAndAll
PROPERTY ScanReturns
PROPERTY ImplementsAtomicPool
