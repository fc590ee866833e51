CONSTANTS
  Resources <- MCResources
  KindOf <- MCKindOf
  Plan <- MCPlan
  MaxFaults = 3
SPECIFICATION FairSpec
INVARIANT Tracked
PROPERTY EvidenceKeptByServer
PROPERTY RoutesGoBeforeTun
PROPERTY Recovers
