SPECIFICATION Spec
CONSTANTS
  d1 = d1
  d2 = d2
  c1 = c1
  c2 = c2
  Daemons = {d1, d2}
  Clients = {c1, c2}
  MaxClients = 1
  Hangup = Hangup
  None = None
  Kinds <- MCKinds
  Start = "good"
  MaxWrites = 2
  Valid <- MCValid
  RestartPart <- MCRestartPart
  MaxFaults = 1
SYMMETRY Symmetry
INVARIANT Inv
INVARIANT ControlPathLeadsHome
PROPERTY ReloadCarriesTheChange
PROPERTY OnlyOverlapGoesBack
CHECK_DEADLOCK FALSE
