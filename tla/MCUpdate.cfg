SPECIFICATION FairSpec
CONSTANTS
  u1 = u1
  u2 = u2
  Updaters = {u1, u2}
  Old = old
  None = none
  VersionOf <- MCVersionOf
  MaxFaults = 3
INVARIANT Inv
INVARIANT PreviousSurvives
INVARIANT OutcomeTellsTheDisk
INVARIANT ServiceRunsTheBinary
PROPERTY UpdateEnds
CHECK_DEADLOCK FALSE
