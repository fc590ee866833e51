SPECIFICATION Spec
CONSTANTS
  u1 = u1
  u2 = u2
  Updaters = {u1, u2}
  Old = old
  None = none
  VersionOf <- MCVersionOf
  MaxFaults = 0
INVARIANT BackupKept
CHECK_DEADLOCK FALSE
