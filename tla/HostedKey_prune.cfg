SPECIFICATION Spec
CONSTANTS
  Hosters = {h1}
  Readers = {}
  Backers = {b1}
  Janitors = {j1}
  Fragile = {b1, j1}
  Keep = 2
  MaxAge = 9
  BackupMaxAge = 1
  DebrisMaxAge = 1
  Budget = FALSE
  Throttle = 0
  Undetected = FALSE
  Damage = FALSE
  MaxHosts = 1
  MaxTime = 4
  MaxBackup = 0
  None = None
  Bad = Bad
  h1 = h1
  b1 = b1
  j1 = j1
INVARIANTS CompleteIsRestorable SetsInv
PROPERTIES LastSetKept
CHECK_DEADLOCK FALSE
