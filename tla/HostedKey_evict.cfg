SPECIFICATION Spec
CONSTANTS
  Hosters = {h1}
  Readers = {}
  Backers = {b1}
  Janitors = {j1}
  Fragile = {}
  Keep = 1
  MaxAge = 1
  BackupMaxAge = 9
  DebrisMaxAge = 9
  Budget = FALSE
  Throttle = 0
  Undetected = FALSE
  Damage = FALSE
  MaxHosts = 3
  MaxTime = 4
  MaxBackup = 9
  None = None
  Bad = Bad
  h1 = h1
  b1 = b1
  j1 = j1
PROPERTIES EvictSparesUsed
CHECK_DEADLOCK FALSE
