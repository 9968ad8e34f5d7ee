SPECIFICATION Spec
CONSTANTS
  Hosters = {h1}
  Readers = {r1}
  Backers = {b1, b2}
  Janitors = {}
  Fragile = {b1}
  Keep = 2
  MaxAge = 9
  BackupMaxAge = 9
  DebrisMaxAge = 9
  Budget = FALSE
  Throttle = 2
  Undetected = FALSE
  Damage = TRUE
  MaxHosts = 2
  MaxTime = 3
  MaxBackup = 9
  None = None
  Bad = Bad
  h1 = h1
  r1 = r1
  b1 = b1
  b2 = b2
INVARIANTS BackupInv PairUnderLock
PROPERTIES ContentStaysBackedUp
CHECK_DEADLOCK FALSE
