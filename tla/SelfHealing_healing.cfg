SPECIFICATION FairSpec
CONSTANTS
  MaxHosts = 2
  MaxDamage = 1
  MaxLoss = 1
  MaxMishaps = 1
  Keep = 2
  AllowRollback = TRUE
  DriftAction = "restore"
  Requests = {{}, {"heal"}, {"backup"}}
  None = None
  Bad = Bad
INVARIANT HealInv
PROPERTY EventuallyHealed FlagStopsRotation
