SPECIFICATION FairSpec
CONSTANTS
  Servers = {s1, s2}
  Free = Free
  MaxTokens = 2
  MaxVersions = 2
  MaxUploads = 2
  Keep = 1
  MaxDamage = 1
  MaxDeaths = 1
  Strangers = TRUE
  s1 = s1
  s2 = s2
INVARIANTS RecoveryInv SoundIsSpared RebuiltCovers
PROPERTIES HostedIsListed
CHECK_DEADLOCK FALSE
