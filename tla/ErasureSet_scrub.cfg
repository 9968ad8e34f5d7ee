SPECIFICATION FairSpec
CONSTANTS
  NRoots = 3
  K = 1
  M = 1
  NStripes = 2
  MaxHits = 2
  MaxOutages = 1
  MaxCrashes = 1
  Rot = FALSE
  None = None
  Bad = Bad
INVARIANTS TypeOK ManifestMeansShards
PROPERTY RepairKeeps RegainsRedundancy
CHECK_DEADLOCK FALSE
