SPECIFICATION FairSpec
CONSTANTS
  MaxPids = 5
  Threshold = 2
  MaxRestarts = 1
  Window = 1
  MaxTime = 2
  MaxFaults = 2
  MaxStops = 1
  MaxPrunes = 1
  None = None
INVARIANTS FleetInv OneServer ServingIsNamed RestartsCapped
PROPERTY ServedOrGivenUp
CHECK_DEADLOCK FALSE
