SPECIFICATION FairSpec
CONSTANTS
  Blocks = {b1, b2, b3}
  Rows = 2
  Workers = {w1, w2}
  Engines = {"go", "python"}
  MaxLoads = 2
  None = None
  Injector = Injector
INVARIANT LoadInv
PROPERTIES LoadsWholeBlocks EveryLoadEnds
CHECK_DEADLOCK FALSE
