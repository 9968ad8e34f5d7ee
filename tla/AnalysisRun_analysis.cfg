SPECIFICATION FairSpec
CONSTANTS
  Shards = {code, data}
  Core = {code}
  Workers = 2
  MaxRuns = 2
  MaxMishaps = 3
  Mishaps = {"worker", "plane", "engine", "group", "file"}
INVARIANTS AnalysisInv OkHasOwnTables OkHasEveryShard
PROPERTY EveryRunEnds
CHECK_DEADLOCK FALSE
