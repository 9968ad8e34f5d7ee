SPECIFICATION Spec
CONSTANTS
  Files = {f1, f2}
  Deletable = {f1}
  Contents = {c1, c2}
  Absent = Absent
  Monitors = {m1}
  Capacities = {2}
  MaxCapacity = 2
  RecordOffline = TRUE
  Complete = FALSE
  MaxEdits = 2
  MaxStops = 1
  MaxCrashes = 0
  MaxFaults = 1
  MaxUnread = 1
INVARIANT IndexNamesItsEvent
PROPERTY Chained
CHECK_DEADLOCK FALSE
