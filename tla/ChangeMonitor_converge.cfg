SPECIFICATION FairSpec
CONSTANTS
  Files = {f1, f2, f3}
  Deletable = {f1, f2, f3}
  Contents = {c1}
  Absent = Absent
  Monitors = {m1}
  Capacities = {2}
  MaxCapacity = 2
  RecordOffline = TRUE
  Complete = FALSE
  MaxEdits = 3
  MaxStops = 0
  MaxCrashes = 1
  MaxFaults = 0
  MaxUnread = 0
INVARIANTS LogHoldsRing BatchesAreLast RingIsLastEvents SeqNamesOneEvent
PROPERTY Converges
CHECK_DEADLOCK FALSE
