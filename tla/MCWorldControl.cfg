\* Vertical slices with client times, failing calls and restarts.
CONSTANTS
  b1 = b1 b2 = b2 t1 = t1 t2 = t2 none = none
  Threads = {t1, t2}
  Instances = {b1, b2}
  NoInstance = none
  Rivals <- OneRivalry
  Interval = 2
  Parts = 2
  Kinds = {"sync", "start", "formation", "resolve", "action", "slice"}
  ClientTimes = {0, 4}
  MaxTime = 3
  MaxRequests = 3
  MaxFailures = 1
SPECIFICATION Spec
INVARIANTS IndInv ScheduleKept SnapshotOrdered
SYMMETRY Symmetry
CHECK_DEADLOCK FALSE
