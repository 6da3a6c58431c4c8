SPECIFICATION Spec
CONSTANTS
  Tasks = {t1}
  NoTask = NoTask
  Parts = {p1}
  Values = {v1}
  Blank = Blank
  Torn = Torn
  Workload <- WriteAndSync
  MaxCalls = 5
  MaxFaults = 1
  MaxCrashes = 0
CHECK_DEADLOCK FALSE
INVARIANT SyncIsDurable
