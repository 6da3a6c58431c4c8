SPECIFICATION FairSpec
CONSTANTS
  Tasks = {t1, t2}
  NoTask = NoTask
  Parts = {p1, p2}
  Values = {v1}
  Blank = Blank
  Torn = Torn
  Workload <- AllOps
  MaxCalls = 2
  MaxFaults = 1
  MaxCrashes = 2
CHECK_DEADLOCK FALSE
INVARIANTS
  TypeOK
  OneInLittlefs
  NoneMeansSaved
PROPERTIES
  EveryCallReturns
  BootCountFresh
  ImplementsStore
