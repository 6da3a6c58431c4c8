CONSTANTS
  Tasks = {t1}
  NoTask = NoTask
  Numbers = {n1, n2}
  NoNumber = NoNumber
  Workload <- StatusOnly
  StartInitialized = TRUE
  DeinitAlone = TRUE
  AtTries = 2
  SignalPolls = 2
  MaxCalls = 3
  MaxBacklog = 12
  MaxBurst = 2
  MaxUrc = 1
SPECIFICATION FairModuleSpec
CHECK_DEADLOCK FALSE
PROPERTIES DeadReceptionEnds
