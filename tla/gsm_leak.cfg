CONSTANTS
  Tasks = {t1}
  NoTask = NoTask
  Numbers = {n1, n2}
  NoNumber = NoNumber
  Workload <- StatusOnly
  StartInitialized = TRUE
  DeinitAlone = TRUE
  AtTries = 2
  SignalPolls = 2
  MaxCalls = 2
  MaxBacklog = 1
  MaxBurst = 1
  MaxUrc = 1
SPECIFICATION Spec
CHECK_DEADLOCK FALSE
INVARIANTS NothingLeaksIn
