CONSTANTS
  Tasks = {t1, t2}
  NoTask = NoTask
  Numbers = {n1}
  NoNumber = NoNumber
  Workload <- Everything
  StartInitialized = TRUE
  DeinitAlone = FALSE
  AtTries = 2
  SignalPolls = 2
  MaxCalls = 1
  MaxBacklog = 1
  MaxBurst = 1
  MaxUrc = 1
SPECIFICATION FairSpec
CHECK_DEADLOCK FALSE
INVARIANTS TypeOK OneTransaction NoLockLeak
PROPERTIES EveryCallReturns ImplementsSession
