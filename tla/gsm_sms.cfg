CONSTANTS
  Tasks = {t1}
  NoTask = NoTask
  Numbers = {n1, n2}
  NoNumber = NoNumber
  Workload <- CheckedSms
  StartInitialized = TRUE
  DeinitAlone = TRUE
  AtTries = 2
  SignalPolls = 2
  MaxCalls = 5
  MaxBacklog = 3
  MaxBurst = 1
  MaxUrc = 0
SPECIFICATION Spec
CHECK_DEADLOCK FALSE
INVARIANTS SmsReachesItsNumber SmsNoneMeansAccepted
