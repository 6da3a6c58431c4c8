SPECIFICATION Spec
CONSTANTS
  Tasks = {t1}
  Entropy = Entropy
  NoTask = NoTask
  NoSeed = NoSeed
  TornSeed = TornSeed
  Freed = Freed
  Fold <- XorOfBits
  Workload <- Numbers
  MaxErrors = 5
  MaxCalls = 1
  MaxSaves = 5
  MaxFaults = 0
  MaxCrashes = 0
CHECK_DEADLOCK FALSE
INVARIANTS
  PanicMeansFailures
