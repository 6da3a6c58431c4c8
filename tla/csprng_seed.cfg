SPECIFICATION Spec
CONSTANTS
  Tasks = {t1}
  Entropy = Entropy
  NoTask = NoTask
  NoSeed = NoSeed
  TornSeed = TornSeed
  Freed = Freed
  Fold <- XorOfBits
  Workload <- Numbers
  MaxErrors = 2
  MaxCalls = 4
  MaxSaves = 1
  MaxFaults = 1
  MaxCrashes = 1
CHECK_DEADLOCK FALSE
INVARIANTS
  TypeOK
  NumbersNeverRepeat
