SPECIFICATION FairSpec
CONSTANTS
  Tasks = {t1, t2}
  Entropy = Entropy
  NoTask = NoTask
  NoSeed = NoSeed
  TornSeed = TornSeed
  Freed = Freed
  Fold <- XorOfBits
  Workload <- Operations
  MaxErrors = 2
  MaxCalls = 3
  MaxSaves = 2
  MaxFaults = 0
  MaxCrashes = 0
CHECK_DEADLOCK FALSE
INVARIANTS
  NothingOrphaned
  HoldersGoOn
PROPERTIES
  EveryCallReturns
