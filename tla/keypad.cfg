SPECIFICATION FairSpec
CONSTANTS
  ROWS = 2
  COLUMNS = 2
  v1 = v1
  v2 = v2
  Vectors <- TwoVectors
  VectorOf <- OneEach
  NoKey = NoKey
  QueueLength = 1
  TimerQueueLength = 3
  PressedKeys <- Diagonal
  MaxPresses = 2
  MaxCalls = 2
CHECK_DEADLOCK FALSE
INVARIANTS
  TypeOK
  MasksEnd
  CommandFits
  ReportedOnce
  FindsFirst
  DeinitIsFinal
PROPERTIES
  PressArrives
