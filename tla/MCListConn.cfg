SPECIFICATION ConnSpec
CONSTANTS
  Nothing = Nothing
  Values <- MCValues
  MinCap = 2
  MaxLen = 5
  MaxArrayLen = 4
  MaxBulkSize = 6
  MaxLine = 4
  MaxDepth = 3
  Workloads <- MCWorkloads
  Pipeline = 2
INVARIANTS
  RingOK
  ReadsExact
  FramesInOrder
  NoPhantomCommand
PROPERTY
  ImplementsList
CHECK_DEADLOCK FALSE
