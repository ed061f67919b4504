SPECIFICATION FairSpec
CONSTANTS
  ReadBatchSize = 2
  MaxLiveQueueSize = 1
  FirstPosition = 1
  MaxLog = 3
INVARIANTS
  OnlyConfirmedEventSkipped
  InOrder
PROPERTY
  CatchUpEnds
CHECK_DEADLOCK FALSE
