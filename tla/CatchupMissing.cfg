SPECIFICATION Spec
CONSTANTS
  FromEvent = 0
  ReadBatchSize = 2
  MaxLiveQueueSize = 1
  MaxStream = 3
INVARIANT
  AllMissingEventsCaughtUp
CHECK_DEADLOCK FALSE
