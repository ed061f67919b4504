SPECIFICATION FairSpec
CONSTANTS
  FromEvent = 0
  ReadBatchSize = 2
  MaxLiveQueueSize = 1
  MaxStream = 6
INVARIANTS
  OnlyConfirmedEventSkipped
  DroppedTwiceOnlyByRead
PROPERTIES
  LiveEventsDelivered
  OnlyMissedEventsAfterStop
CHECK_DEADLOCK FALSE
