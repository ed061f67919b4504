SPECIFICATION FairSpec
CONSTANTS
  ByteModulus = 4
  CorrelationSize = 2
  kMaxPackageSize = 17
  MaxName = 5
  MaxMessage = 1
  MaxPackages = 2
INVARIANTS
  FramesInOrder
  ViewStaysInFrame
PROPERTY
  EveryPackageRead
CHECK_DEADLOCK FALSE
