SPECIFICATION FairSpec
CONSTANTS
  Ops = {o1, o2}
  FreshId = fresh
  PackageNoModulus = 2
  MaxServerPackages = 2
INVARIANTS
  TypeOK
  HandledExactlyOnce
  RegisteredWithDeadline
  WriterAwake
  SendOrder
  ThrowsOnlyOnLateCancel
PROPERTIES
  SendsDrain
  ImplementsRequestsFairly
CHECK_DEADLOCK FALSE
