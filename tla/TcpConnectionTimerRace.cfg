SPECIFICATION Spec
CONSTANTS
  Ops = {o1}
  FreshId = fresh
  PackageNoModulus = 2
  MaxServerPackages = 1
INVARIANT
  TimerSuccessMeansTimedOut
CHECK_DEADLOCK FALSE
