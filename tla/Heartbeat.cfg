SPECIFICATION HFairSpec
CONSTANTS
  Ops = {o1}
  FreshId = fresh
  PackageNoModulus = 2
  MaxServerPackages = 2
PROPERTIES
  NoRequestIntoSilence
  TimeoutOnlyOnSilence
  SilenceEndsConnection
CHECK_DEADLOCK FALSE
