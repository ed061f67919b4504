SPECIFICATION FairSpec
CONSTANTS
  MaxReconnections = 1
  MaxServerPackages = 4
INVARIANTS
  TypeOK
  SuccessOnlyIfGranted
  ExtraCallsNeedExpiry
PROPERTY
  ConnectNotifiesUnlessIgnored
CHECK_DEADLOCK FALSE
