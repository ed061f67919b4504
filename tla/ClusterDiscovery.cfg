SPECIFICATION FairSpec
CONSTANTS
  Connections = {c1, c2}
  Seeds = 2
  MaxDiscoverAttempts = 2
  States = {"slave", "master"}
  MaxMembers = 3
INVARIANTS
  CalledOnce
  GivesUpOnlyAfterAllAsked
  ChosenNodeIsBest
PROPERTY
  DiscoveryEnds
CHECK_DEADLOCK FALSE
