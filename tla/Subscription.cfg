SPECIFICATION FairSpec
CONSTANTS
  AllowedInFlight = 2
  MaxEvents = 3
INVARIANTS
  OneDropPath
PROPERTIES
  NoEventAfterStop
  EndIsNotified
  EventsKeepFlowing
CHECK_DEADLOCK FALSE
