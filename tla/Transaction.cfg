SPECIFICATION Spec
CONSTANTS
  MaxSingle = 1
  MaxWrites = 2
  MaxCommits = 2
  MaxCalls = 4
INVARIANTS
  SuccessIsTrue
  CommitKeepsWrites
  RolledBackStaysOut
  CommitSentOnce
  ToldUnlessServerTimedOut
CHECK_DEADLOCK FALSE
