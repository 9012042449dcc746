CONSTANTS
  MaxRange = 3
  MaxResults = 2
  Attempts = 2
  RateLimitAttempts = 4
  MaxBlock = 4
  MaxLogs = 4
SPECIFICATION FairSpec
INVARIANTS
  Complete
  FailuresExplained
PROPERTY Ends
CHECK_DEADLOCK FALSE
