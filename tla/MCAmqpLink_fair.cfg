SPECIFICATION FairSpec
CONSTANTS
  Config <- MCConfig
  MaxConn = 5
  MaxAttempt = 2
  MaxFaults = 3
  MaxCalls = 1
INVARIANTS
  TypeOK
  OneLink
  StopsForGood
PROPERTY
  ComesBack
CHECK_DEADLOCK FALSE
