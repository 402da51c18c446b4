SPECIFICATION MCSpec
CONSTANTS
  Tasks = {t1}
  Workers = {w1, w2}
  None = None
  Released = Released
  RetryLimits = {0,1}
  ClaimCount = 5
  MaxTrouble = 2
CHECK_DEADLOCK FALSE
INVARIANTS
  NeverLost
  OneAtATime
  FailureIsTold
PROPERTIES
  AtLeastOnce
