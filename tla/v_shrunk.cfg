SPECIFICATION Spec
CONSTANTS
  Earnings = {2}
  Net <- MCNet
  MaxPayouts = 1
  Reversals = {r1}
  Workers = {w1}
  MaxAttempts = 3
  MaxSyncs = 1
  MaxCrashes = 1
  SlowCalls = FALSE
  StatusErrors = FALSE
INVARIANT AllSentIsEarned
CHECK_DEADLOCK FALSE
