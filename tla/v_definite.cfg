SPECIFICATION Spec
CONSTANTS
  Earnings = {1, 2}
  Net <- MCNet
  MaxPayouts = 2
  Reversals = {r1, r2}
  Workers = {w1}
  MaxAttempts = 4
  MaxSyncs = 1
  MaxCrashes = 1
  SlowCalls = FALSE
  StatusErrors = TRUE
PROPERTY OnlyDefiniteFailuresRelease
CHECK_DEADLOCK FALSE
