SPECIFICATION Spec
CONSTANTS
  Earnings = {1, 2}
  Net <- MCNetTwo
  MaxPayouts = 3
  Reversals = {r1}
  Workers = {w1}
  MaxAttempts = 3
  MaxSyncs = 1
  MaxCrashes = 0
  SlowCalls = FALSE
  StatusErrors = FALSE
INVARIANT BooksBalance
CHECK_DEADLOCK FALSE
