SPECIFICATION Spec
CONSTANTS
  Earnings = {1, 2}
  Net <- MCNet
  MaxPayouts = 2
  Reversals = {r1, r2}
  Workers = {w1, w2}
  MaxAttempts = 4
  MaxSyncs = 1
  MaxCrashes = 1
  SlowCalls = FALSE
  StatusErrors = FALSE
SYMMETRY Symmetry
INVARIANTS TypeOK NeverPaidTwice PaidByTheBank SentIsEarned
PROPERTIES DispatchedIsFrozen
CHECK_DEADLOCK FALSE
