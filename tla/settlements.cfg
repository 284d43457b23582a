SPECIFICATION FairSpec
CONSTANTS
  f1 = f1
  f2 = f2
  i1 = i1
  c1 = c1
  p1 = p1
  Files = {f1, f2}
  Records = {1, 2}
  RowsOf <- MCRowsOf
  BadRow = BadRow
  Intents = {i1}
  RowMarks <- MCRowMarks
  EarlyMarks <- MCEarlyMarks
  LateMarks <- MCLateMarks
  RightAmount = {1, 2}
  RightKey = {1, 2}
  MaxAttempts = 2
  Limit = 1
  MaxEvents = 2
  RowLocks = FALSE
INVARIANTS TypeOK AppliedIsComplete SettledByOneRow
PROPERTIES RetriesEnd
CHECK_DEADLOCK FALSE
