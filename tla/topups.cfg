SPECIFICATION Spec
CONSTANTS
  c1 = c1
  a = a
  b = b
  m = m
  Customers = {c1}
  Intents = {a, b, m}
  Owner <- MCOwner
  Amount <- MCAmount
  Manual = {m}
  Events <- MCEvents
  OpsKeys = {k1}
  Records <- MCRecords
INVARIANTS TypeOK MoneyConserved RestrictedWhileUnderReview RowsSettleOnce
PROPERTIES KeepsTopUpPromise
CHECK_DEADLOCK FALSE
