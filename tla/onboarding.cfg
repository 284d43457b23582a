SPECIFICATION Spec
CONSTANTS
  Businesses = {b1}
  Requests = {r1, r2}
  IdemKeys = {k1, k2}
  Nobody = Nobody
  Dead = Dead
  MaxAccounts = 2
  MaxDecisions = 1
  MaxLapses = 1
  MaxCrashes = 1
INVARIANTS TypeOK ApprovedIsActive OneRunPerKey
PROPERTIES ApprovalIsTheProviders
