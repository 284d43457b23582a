CONSTANTS
  Users = {u1}
  Nobody = Nobody
  Items = {i1}
  Workers = {w1}
  MaxCarts = 2
  MaxSessions = 2
  MaxQuantity = 1
  Prices = {2}
  CustomerFee = 1
  BusinessFee = 1
  Stock = 2
  Funds = 8
  CleanupLimit = 1
  MaxEdits = 0
  MaxQuotaEdits = 0
  QuotaPatches = {}
  MaxCrashes = 0
SPECIFICATION FairSpec
PROPERTIES DeadlinesAreEnforced ExpiredQuotaReturns
