CONSTANTS
  Users = {u1, u2}
  Nobody = Nobody
  Items = {i1}
  Workers = {w1, w2}
  MaxCarts = 2
  MaxSessions = 2
  MaxQuantity = 1
  Prices = {2}
  CustomerFee = 1
  BusinessFee = 1
  Stock = 1
  Funds = 5
  CleanupLimit = 2
  MaxEdits = 0
  MaxQuotaEdits = 0
  QuotaPatches = {}
  MaxCrashes = 1
SPECIFICATION Spec
SYMMETRY Symmetry
INVARIANTS TypeOK QuotaConserved LiveHoldsItsQuota StrandedByDeaths Consistent
PROPERTIES NeverRevived KeepsStockPromise
