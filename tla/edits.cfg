CONSTANTS
  Users = {u1}
  Nobody = Nobody
  Items = {i1}
  Workers = {w1, w2}
  MaxCarts = 1
  MaxSessions = 2
  MaxQuantity = 1
  Prices = {2, 3}
  CustomerFee = 1
  BusinessFee = 3
  Stock = 1
  Funds = 8
  CleanupLimit = 2
  MaxEdits = 1
  MaxQuotaEdits = 1
  QuotaPatches = {{"enabled"}, {"remaining"}, {"total", "remaining"}}
  MaxCrashes = 0
SPECIFICATION Spec
SYMMETRY Symmetry
INVARIANTS WalletPaysEachOrderOnce OrdersSellTheirQuota
