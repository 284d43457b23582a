SPECIFICATION Spec
CONSTANTS
  Users = {u1, u2}
  Nobody = Nobody
  Deals = {d1}
  NoDeal = NoDeal
  Workers = {w1}
  MaxSessions = 2
  Stock = 2
  Price = 2
  Funds = 3
  ExpireLimit = 2
  PatchStatuses = {"ACTIVE", "PAUSED"}
  MaxPatches = 1
  MaxCloses = 1
  MaxToggles = 1
  MaxCrashes = 1
SYMMETRY Symmetry
INVARIANTS TypeOK StockConserved LiveHoldsItsPack OnePackPerCustomer UnsoldIsOnSale
PROPERTY KeepsStockPromise
CHECK_DEADLOCK FALSE
