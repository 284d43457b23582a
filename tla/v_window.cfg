SPECIFICATION FairSpec
CONSTANTS
  Users = {u1}
  Nobody = Nobody
  Deals = {d1}
  NoDeal = NoDeal
  Workers = {w1}
  MaxSessions = 2
  Stock = 2
  Price = 2
  Funds = 3
  ExpireLimit = 2
  PatchStatuses = {"ACTIVE", "PAUSED"}
  MaxPatches = 0
  MaxCloses = 0
  MaxToggles = 0
  MaxCrashes = 0
PROPERTY DueReservationsEnd
CHECK_DEADLOCK FALSE
