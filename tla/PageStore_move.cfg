SPECIFICATION StoreSpec
CONSTANTS
  Agents = {a1, a2}
  Movers = {m1}
  Wanted = {a1, a2}
  MaxDeaths = 0
  MaxSlow = 0
  Nobody = Nobody
INVARIANTS NothingEverLost
CHECK_DEADLOCK FALSE
