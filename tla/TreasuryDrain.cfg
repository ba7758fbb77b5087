SPECIFICATION Spec
CONSTANTS
  u1 = u1
  u2 = u2
  n1 = n1
  w1 = w1
  w2 = w2
  Users = {u1}
  Shards = {0, 1}
  Sources = {"crypto"}
  HorizonOf <- Horizons
  Sessions = {}
  EscrowSessions = {}
  EscrowAmount = 4
  NetWidth = 1
  RankOf <- Ranks
  TopUpAmount = 4
  Price = 4
  Fee = 1
  PayoutAmount = 3
  Correction = 4
  ParNum = 1
  ParDen = 2
  PayNum = 1
  PayDen = 2
  ArchiveAge = 1
  Sweeps = {w1}
  MaxPostings = 6
  MaxTopUps = 2
  MaxSales = 1
  MaxAdjusts = 0
  MaxBuys = 1
  MaxSweeps = 1
  MaxTime = 2
INVARIANT DrainCovers
CHECK_DEADLOCK FALSE
