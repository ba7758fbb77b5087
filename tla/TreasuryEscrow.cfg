SPECIFICATION Spec
CONSTANTS
  u1 = u1
  u2 = u2
  n1 = n1
  w1 = w1
  w2 = w2
  Users = {u1}
  Shards = {0}
  Sources = {"crypto"}
  HorizonOf <- NoWait
  Sessions = {n1}
  EscrowSessions = {n1}
  EscrowAmount = 4
  NetWidth = 2
  RankOf <- Ranks
  TopUpAmount = 8
  Price = 4
  Fee = 2
  PayoutAmount = 2
  Correction = 4
  ParNum = 1
  ParDen = 2
  PayNum = 1
  PayDen = 2
  ArchiveAge = 9
  Sweeps = {w1}
  MaxPostings = 6
  MaxTopUps = 1
  MaxSales = 1
  MaxAdjusts = 0
  MaxBuys = 1
  MaxSweeps = 1
  MaxTime = 0
PROPERTY SweepKeepsBacking
CHECK_DEADLOCK FALSE
