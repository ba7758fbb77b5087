SPECIFICATION Spec
CONSTANTS
  u1 = u1
  u2 = u2
  n1 = n1
  w1 = w1
  w2 = w2
  Users = {u1}
  Shards = {0, 1}
  Sources = {"crypto"}
  HorizonOf <- Horizons
  Sessions = {n1}
  EscrowSessions = {n1}
  EscrowAmount = 4
  NetWidth = 2
  RankOf <- Ranks
  TopUpAmount = 4
  Price = 4
  Fee = 2
  PayoutAmount = 2
  Correction = 4
  ParNum = 1
  ParDen = 2
  PayNum = 1
  PayDen = 2
  ArchiveAge = 1
  Sweeps = {w1, w2}
  MaxPostings = 5
  MaxTopUps = 1
  MaxSales = 1
  MaxAdjusts = 1
  MaxBuys = 1
  MaxSweeps = 2
  MaxTime = 1
SYMMETRY SweepSymmetry
INVARIANTS MaturityAgrees OldFundsClearUnlessArchived
PROPERTY SweepKeepsBackingUnlessUnseen
CHECK_DEADLOCK FALSE
