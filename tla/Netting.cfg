SPECIFICATION NettingSpec
CONSTANTS
  b1 = b1
  b2 = b2
  o1 = o1
  o2 = o2
  o3 = o3
  Orders = {o1, o2, o3}
  Buyers = {b1, b2}
  BuyerOf <- TwoBuyers
  Funds <- TwoFunds
  Unmatured <- TwoUnmatured
  Prefunds = {0, 1}
  Cap = 2
  MaxBatch = 2
  ChunkWidth = 2
  FaultSteps = {"flush", "chunk", "comp", "mv", "claim", "give", "revoke", "refund", "emit"}
  MaxFaults = 1
  MaxCrashes = 2
  MaxSpends = 1
  MaxMainTopUps = 1
  Overlap = FALSE
  LateOrders = {o3}
INVARIANTS FinalOnceUnlessRetried NeverOverGrants SettledEventIsTrue
CHECK_DEADLOCK FALSE
