SPECIFICATION NettingSpec
CONSTANTS
  b1 = b1
  b2 = b2
  o1 = o1
  o2 = o2
  o3 = o3
  Orders = {o1, o2, o3}
  Buyers = {b1, b2}
  BuyerOf <- TwoBuyers
  Funds <- TwoFunds
  Unmatured <- TwoUnmatured
  Prefunds = {0, 1}
  Cap = 2
  MaxBatch = 2
  ChunkWidth = 2
  FaultSteps = {}
  MaxFaults = 1
  MaxCrashes = 0
  MaxSpends = 0
  MaxMainTopUps = 0
  Overlap = FALSE
  LateOrders = {o3}
INVARIANT OwnedIsPaid
CHECK_DEADLOCK FALSE
