SPECIFICATION Spec
CONSTANTS
  Calls = {c1, c2}
  c1 = c1
  c2 = c2
  s1 = s1
  s2 = s2
  s3 = s3
  r1 = r1
  r2 = r2
  o1 = o1
  o2 = o2
  o3 = o3
  b1 = b1
  b2 = b2
  Accounts <- AllAccounts
  Ops = {s1, s2, s3}
  Orders = {o1}
  Buyers = {b1, b2}
  Kind <- SameKind
  OrderOf <- SameOrder
  BuyerOf <- SameBuyer
  PriceOf <- SamePrice
  LockSet <- ShardedLocks
  FundsAtStart = 3
  Limit = 3
  Window = 1
  MaxFaults = 0
  MaxPurges = 0
SYMMETRY CallSymmetry
INVARIANT ChargedOnce
