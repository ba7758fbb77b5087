SPECIFICATION Spec
CONSTANTS
  Calls = {c1, c2}
  c1 = c1
  c2 = c2
  s1 = s1
  s2 = s2
  s3 = s3
  r1 = r1
  r2 = r2
  o1 = o1
  o2 = o2
  o3 = o3
  b1 = b1
  b2 = b2
  Accounts <- AllAccounts
  Ops = {s1, s2, r1, r2}
  Orders = {o1, o2}
  Buyers = {b1}
  Kind <- OrderKind
  OrderOf <- OrderOrder
  BuyerOf <- OrderBuyer
  PriceOf <- OrderPrice
  LockSet <- OrderLocks
  FundsAtStart = 2
  Limit = 2
  Window = 2
  MaxFaults = 1
  MaxPurges = 0
SYMMETRY CallSymmetry
INVARIANT VelocityHolds
INVARIANT UndoneOnce
INVARIANT AnswersAreTrue
