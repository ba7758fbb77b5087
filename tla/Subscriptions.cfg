SPECIFICATION FairSpec
CONSTANTS
  s1 = s1
  s2 = s2
  u1 = u1
  v1 = v1
  w1 = w1
  w2 = w2
  Subs = {s1, s2}
  Users = {u1}
  UserOf <- OneUser
  SellerOf <- OneSeller
  Sweeps = {w1, w2}
  Limit = 2
  Price = 1
  MaxSubscriptionAttempts = 2
  ClearedAtStart = 1
  HeldAtStart = 1
  PromoAtStart = 1
  MaxTime = 2
  MaxSpends = 1
  MaxFaults = 2
INVARIANT ChargedOncePerClaim
INVARIANT ActiveIsPaidAndOwned
INVARIANT CancelStopsCharges
PROPERTY RenewalEnds
CHECK_DEADLOCK FALSE
