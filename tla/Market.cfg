SPECIFICATION Spec
SYMMETRY Symmetric
CONSTANTS
  o1 = o1
  o2 = o2
  o3 = o3
  u1 = u1
  v1 = v1
  g1 = g1
  g2 = g2
  w1 = w1
  w2 = w2
  Orders = {o1, o2, o3}
  Buyers = {u1}
  Sellers = {v1}
  BuyerOf <- Buyer
  SellerOf <- Seller
  PriceOf <- Price
  FeeBps = 5000
  Grants = {g1}
  GranteeOf <- Grantee
  AmountOf <- Amount
  Limit = 2
  TopUpAmount = 6
  Adjustable <- Corrected
  Sweeps = {w1}
  MaxTopUps = 1
  MaxCorrections = 1
  MaxSwitches = 1
INVARIANT PostingsBalance
INVARIANT EscrowMatchesRows
INVARIANT SellersGetTheirShares
INVARIANT ReceivableIsOwed
INVARIANT PromoIsTracked
CHECK_DEADLOCK FALSE
