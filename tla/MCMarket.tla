------------------------------ MODULE MCMarket ------------------------------
(* Instances of Market for TLC: one buyer, one seller, and orders whose      *)
(* shares differ, so that a debt may be smaller or larger than the next      *)
(* share.  With a fee of half the price, a price of 4 leaves a share of 2.   *)
EXTENDS Market, TLC

CONSTANTS o1, o2, o3, u1, v1, g1, g2, w1, w2

Buyer == [o \in Orders |-> u1]
Seller == [o \in Orders |-> v1]
Price == [o \in Orders |-> IF o = o1 THEN 4 ELSE 2]
Grantee == [g \in Grants |-> u1]
Corrected == {Earned(v1)}
Amount == [g \in Grants |-> 1]

Symmetric == Permutations({o2, o3}) \cup Permutations({w1, w2})
=============================================================================
