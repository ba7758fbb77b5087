--------------------------- MODULE MCSubscriptions --------------------------
(* Instances of Subscriptions for TLC: one user subscribes, up to twice, to  *)
(* one offer of one seller.                                                  *)
EXTENDS Subscriptions, TLC

CONSTANTS s1, s2, u1, v1, w1, w2

OneUser == s1 :> u1 @@ s2 :> u1
OneSeller == s1 :> v1 @@ s2 :> v1
SweepSymmetry == Permutations({w1, w2})
=============================================================================
