----------------------------- MODULE MCNetting -----------------------------
(* Instances of Netting for TLC.                                             *)
EXTENDS Netting, TLC

CONSTANTS b1, b2, o1, o2, o3

(* Two buyers, three purchases: the net has the positions b1, shop, b2. *)
TwoBuyers == o1 :> b1 @@ o2 :> b1 @@ o3 :> b2
TwoFunds == b1 :> 3 @@ b2 :> 1
TwoUnmatured == b1 :> 1 @@ b2 :> 0
=============================================================================
