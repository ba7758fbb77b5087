-------------------------- MODULE MCSubmitPipeline --------------------------
(* Instances of SubmitPipeline for TLC.  Accounts are numbered in the order  *)
(* of their ids: 1 platform:promo_float, 2 platform:promo_float#1, 3         *)
(* platform:receivable, 4 platform:revenue, 5 platform:revenue#1, 6 and 7    *)
(* the wallets of two buyers (usr_...).                                      *)
EXTENDS SubmitPipeline, TLC

CONSTANTS c1, c2, s1, s2, s3, r1, r2, o1, o2, o3, b1, b2

Wallet == b1 :> 6 @@ b2 :> 7
Shard(k) == IF k = 0 THEN {1, 4} ELSE {2, 5}
SpendLocks(buyer, shard) == Shard(shard) \cup {Wallet[buyer]}
RefundLocks == {1, 3, 4}
AllAccounts == 1..7

CallSymmetry == Permutations({c1, c2})

(* Two orders of one buyer on different shards, and two requests to refund   *)
(* the first.                                                                *)
OrderKind == s1 :> "spend" @@ s2 :> "spend" @@ r1 :> "refund" @@ r2 :> "refund"
OrderOrder == s1 :> o1 @@ s2 :> o2 @@ r1 :> o1 @@ r2 :> o1
OrderBuyer == s1 :> b1 @@ s2 :> b1 @@ r1 :> b1 @@ r2 :> b1
OrderPrice == s1 :> 1 @@ s2 :> 2 @@ r1 :> 1 @@ r2 :> 1
OrderLocks == s1 :> SpendLocks(b1, 0) @@ s2 :> SpendLocks(b1, 1)
                @@ r1 :> RefundLocks @@ r2 :> RefundLocks

(* One order wanted by two buyers, and a request to refund it. *)
LiveKind == s1 :> "spend" @@ s2 :> "spend" @@ r1 :> "refund"
LiveOrder == s1 :> o1 @@ s2 :> o1 @@ r1 :> o1
LiveBuyer == s1 :> b1 @@ s2 :> b2 @@ r1 :> b1
LivePrice == s1 :> 1 @@ s2 :> 2 @@ r1 :> 1
LiveLocks == s1 :> SpendLocks(b1, 0) @@ s2 :> SpendLocks(b2, 0)
                @@ r1 :> RefundLocks

(* One order under three keys, two of them of one buyer, with platformShards = 2. *)
SameKind == s1 :> "spend" @@ s2 :> "spend" @@ s3 :> "spend"
SameOrder == s1 :> o1 @@ s2 :> o1 @@ s3 :> o1
SameBuyer == s1 :> b1 @@ s2 :> b2 @@ s3 :> b1
SamePrice == s1 :> 1 @@ s2 :> 1 @@ s3 :> 2
ShardedLocks == s1 :> SpendLocks(b1, 0) @@ s2 :> SpendLocks(b2, 1) @@ s3 :> SpendLocks(b1, 1)
=============================================================================
