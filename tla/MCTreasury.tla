----------------------------- MODULE MCTreasury -----------------------------
(* Instances of Treasury for TLC: card money waits a tick, crypto none.    *)
EXTENDS Treasury, TLC

CONSTANTS u1, u2, n1, w1, w2

Horizons == [card |-> 1, crypto |-> 0, unknown |-> 1]
NoWait == [crypto |-> 0, unknown |-> 0]

(* platform:trust_cash and its shards, then <user>:<session>:escrow, then  *)
(* <user>:spendable.                                                       *)
LastShard == Max(Shards)
Ranks == [a \in Accounts |->
            IF a \in TrustRows THEN a[2]
            ELSE IF a \in Escrows THEN LastShard + 1 ELSE LastShard + 2]

SweepSymmetry == Permutations(Sweeps)
=============================================================================
