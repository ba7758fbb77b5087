---------------------------- MODULE MCPayoutSaga ----------------------------
(* Small instances of PayoutSaga for TLC. *)
EXTENDS PayoutSaga, TLC

CONSTANTS s1, s2, u1, u2

(* Two payouts of one seller, so that the request throttle and the shared *)
(* reserve are exercised.                                                 *)
OneSeller == [s \in Sagas |-> u1]

SagaSymmetry == Permutations(Sagas)
=============================================================================
