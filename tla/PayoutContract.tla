--------------------------- MODULE PayoutContract ---------------------------
(***************************************************************************)
(* What a payout promises, with no worker, rail, row or clock: the amount   *)
(* leaves the seller once and is held, and it leaves the hold once, either  *)
(* to the platform (which paid the seller in USD) or back to the seller,    *)
(* together with the status and with one announcement.                      *)
(***************************************************************************)
EXTENDS Integers

CONSTANTS Sagas, Amounts

VARIABLES
  status,    \* "none", "open", "paid" or "returned"
  seller,    \* what the payout did to the seller's earned credits
  held,      \* what it holds in reserve
  platform,  \* what it brought the platform
  announced  \* number of events that told of its end

cvars == <<status, seller, held, platform, announced>>

CInit ==
  /\ status = [s \in Sagas |-> "none"]
  /\ seller = [s \in Sagas |-> 0]
  /\ held = [s \in Sagas |-> 0]
  /\ platform = [s \in Sagas |-> 0]
  /\ announced = [s \in Sagas |-> 0]

Request(s, a) ==
  /\ status[s] = "none"
  /\ status' = [status EXCEPT ![s] = "open"]
  /\ seller' = [seller EXCEPT ![s] = 0 - a]
  /\ held' = [held EXCEPT ![s] = a]
  /\ UNCHANGED <<platform, announced>>

Pay(s) ==
  /\ status[s] = "open"
  /\ status' = [status EXCEPT ![s] = "paid"]
  /\ platform' = [platform EXCEPT ![s] = held[s]]
  /\ held' = [held EXCEPT ![s] = 0]
  /\ announced' = [announced EXCEPT ![s] = 1]
  /\ UNCHANGED seller

GiveBack(s) ==
  /\ status[s] = "open"
  /\ status' = [status EXCEPT ![s] = "returned"]
  /\ seller' = [seller EXCEPT ![s] = 0]
  /\ held' = [held EXCEPT ![s] = 0]
  /\ announced' = [announced EXCEPT ![s] = 1]
  /\ UNCHANGED platform

CNext ==
  \E s \in Sagas : Pay(s) \/ GiveBack(s) \/ \E a \in Amounts : Request(s, a)

CSpec == CInit /\ [][CNext]_cvars

(* An open payout is finished in the end. *)
CProgress == \A s \in Sagas : WF_cvars(Pay(s) \/ GiveBack(s))
=============================================================================
