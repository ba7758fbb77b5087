--------------------------- MODULE MCOutboxRelay ----------------------------
(* An instance of OutboxRelay for TLC: two events, so that one can be in the *)
(* other's way, and two relays that overlap.                                 *)
EXTENDS OutboxRelay

TwoMessages == {"m1", "m2"}
TwoRelays == {"w1", "w2"}
=============================================================================
