------------------------------ MODULE MCInbox -------------------------------
(* An instance of Inbox for TLC: two events, so that one can be in the other's *)
(* way, and two drains that overlap.                                           *)
EXTENDS Inbox

TwoEvents == {"e1", "e2"}
TwoDrains == {"d1", "d2"}
=============================================================================
