------------------------------ MODULE MCChain ------------------------------
(* Two transfers that share no account: they commit in either order, and   *)
(* two of the same wait for each other.                                    *)
EXTENDS Chain

CONSTANTS a1, a2, a3, a4

TransfersApart == {<<a1, a2>>, <<a3, a4>>}
=============================================================================
