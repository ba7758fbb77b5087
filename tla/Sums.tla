-------------------------------- MODULE Sums --------------------------------
(***************************************************************************)
(* The sum the ledger's balances are: of a function's values over a finite  *)
(* set of accounts, rows, operations or payouts.                            *)
(***************************************************************************)
EXTENDS Integers, FiniteSets, FiniteSetsExt

Total(f, S) == MapThenSumSet(LAMBDA x : f[x], S)
=============================================================================
