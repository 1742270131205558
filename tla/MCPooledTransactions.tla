------------------------ MODULE MCPooledTransactions ------------------------
(* PooledTransactions with two calls in progress for TLC. *)
EXTENDS PooledTransactions

CONSTANTS a, b
=============================================================================
