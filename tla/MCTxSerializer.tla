--------------------------- MODULE MCTxSerializer ---------------------------
(* TxSerializer for TLC. *)
EXTENDS TxSerializer
=============================================================================
