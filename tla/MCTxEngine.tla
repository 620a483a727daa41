----------------------------- MODULE MCTxEngine -----------------------------
(* TxEngine for TLC: the connections are interchangeable. *)
EXTENDS TxEngine, TLC

Symmetry == Permutations(Conns)
=============================================================================
