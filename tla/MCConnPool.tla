----------------------------- MODULE MCConnPool -----------------------------
(* ConnPool for TLC. *)
EXTENDS ConnPool

CONSTANTS c1, c2, c3   \* clients

Symmetry == Permutations(Clients)
=============================================================================
