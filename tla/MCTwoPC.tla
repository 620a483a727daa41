------------------------------ MODULE MCTwoPC ------------------------------
(* Instances of TwoPC for TLC. *)
EXTENDS TwoPC, TLC
Symmetry == Permutations(Participants) \cup Permutations(Resolvers)
=============================================================================
