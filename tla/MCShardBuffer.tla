---------------------------- MODULE MCShardBuffer ----------------------------
(* ShardBuffer for TLC: up to three requests of shard s1 and one of s2; the *)
(* requests of a shard are interchangeable.                                *)
EXTENDS ShardBuffer, TLC

CONSTANTS s1, s2, r1, r2, r3, r4

MCShardOf == [r \in Requests |-> IF r = r4 THEN s2 ELSE s1]
Symmetry == Permutations(Requests \ {r4})
=============================================================================
