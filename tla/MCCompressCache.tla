-------------------------- MODULE MCCompressCache --------------------------
(* Instances of CompressCache for TLC. *)
EXTENDS CompressCache, TLC

CONSTANTS t1, t2, a, b

Symmetry == Permutations({t1, t2}) \union Permutations({a, b})
=============================================================================
