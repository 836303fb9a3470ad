---------------------------- MODULE MCCacheStore ----------------------------
(* Instances of CacheStore for TLC. *)
EXTENDS CacheStore, TLC

CONSTANTS p1, p2, k1, k2, k3

Symmetry == Permutations({k2, k3})

\* k1 alone weighs as much as two of the others.
MCBytes == [rows \in SUBSET Keys |->
    Cardinality(rows) + (IF k1 \in rows THEN 1 ELSE 0)]
=============================================================================
