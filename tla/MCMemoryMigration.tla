------------------------- MODULE MCMemoryMigration -------------------------
(* Instances of MemoryMigration for TLC. *)
EXTENDS MemoryMigration, TLC

CONSTANTS p1, p2, k1, k2, v1, v2

Symmetry == Permutations({p1, p2}) \union Permutations({k1, k2}) \union Permutations({v1, v2})

\* Bound: a run ends where a table in use was dropped, which the properties set
\* aside.
TableKept == ~redropped
=============================================================================
