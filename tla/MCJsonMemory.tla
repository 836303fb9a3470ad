---------------------------- MODULE MCJsonMemory ----------------------------
(* Instances of JsonMemory for TLC. *)
EXTENDS JsonMemory, TLC

CONSTANTS p1, p2, k1, k2

\* Not over the keys: Idle chooses one of them.
Symmetry == Permutations({p1, p2})
=============================================================================
