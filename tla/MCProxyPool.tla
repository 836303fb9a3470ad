---------------------------- MODULE MCProxyPool ----------------------------
(* Instances of ProxyPool for TLC. *)
EXTENDS ProxyPool, TLC

CONSTANTS r1, r2, s1, c1, c2, c3, t1, t2

\* Two processes may be spawned for s1 of the first project, one for the second.
MCHome == [c \in Children |-> IF c = c3 THEN <<r2, s1>> ELSE <<r1, s1>>]
Symmetry == Permutations({c1, c2}) \union Permutations({t1, t2})
=============================================================================
