---------------------------- MODULE MCImageTool ----------------------------
(* Instances of ImageTool for TLC. *)
EXTENDS ImageTool, TLC

CONSTANTS t1, t2, w1, w2, w3

\* Two images of different directories have one base name.
MCNameOf == [i \in Images |-> CHOOSE n \in Names : TRUE]
Symmetry == Permutations({t1, t2}) \union Permutations({w1, w2, w3})
=============================================================================
