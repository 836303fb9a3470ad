--------------------------- MODULE MCSymbolGraph ---------------------------
(* Three files of which a request may index two; the import d1 means b, or *)
(* c when b is not indexed; the two contents have the same length.         *)
EXTENDS SymbolGraph

CONSTANTS a, b, c, top, sub, old, new, d1, d2, d3

MCWalkOf == [r \in Roots |-> IF r = top THEN <<a, b, c>> ELSE <<b>>]

MCSourceOf ==
    [t \in Texts |->
        [lang |-> "typescript", flow |-> FALSE, json |-> FALSE, tree |-> "ok",
         native |-> IF t = old THEN {d1} ELSE {d1, d2}, cjs |-> {}, regex |-> {d3}]]

MCSizeOf == [t \in Texts |-> 1]

MCCandidates == [d \in Decls |-> IF d = d1 THEN <<b, c>> ELSE <<>>]
=============================================================================
