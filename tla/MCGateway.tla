----------------------------- MODULE MCGateway -----------------------------
(* Instances of Gateway for TLC: the disk, graphs, responses and sources.  *)
EXTENDS Gateway

\* /w with the nested /w/a/b, a sibling whose name starts alike, and a link out.
MCAllowedRoot == <<"w">>
MCRealPath ==
    [a |-> <<"w", "a">>, b |-> <<"w", "a", "b">>, link |-> <<"x">>]
MCReportDirs == {<<"w">>, <<"w", "a">>}
CONSTANTS c1, c2
Disk(w, a, h) == [reports |-> (<<"w">> :> w) @@ (<<"w", "a">> :> a), head |-> h]
MCDisks ==
    {Disk(NoReport, NoReport, NoGit), Disk(c1, NoReport, c1), Disk(c1, c2, c1),
     Disk(NoReport, NoCommit, c2), Disk(c1, c1, NoGit)}
MCRows ==
    {[path |-> <<"w", "a", "f">>, identity |-> 1], [path |-> <<"w", "a", "f">>, identity |-> 2],
     [path |-> <<"w", "a", "b", "f">>, identity |-> 1], [path |-> <<"w", "ab", "f">>, identity |-> 1]}

\* Graphs: a chain longer than the depth, one with a long and a short way, a
\* cycle with a loop and an edge to a file without a node, and none at all.
Chain == <<"k1", "k2", "k3", "k4", "k5">>
MCGraphs ==
    {[keys |-> Chain, edges |-> <<Edge("k1", "k2"), Edge("k2", "k3"), Edge("k3", "k4"), Edge("k4", "k5")>>],
     [keys |-> Chain, edges |-> <<Edge("k3", "k1"), Edge("k1", "k2"), Edge("k2", "k5"),
                                  Edge("k3", "k4"), Edge("k4", "k5"), Edge("k5", "k3")>>],
     [keys |-> <<"k1", "k2", "k3">>, edges |-> <<Edge("k1", "k2"), Edge("k2", "k1"),
                                                 Edge("k2", "k2"), Edge("k3", "k1"),
                                                 Edge("k1", "unread")>>],
     [keys |-> <<>>, edges |-> <<>>]}
MCMatches == {{}, {"k3"}, {"k1", "k2", "k3", "k5"}}
MCBudgets == {NoBudget, 3, 13, 40}
MCLineCost == [k1 |-> 2, k2 |-> 1, k3 |-> 1, k4 |-> 3, k5 |-> 1]

\* Items: of the same fields, of others, and without any.
X == Object([x |-> "text"])
MCItems == {X, Object([x |-> "piped", y |-> "long"]), Object([x |-> "null", y |-> "text"]), Scalar, Null}
MCResponses ==
    {[json |-> TRUE, under |-> u, items |-> i] :
        u \in {TopLevel, "y"}, i \in UNION {[1..n -> MCItems] : n \in 0..2}}
    \union {[json |-> TRUE, under |-> TopLevel, items |-> i] : i \in [1..3 -> MCItems]}
    \union {[json |-> FALSE, under |-> TopLevel, items |-> <<>>]}

MCLimits == {-1, 0, 1, 50}
MCWhitelists == {{}, {"x"}}

\* Sources: an exporting module, one in CommonJS, one in Python; two names have
\* a $ at an end.
Exp(f, n) == [type |-> "export_statement", fits |-> TRUE, form |-> f, name |-> n]
Fun(n) == [type |-> "function_declaration", fits |-> TRUE, form |-> "none", name |-> n]
Line(f, n) == [form |-> f, name |-> n]
MCDollared == {"$c", "f$"}
MCSources ==
    {[lang |-> "typescript",
      nodes |-> {Exp("function", "f"), Fun("f"), Exp("const", "$c"), Exp("group", "g"),
                 Exp("abstract class", "k")},
      lines |-> {Line("export function", "f"), Line("export const", "$c"), Line("export group", "g")}],
     [lang |-> "javascript", nodes |-> {Fun("f$")},
      lines |-> {Line("function", "f$"), Line("exports.", "f$"), Line("module.exports.", "h")}],
     [lang |-> "python",
      nodes |-> {[type |-> "function_definition", fits |-> TRUE, form |-> "none", name |-> "f"]},
      lines |-> {Line("def", "f")}]}
=============================================================================
