---------------------------- MODULE SymbolQueries ----------------------------
(***************************************************************************)
(* What is asked of the symbol graph: lib/symbolGraph.ts from              *)
(* bfsTraverse on, and lib/symbolGraphViz.ts.  A graph is a list of keys,  *)
(* in the order they were added, and a list of edges.                      *)
(***************************************************************************)
EXTENDS Integers, Sequences, FiniteSets, SequencesExt

CONSTANTS
    MaxDepth,     \* 3 in queryGraph
    MaxStarts,    \* matches a traversal starts from (3)
    MinBudget, DefaultBudget, MaxBudget,    \* tokens of a map (200, 1200, 8000)
    HeaderCost, LineCost, EdgeHeaderCost, EdgeCost, \* tokens of its lines
    Boost,        \* queryBoost (1000)
    NoBudget      \* none asked for

ASSUME QueryAssumption ==
    /\ {MaxDepth, MaxStarts, HeaderCost, EdgeHeaderCost, EdgeCost, Boost} \subseteq Nat
    /\ {MinBudget, DefaultBudget, MaxBudget} \subseteq Nat /\ MaxStarts > 0
    /\ LineCost \in [DOMAIN LineCost -> Nat]

Edge(from, to) == [from |-> from, to |-> to]

\* An edge may lead to a file that has no node of its own.
SymbolKeys == DOMAIN LineCost
IsGraph(graph) ==
    graph.keys \in Seq(SymbolKeys) /\ graph.edges \in Seq([from : STRING, to : STRING])

KeysIn(graph) == Range(graph.keys)
EdgesIn(graph) == Range(graph.edges)

\* The members of S as a list, in the order of a relation.
InOrder(S, before) ==
    [n \in 1..Cardinality(S) |->
        CHOOSE x \in S : Cardinality({y \in S : <<y, x>> \in before}) = n - 1]

\* What a list has at these places, in its order.
Picked(list, places) ==
    LET at == InOrder(places, {p \in places \X places : p[1] < p[2]})
    IN  [n \in DOMAIN at |-> list[at[n]]]

findNodes(graph, matches) ==
    Picked(graph.keys, {i \in DOMAIN graph.keys : graph.keys[i] \in matches})

Beyond(edge, direction) == IF direction = "outgoing" THEN edge.to ELSE edge.from
Here(edge, direction) == IF direction = "outgoing" THEN edge.from ELSE edge.to

\* The keys an edge leads to that were not visited, in the order of the edges.
Fresh(edges, key, direction, visited) ==
    LET leadsTo(k) == {i \in DOMAIN edges : Here(edges[i], direction) = key
                                            /\ Beyond(edges[i], direction) = k}
        first == {i \in DOMAIN edges :
                    LET k == Beyond(edges[i], direction)
                    IN  k \notin visited /\ i \in leadsTo(k) /\ \A j \in leadsTo(k) : i <= j}
    IN  Picked([i \in DOMAIN edges |-> Beyond(edges[i], direction)], first)

\* Mutant of Enqueue: the newest keys are expanded first.
Push(queue, fresh) == fresh \o queue

Enqueue(queue, fresh) == queue \o fresh

\* One round.  queue: keys to expand; depth: of every visited key.
Expand(graph, direction, state) ==
    IF state.queue = <<>> THEN state
    ELSE LET key == Head(state.queue)
             fresh == IF state.depth[key] >= MaxDepth THEN <<>>
                      ELSE Fresh(graph.edges, key, direction, DOMAIN state.depth)
         IN  [queue |-> Enqueue(Tail(state.queue), fresh),
              depth |-> [k \in DOMAIN state.depth \union Range(fresh) |->
                            IF k \in Range(fresh) THEN state.depth[key] + 1 ELSE state.depth[k]]]

\* Until the queue is empty, which it is after as many rounds as there are keys
\* to start from and edges to follow.
Rounds(graph) == Len(graph.keys) + Len(graph.edges)
bfsTraverse(graph, starts, direction) ==
    LET after[n \in 0..Rounds(graph)] ==
            IF n = 0 THEN [queue |-> starts, depth |-> [k \in Range(starts) |-> 0]]
            ELSE Expand(graph, direction, after[n - 1])
    IN  after[Rounds(graph)].depth

\* What a traversal visits, at which depth, or a search finds; the answer counts
\* it and prints the first of each depth.
queryGraph(graph, queryType, matches) ==
    LET found == findNodes(graph, matches)
        starts == SubSeq(found, 1, IF Len(found) < MaxStarts THEN Len(found) ELSE MaxStarts)
    IN  CASE queryType = "depends_on" -> bfsTraverse(graph, starts, "outgoing")
          [] queryType = "dependents" -> bfsTraverse(graph, starts, "incoming")
          [] OTHER -> [k \in Range(found) |-> 0]

-----------------------------------------------------------------------------
(* The map of the graph within a budget of tokens. *)

degreeMap(graph) ==
    [k \in KeysIn(graph) |->
        Cardinality({i \in DOMAIN graph.edges : graph.edges[i].from = k})
        + Cardinality({i \in DOMAIN graph.edges : graph.edges[i].to = k})]

\* Score, highest first; the place of a key stands for its name.
Ranked(graph, matches) ==
    LET deg == degreeMap(graph)
        score == [k \in KeysIn(graph) |-> deg[k] + (IF k \in matches THEN Boost ELSE 0)]
        at == [k \in KeysIn(graph) |-> CHOOSE i \in DOMAIN graph.keys : graph.keys[i] = k]
    IN  InOrder(KeysIn(graph), {p \in KeysIn(graph) \X KeysIn(graph) :
            \/ score[p[1]] > score[p[2]]
            \/ score[p[1]] = score[p[2]] /\ at[p[1]] < at[p[2]]})

Budget(asked) ==
    LET want == IF asked = NoBudget THEN DefaultBudget ELSE asked
        capped == IF want < MaxBudget THEN want ELSE MaxBudget
    IN  IF capped > MinBudget THEN capped ELSE MinBudget

\* The longest prefix of costs that fits, from tokens on, and what it adds up to.
Fitting(costs, tokens, budget) ==
    LET total[n \in 0..Len(costs)] == IF n = 0 THEN tokens ELSE total[n - 1] + costs[n] + 1
        count == Max({n \in 0..Len(costs) : \A i \in 1..n : total[i] <= budget})
    IN  [count |-> count, tokens |-> total[count]]

\* With a budget too small for the first node, that node is given nevertheless.
NodesFitting(ranked, budget) ==
    LET fit == Fitting([i \in DOMAIN ranked |-> LineCost[ranked[i]]], HeaderCost, budget)
    IN  IF fit.count = 0 /\ ranked # <<>>
        THEN [count |-> 1, tokens |-> HeaderCost + LineCost[ranked[1]] + 1] ELSE fit

\* The places of the edges with both ends among these keys.
EdgesAmong(graph, keys) ==
    {i \in DOMAIN graph.edges : graph.edges[i].from \in keys /\ graph.edges[i].to \in keys}

\* Then the edges among these nodes, as long as they fit, under a heading.
buildBudgetedSymbolMap(graph, matches, asked) ==
    LET budget == Budget(asked)
        ranked == Ranked(graph, matches)
        nodes == NodesFitting(ranked, budget)
        included == {ranked[i] : i \in 1..nodes.count}
        among == Picked(graph.edges, EdgesAmong(graph, included))
        fit == IF nodes.tokens + EdgeHeaderCost + 1 > budget THEN [count |-> 0, tokens |-> 0]
               ELSE Fitting([i \in DOMAIN among |-> EdgeCost],
                            nodes.tokens + EdgeHeaderCost + 1, budget)
    IN  [nodes |-> SubSeq(ranked, 1, nodes.count), edges |-> SubSeq(among, 1, fit.count),
         tokens |-> IF fit.count > 0 THEN fit.tokens ELSE nodes.tokens]

\* The picture: the maxNodes best connected nodes, and the edges among them.
writeSymbolGraphHtml(graph, maxNodes) ==
    LET ranked == Ranked(graph, {})
        kept == SubSeq(ranked, 1, IF Len(ranked) < maxNodes THEN Len(ranked) ELSE maxNodes)
    IN  [nodes |-> kept,
         edges |-> Picked(graph.edges, EdgesAmong(graph, Range(kept))),
         tokens |-> 0]
==============================================================================
