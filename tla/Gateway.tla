------------------------------- MODULE Gateway -------------------------------
(***************************************************************************)
(* A call of a tool, from the request to its answer: by which way it gets  *)
(* to its handler, and the handlers of gate_graph_query, of the JSON       *)
(* cleaner, of the validation and of the scoped cache totals.  The graph   *)
(* query reads the report of graphify and the HEAD of the repository       *)
(* several times, while other programs write them; the validation waits    *)
(* for an answer of its provider four times.                               *)
(***************************************************************************)
EXTENDS ToolSurface, ProjectRoot, SymbolQueries, CleanResponse, Validation

CONSTANTS
    ReportDirs, Commits,    \* directories that may have a report; commits
    NoReport, NoCommit, NoGit,
    Disks,                  \* what reports and HEAD may be when a call begins
    Graphs, Matches,        \* symbol graphs; the keys a query may match
    Budgets,                \* values of tokenBudget
    MaxNodes,               \* nodes of the picture (400)
    Responses, Limits, Whitelists,  \* what may be given to be cleaned
    Sources,                \* source files to validate
    PossibleRows,           \* rows the cache may have
    MaxMoves                \* bound: changes of reports and HEAD in a call

ASSUME GatewayAssumption ==
    /\ MaxMoves \in Nat /\ MaxNodes \in Nat \ {0}
    /\ Disks \subseteq [reports : [ReportDirs -> Commits \union {NoCommit, NoReport}],
                       head : Commits \union {NoGit}]
    /\ NoReport \notin Commits /\ NoCommit \notin Commits
    /\ \A g \in Graphs : IsGraph(g)
    /\ Budgets \ {NoBudget} \subseteq Int
    /\ \A r \in Responses : r.json \in BOOLEAN /\ r.items \in Seq(Items)
    /\ Limits \subseteq Int /\ Whitelists \subseteq SUBSET Keys
    /\ \A s \in Sources : IsFiniteSet(s.nodes) /\ IsFiniteSet(s.lines)
    \* What is in the cache is below the trusted directory, unless any path may be.
    /\ \A r \in PossibleRows : r.path \in Paths /\ (AnyPath \/ isPathWithin(AllowedRoot, r.path))

VARIABLES
    graphifyOnPath, \* "unknown", "yes" or "no", for the life of the process
    tool, pc,       \* the call being served
    root, query,    \* directory and query type of a graph query
    reports, head, moves, \* the disk; what it holds between calls is anything
    graphifyReport, \* the report found first
    reportPath,     \* the report looked for when it is read
    map,            \* the commit of the report that was read
    checked, built, \* the report whose age is checked; its commit
    staleWarning,
    moved,          \* history: reports written since they were found or read
    answers,        \* of the provider
    subject,        \* what the call is about
    result

disk == <<reports, head, moves>>
reading == <<graphifyReport, reportPath, map, checked, built, staleWarning, moved>>
vars == <<graphifyOnPath, tool, pc, root, query, disk, reading, answers, subject, result>>

SymbolTypes == {"search", "depends_on", "dependents"}
MapTypes == {"symbol_map", "export_html"}
\* graphify_blank: graphify_search with nothing to search for.
GraphifyTypes == {"graphify_map", "graphify_blank"}
QueryTypes == SymbolTypes \union MapTypes \union GraphifyTypes

NoTool == "none"
Nothing == [kind |-> "none"]
Reported == {d \in ReportDirs : reports[d] # NoReport}
InGraphQuery == {"rebuild", "update", "find", "map", "symbols", "refind", "load", "stale", "head"}
Waiting == InGraphQuery \union {"answering"}

TypeOK ==
    /\ graphifyOnPath \in {"unknown", "yes", "no"}
    /\ tool \in ALL_GATE_TOOLS \union {NoTool, "gate_invoke", "unheard of"}
    /\ pc \in Waiting \union {"idle", "called", "done"}
    /\ root \in {NoDir, AllowedRoot} \union {RealPath[d] : d \in DOMAIN RealPath}
    /\ query \in QueryTypes \union {"none"}
    /\ reports \in [ReportDirs -> Commits \union {NoCommit, NoReport}]
    /\ head \in Commits \union {NoGit} /\ moves \in 0..MaxMoves
    /\ {graphifyReport, reportPath, checked} \subseteq ReportDirs \union {NoDir}
    /\ map \in Commits \union {NoCommit, NoReport} /\ built \in Commits \union {NoCommit}
    /\ staleWarning \in BOOLEAN /\ moved \subseteq ReportDirs
    /\ Len(answers) <= Len(Scorers)
    /\ \A i \in DOMAIN answers : answers[i].named \in Nat
    /\ pc = "done" => result.kind # "none"

Init ==
    /\ graphifyOnPath = "unknown"
    /\ tool = NoTool /\ pc = "idle" /\ root = NoDir /\ query = "none"
    /\ reports = [d \in ReportDirs |-> NoReport] /\ head = NoGit /\ moves = 0
    /\ graphifyReport = NoDir /\ reportPath = NoDir /\ map = NoReport
    /\ checked = NoDir /\ built = NoCommit /\ staleWarning = FALSE /\ moved = {}
    /\ answers = <<>> /\ subject = Nothing /\ result = Nothing

\* The handler returns, or throws: the caller is told either way.
Answer(r) == pc' = "done" /\ result' = r
Refused(why) == [kind |-> "refused", why |-> why]

-----------------------------------------------------------------------------
(* The way to a handler. *)

\* The mode is resolved when the server starts.
Outcome(mode, t, route, given, illTyped) ==
    IF route = "direct" THEN registerGateTool(t, mode, given, illTyped)
    ELSE IF shouldRegisterTool("gate_invoke", mode) THEN handleInvoke(t, given, illTyped)
    ELSE "not listed"

\* The tools modelled below; the others have modules of their own, or only
\* tell of the program.
Served == {"gate_graph_query", "gate_clean_response", "gate_validate_compression",
           "gate_dedup_context", "gate_session_stats"}

Call(raw, t, route, given, illTyped) ==
    /\ pc = "idle" /\ tool' = t
    /\ LET outcome == Outcome(resolveToolMode(raw), t, route, given, illTyped)
       IN  IF outcome = "dispatched" /\ t \in Served
           THEN pc' = "called" /\ UNCHANGED result
           ELSE Answer(Refused(outcome))
    /\ UNCHANGED <<graphifyOnPath, root, query, disk, reading, answers, subject>>

NextCall ==
    /\ pc = "done"
    /\ pc' = "idle" /\ tool' = NoTool /\ root' = NoDir /\ query' = "none"
    /\ reports' = [d \in ReportDirs |-> NoReport] /\ head' = NoGit /\ moves' = 0
    /\ graphifyReport' = NoDir /\ reportPath' = NoDir /\ map' = NoReport
    /\ checked' = NoDir /\ built' = NoCommit /\ staleWarning' = FALSE /\ moved' = {}
    /\ answers' = <<>> /\ subject' = Nothing /\ result' = Nothing
    /\ UNCHANGED graphifyOnPath

-----------------------------------------------------------------------------
(* handleGraphQuery. *)

GraphQuery(requested, type, rebuild) ==
    /\ pc = "called" /\ tool = "gate_graph_query"
    /\ IF resolveProjectRoot(requested) = {}
       THEN Answer(Refused("outside")) /\ UNCHANGED <<root, query, disk>>
       ELSE /\ root' \in resolveProjectRoot(requested) /\ query' = type
            /\ \E d \in Disks : reports' = d.reports /\ head' = d.head
            /\ moves' = 0
            /\ pc' = IF rebuild THEN "rebuild" ELSE "find"
            /\ UNCHANGED result
    /\ UNCHANGED <<graphifyOnPath, tool, reading, answers, subject>>

\* Found out once, and remembered.
isGraphifyCliAvailable == IF graphifyOnPath = "unknown" THEN {"yes", "no"} ELSE {graphifyOnPath}

Rebuild ==
    /\ pc = "rebuild"
    /\ IF findGraphifyReport(root, Reported) = NoDir
       THEN pc' = "find" /\ UNCHANGED <<graphifyOnPath, reportPath>>
       ELSE /\ reportPath' = findGraphifyReport(root, Reported)
            /\ graphifyOnPath' \in isGraphifyCliAvailable
            /\ pc' = IF graphifyOnPath' = "yes" THEN "update" ELSE "find"
    /\ UNCHANGED <<tool, root, query, disk, graphifyReport, map, checked, built,
                   staleWarning, moved, answers, subject, result>>

\* graphify update, where the report is; it may fail and leave the old one.
runGraphifyUpdate ==
    /\ pc = "update" /\ pc' = "find"
    /\ \/ UNCHANGED reports
       \/ reports' = [reports EXCEPT ![reportPath] = IF head = NoGit THEN NoCommit ELSE head]
    /\ UNCHANGED <<graphifyOnPath, tool, root, query, head, moves, reading, answers,
                   subject, result>>

Find ==
    /\ pc = "find"
    /\ graphifyReport' = findGraphifyReport(root, Reported)
    /\ moved' = {}
    /\ pc' = CASE query \in MapTypes -> "map" [] query \in SymbolTypes -> "symbols"
               [] query \in GraphifyTypes -> "refind"
    /\ UNCHANGED <<graphifyOnPath, tool, root, query, disk, reportPath, map, checked,
                   built, staleWarning, answers, subject, result>>

SymbolMap(graph, matches, asked) ==
    /\ pc = "map"
    /\ subject' = [graph |-> graph, matches |-> matches, asked |-> asked]
    /\ Answer([kind |-> query,
               map |-> IF query = "symbol_map" THEN buildBudgetedSymbolMap(graph, matches, asked)
                       ELSE writeSymbolGraphHtml(graph, MaxNodes)])
    /\ UNCHANGED <<graphifyOnPath, tool, root, query, disk, reading, answers>>

\* A search that finds nothing goes on in the report, if there was one; every
\* query is told how old the report is.
Symbols(graph, matches) ==
    /\ pc = "symbols"
    /\ subject' = [graph |-> graph, matches |-> matches, asked |-> NoBudget]
    /\ LET depths == queryGraph(graph, query, matches)
       IN  /\ result' = [kind |-> query, depths |-> depths]
           /\ pc' = CASE graphifyReport = NoDir -> "done"
                      [] graphifyReport # NoDir /\ query = "search" /\ DOMAIN depths = {} -> "refind"
                      [] OTHER -> "stale"
    /\ checked' = graphifyReport
    /\ UNCHANGED <<graphifyOnPath, tool, root, query, disk, graphifyReport, reportPath,
                   map, built, staleWarning, moved, answers>>

\* queryGraphifyFromRoot looks for the report again.
Refind ==
    /\ pc = "refind"
    /\ LET found == findGraphifyReport(root, Reported)
       IN  /\ reportPath' = found
           /\ checked' = IF checked = NoDir THEN (IF found = NoDir THEN graphifyReport ELSE found)
                         ELSE checked
           /\ IF found # NoDir THEN pc' = "load" /\ UNCHANGED result
              ELSE IF checked' # NoDir THEN pc' = "stale" /\ UNCHANGED result
              ELSE Answer([kind |-> "no report"])
    /\ UNCHANGED <<graphifyOnPath, tool, root, query, disk, graphifyReport, map,
                   built, staleWarning, moved, answers, subject>>

\* Mutant of Again: asked for nothing, it asks itself the same again.
AskedAgain == query = "graphify_blank"

\* A search for nothing is answered with the map, read anew.
Again == query = "graphify_blank" /\ map = NoReport

\* A report that has gone meanwhile is an error.
Load ==
    /\ pc = "load"
    /\ IF reports[reportPath] = NoReport
       THEN Answer(Refused("report is gone")) /\ UNCHANGED <<map, moved>>
       ELSE /\ map' = reports[reportPath]
            /\ moved' = moved \ {reportPath}
            /\ pc' = IF Again THEN "refind" ELSE "stale"
            /\ UNCHANGED result
    /\ UNCHANGED <<graphifyOnPath, tool, root, query, disk, graphifyReport, reportPath,
                   checked, built, staleWarning, answers, subject>>

\* Mutant of Conclude: what the report says is not put into the answer.
ConcludeBare == Answer(result)

Conclude == Answer(IF result.kind = "none" THEN [kind |-> query] ELSE result)

\* The report is read once more for the commit it was built from.
Stale ==
    /\ pc = "stale"
    /\ IF reports[checked] \in {NoReport, NoCommit}
       THEN Conclude /\ UNCHANGED built
       ELSE pc' = "head" /\ built' = reports[checked] /\ UNCHANGED result
    /\ UNCHANGED <<graphifyOnPath, tool, root, query, disk, graphifyReport, reportPath,
                   map, checked, staleWarning, moved, answers, subject>>

\* Mutant of graphifyStaleWarning: nobody is warned who can update.
warnUnlessUpdated == head \notin {NoGit, built} /\ graphifyOnPath # "yes"

graphifyStaleWarning == head \notin {NoGit, built}

\* git rev-parse HEAD.
CheckHead ==
    /\ pc = "head"
    /\ staleWarning' = graphifyStaleWarning
    /\ Conclude
    /\ UNCHANGED <<graphifyOnPath, tool, root, query, disk, graphifyReport, reportPath,
                   map, checked, built, moved, answers, subject>>

\* Other programs update the reports, remove them, and commit.
WriteReport(d, c) ==
    /\ pc \in InGraphQuery /\ moves < MaxMoves /\ reports[d] # c
    /\ reports' = [reports EXCEPT ![d] = c] /\ moves' = moves + 1
    /\ moved' = moved \union {d}
    /\ UNCHANGED <<graphifyOnPath, tool, pc, root, query, head, graphifyReport,
                   reportPath, map, checked, built, staleWarning, answers, subject, result>>

Commit(c) ==
    /\ pc \in InGraphQuery /\ moves < MaxMoves /\ head # NoGit /\ head # c
    /\ head' = c /\ moves' = moves + 1
    /\ UNCHANGED <<graphifyOnPath, tool, pc, root, query, reports, reading, answers,
                   subject, result>>

-----------------------------------------------------------------------------
(* The other handlers. *)

CleanResponse(format, data, fields, max) ==
    /\ pc = "called" /\ tool = "gate_clean_response"
    /\ subject' = [format |-> format, data |-> data, fields |-> fields, max |-> max]
    /\ Answer(handleCleanResponse(format, data, fields, max))
    /\ UNCHANGED <<graphifyOnPath, tool, root, query, disk, reading, answers>>

\* gate_session_stats, and gate_dedup_context with action clear.
Scoped(requested, rows) ==
    /\ pc = "called" /\ tool \in {"gate_session_stats", "gate_dedup_context"}
    /\ IF resolveProjectRoot(requested) = {}
       THEN Answer(Refused("outside")) /\ UNCHANGED subject
       ELSE \E scope \in resolveProjectRoot(requested) :
              /\ subject' = [rows |-> rows, scope |-> scope]
              /\ Answer(IF tool = "gate_session_stats"
                        THEN [kind |-> "stats", told |-> getScopedStats(rows, scope)]
                        ELSE [kind |-> "cleared", cleared |-> clearScoped(rows, scope)])
    /\ UNCHANGED <<graphifyOnPath, tool, root, query, disk, reading, answers>>

Scored(by, n) ==
    [kind |-> "score", aggregate |-> scoreAnswers(by, n), verdict |-> Verdict(scoreAnswers(by, n))]

\* The answers are the caller's, or are asked of a provider.
ScoreGiven(source, native, given) ==
    /\ pc = "called" /\ tool = "gate_validate_compression"
    /\ LET n == Cardinality(buildGroundTruth(source, native))
       IN  /\ \A i \in Prompts : given[i] \in Answers(Scorers[i], n)
           /\ subject' = [source |-> source, native |-> native, provider |-> "caller",
                          n |-> n, plain |-> 0]
           /\ Answer(Scored(given, n))
    /\ answers' = given
    /\ UNCHANGED <<graphifyOnPath, tool, root, query, disk, reading>>

AskProvider(source, native, provider) ==
    /\ pc = "called" /\ tool = "gate_validate_compression"
    /\ LET names == buildGroundTruth(source, native)
       IN  \E plain \in IF provider = "mock" THEN PlainFirst(names) ELSE {0} :
              subject' = [source |-> source, native |-> native, provider |-> provider,
                          n |-> Cardinality(names), plain |-> plain]
    /\ IF provider \in {"openai without a key", "caller without responses"}
       THEN Answer(Refused(provider))
       ELSE IF provider = "prompts only" THEN Answer([kind |-> "prompts"])
       ELSE pc' = "answering" /\ UNCHANGED result
    /\ UNCHANGED <<graphifyOnPath, tool, root, query, disk, reading, answers>>

\* One question after the other.  The mock answers at once...
AnswerPrompt ==
    /\ pc = "answering" /\ Len(answers) < Len(Scorers) /\ subject.provider # "http"
    /\ \E said \in MockProvider(subject.provider = "faulty mock", Scorers[Len(answers) + 1],
                              subject.n, subject.plain) :
          answers' = Append(answers, said)
    /\ UNCHANGED <<graphifyOnPath, tool, pc, root, query, disk, reading, subject, result>>

AwaitsProvider ==
    pc = "answering" /\ Len(answers) < Len(Scorers) /\ subject.provider = "http"

\* ...a server when the request settles; a failure is an empty answer.
ProviderSettles ==
    /\ AwaitsProvider
    /\ \E said \in postJson(Scorers[Len(answers) + 1], subject.n) : answers' = Append(answers, said)
    /\ UNCHANGED <<graphifyOnPath, tool, pc, root, query, disk, reading, subject, result>>

Score ==
    /\ pc = "answering" /\ Len(answers) = Len(Scorers)
    /\ Answer(Scored(answers, subject.n))
    /\ UNCHANGED <<graphifyOnPath, tool, root, query, disk, reading, answers, subject>>

-----------------------------------------------------------------------------

Ask ==
    \/ \E t \in ALL_GATE_TOOLS \union {"gate_invoke", "unheard of"}, route \in {"direct", "invoke"},
          given \in {{}, {"query", "data", "filePath", "action"}}, illTyped \in {{}, {"projectRoot"}} :
            \E raw \in {"full", "catalog", "", "other"} : Call(raw, t, route, given, illTyped)
    \/ NextCall

\* The handlers that answer at once, or take the first step.
Begin ==
    \/ /\ tool = "gate_clean_response"
       /\ \E data \in Responses, fields \in Whitelists, max \in Limits,
             format \in {"toon", "compact", "whitelist"} : CleanResponse(format, data, fields, max)
    \/ /\ tool = "gate_validate_compression"
       /\ \E source \in Sources, native \in BOOLEAN :
             \/ \E provider \in {"mock", "faulty mock", "http", "openai without a key",
                                "caller without responses", "prompts only"} :
                   AskProvider(source, native, provider)
             \/ \E a \in Answers("recall", 4), b \in Answers("usage", 4),
                   c \in Answers("specificity", 4) : ScoreGiven(source, native, <<a, b, c, NoAnswer>>)
    \/ \E requested \in DOMAIN RealPath \union {NoDir} :
          \/ \E type \in QueryTypes, rebuild \in BOOLEAN : GraphQuery(requested, type, rebuild)
          \/ \E rows \in SUBSET PossibleRows : Scoped(requested, rows)

\* The steps of those that wait.
Continue ==
    \/ Rebuild \/ runGraphifyUpdate \/ Find \/ Refind \/ Load \/ Stale \/ CheckHead
    \/ \E graph \in Graphs, matches \in Matches :
          Symbols(graph, matches) \/ \E asked \in Budgets : SymbolMap(graph, matches, asked)
    \/ AnswerPrompt \/ Score

Move ==
    \/ \E d \in ReportDirs, c \in Commits \union {NoCommit, NoReport} : WriteReport(d, c)
    \/ \E c \in Commits : Commit(c)

Next == Ask \/ Begin \/ Continue \/ ProviderSettles \/ Move

\* A handler that has begun goes on: the event loop runs its continuations, reads
\* of files and git end, and graphify has a time limit.  Nothing is assumed of a
\* provider's server: the timeout of its request is one of silence (postJson).
Spec == Init /\ [][Next]_vars /\ WF_vars(Continue)

-----------------------------------------------------------------------------
(* What an answer should be. *)

\* A map of graphify that is served without a warning was built from the HEAD
\* of this moment, unless nothing can be told (the report names no commit, there
\* is no repository), the report was written after it was read, or another one
\* came in front of the one whose age is checked (handleGraphQuery, which looks
\* for the report twice and reads it for the map and once more for its age).
StaleMapIsFlagged ==
    /\ pc = "done" /\ result.kind \in QueryTypes /\ map \in Commits /\ ~staleWarning
    /\ checked = reportPath /\ reportPath \notin moved
    => head \in {map, NoGit}

\* What is n steps from the keys a traversal starts from.
Starts(graph, matches) ==
    {k \in matches : \E i \in DOMAIN graph.keys : graph.keys[i] = k
        /\ Cardinality({j \in 1..(i - 1) : graph.keys[j] \in matches}) < MaxStarts}
Within(starts, edges) ==
    LET near[n \in 0..MaxDepth] ==
            IF n = 0 THEN starts
            ELSE near[n - 1] \union {e[2] : e \in {d \in edges : d[1] \in near[n - 1]}}
    IN  near

\* A traversal visits exactly the keys a path of at most MaxDepth edges leads to,
\* at the length of the shortest one (bfsTraverse).  A map keeps to its
\* budget, unless its heading and one node are all there is, leaves out no node
\* before one it gives, and has no edge to a node it leaves out
\* (buildBudgetedSymbolMap); so does the picture.
GraphAnswersAreExact ==
    pc = "done" /\ result.kind \in SymbolTypes \union MapTypes =>
    IF result.kind \in MapTypes
    THEN LET m == result.map
             score(k) == degreeMap(subject.graph)[k]
                 + (IF result.kind = "symbol_map" /\ k \in subject.matches THEN Boost ELSE 0)
             given == {m.nodes[i] : i \in DOMAIN m.nodes}
         IN  /\ \A i \in DOMAIN m.edges : {m.edges[i].from, m.edges[i].to} \subseteq given
             /\ \A k \in KeysIn(subject.graph) \ given, g \in given : score(k) <= score(g)
             /\ \/ m.tokens <= Budget(subject.asked)
                \/ Len(m.nodes) <= 1 /\ m.edges = <<>>
             /\ subject.graph.keys # <<>> => m.nodes # <<>>
    ELSE LET out == {<<e.from, e.to>> : e \in EdgesIn(subject.graph)}
             edges == CASE result.kind = "depends_on" -> out
                        [] result.kind = "dependents" -> {<<p[2], p[1]>> : p \in out}
                        [] OTHER -> {}
             starts == IF result.kind = "search" THEN subject.matches \intersect KeysIn(subject.graph)
                       ELSE Starts(subject.graph, subject.matches)
             near == Within(starts, edges)
         IN  /\ DOMAIN result.depths = near[MaxDepth]
             /\ \A k \in near[MaxDepth], n \in 0..MaxDepth : k \in near[n] <=> result.depths[k] <= n

\* A table has a row for every item of the array, or says how many it leaves
\* out; a plain value of an item of the sample stands in its row, and no value
\* stands where the item has none.  With a limit of at least one, a cleaning
\* fails only over an item without fields after the sample (arrayToToon,
\* isUniformObjectArray; toWhitelist cuts the array before it is counted).
TableKeepsItems ==
    pc = "done" /\ tool = "gate_clean_response" /\ result.kind # "refused" /\ subject.max > 0 =>
    LET items == subject.data.items
    IN  /\ result.kind = "table" =>
              /\ \/ Len(result.rows) + result.more = Len(items)
                 \/ subject.format = "whitelist" /\ Len(result.rows) = subject.max
              /\ \A i \in DOMAIN result.rows, k \in Keys :
                    /\ /\ i <= Sample /\ k \in KeysOf(items[i])
                       /\ items[i].fields[k] \in {"text", "short"}
                       /\ subject.format = "whitelist" => k \in subject.fields \union
                             (IF subject.fields = {} \/ subject.data.under # TopLevel THEN Keys ELSE {})
                       => k \in result.columns /\ result.rows[i][k] = items[i].fields[k]
                    /\ k \in result.columns /\ k \notin KeysOf(items[i]) => result.rows[i][k] = ""
        /\ result.kind = "throws" =>
              \E i \in DOMAIN items : i > Sample /\ items[i].kind = "null"

\* An excellent verdict takes at least three names, a usage that imports the
\* file, most names listed, and both audits naming one; a good one takes two
\* names and a third of them listed.  A file whose names cannot be read is
\* lossy whatever is answered.  The perfect mock has 40 points for its list, and
\* 64, 88 and 100 with one, two and three names that are found as words (the
\* weights and limits of aggregateScores, the penalties of the scorers).
VerdictIsEarned ==
    pc = "done" /\ result.kind = "score" =>
        /\ result.verdict = "excellent" =>
              /\ subject.n >= 3 /\ answers[2].imports /\ answers[2].named >= 3
              /\ 10 * answers[1].named >= 7 * subject.n
              /\ answers[3].named >= 1 /\ answers[4].named >= 1
        /\ result.verdict \in {"good", "excellent"} =>
              subject.n >= 2 /\ 3 * answers[1].named >= subject.n
        /\ subject.n = 0 => result.verdict = "lossy"
        /\ subject.provider = "mock" /\ subject.n > 0 =>
              result.aggregate >= <<40, 64, 88, 100>>[subject.plain + 1]

\* A clear removes the rows of files below its scope and no others, by names of
\* directories and not by letters; it tells the number of rows when the scope is
\* everything, of files otherwise; and the totals of a scope are of the same
\* rows (clearScoped, getScopedStats).
Below(scope, p) == Len(p) >= Len(scope) /\ \A i \in 1..Len(scope) : p[i] = scope[i]
ClearStaysInScope ==
    pc = "done" /\ result.kind \in {"stats", "cleared"} =>
    LET mine == {r \in subject.rows : Below(subject.scope, r.path)}
    IN  IF result.kind = "stats" THEN result.told = mine
        ELSE /\ result.cleared.left = subject.rows \ mine
             /\ result.cleared.removed =
                    IF subject.scope = AllowedRoot THEN Cardinality(mine)
                    ELSE Cardinality({r.path : r \in mine})

\* Every call is answered, with a value or an error (the handlers and their catch
\* in main.ts), unless it waits forever for one request to a provider that is
\* never settled (postJson).
EveryCallAnswered == pc \in Waiting ~> (pc = "done" \/ []AwaitsProvider)
==============================================================================
