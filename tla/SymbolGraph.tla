---------------------------- MODULE SymbolGraph ----------------------------
(***************************************************************************)
(* lib/symbolGraph.ts: the graph of a project's symbols, built from its    *)
(* files and kept in one slot of memory together with the manifest of the  *)
(* files it was built from.  A request walks the directories, stats every  *)
(* file found, and serves the kept graph if root and manifest are the      *)
(* same; otherwise it reads the files one after the other.  The handler    *)
(* runs without an await: what comes between its steps are the editors and *)
(* tools that write the files.                                             *)
(***************************************************************************)
EXTENDS Signatures, Integers, Sequences

CONSTANTS
    Files,      \* files with a supported extension, outside ignored directories
    Roots,      \* directories a request may name
    WalkOf,     \* root -> the files under it, in the order of readdirSync
    MaxFiles,   \* GATE_MAX_FILES, at most HARD_MAX_FILES
    Texts,      \* contents of a file
    Gone,       \* no file
    SourceOf,   \* content -> what the readers of Signatures make of it
    SizeOf,     \* content -> its length in bytes
    Candidates, \* import -> the files resolveImportPath tries, in its order
    NoRoot,     \* the slot is empty
    MaxClock, MaxEdits   \* bounds: modification times, writes of the files

ASSUME SymbolGraphAssumption ==
    /\ WalkOf \in [Roots -> Seq(Files)]
    /\ \A r \in Roots : \A i, j \in DOMAIN WalkOf[r] : WalkOf[r][i] = WalkOf[r][j] => i = j
    /\ SourceOf \in [Texts -> Source]
    /\ SizeOf \in [Texts -> Nat]
    /\ Gone \notin Texts /\ NoRoot \notin Roots
    /\ Candidates \in [Decls -> Seq(Files)]
    /\ MaxFiles \in Nat /\ MaxClock \in Nat \ {0} /\ MaxEdits \in Nat

VARIABLES
    text, mtime,    \* the files on disk; mtime is of the last version there was
    clock, edits,   \* modification time of the next write, writes so far
    grammars,       \* parserCache, parserLoadFailures
    cachedRoot, cachedManifest, cachedGraph,
    pc, root,       \* the request being handled
    walked,         \* directory entries visited, files stat'ed or files read
    files,          \* FileDiscovery.files
    manifest, graph,
    seen,           \* history: what was in the files when they were stat'ed
    missed          \* history: files the kept manifest cannot vouch for

disk == <<text, mtime, clock, edits>>
slot == <<cachedRoot, cachedManifest, cachedGraph>>
handler == <<pc, root, walked, files, manifest, graph>>
vars == <<disk, grammars, slot, handler, seen, missed>>

NoStamp == [mtime |-> 0, size |-> 0]
Stamps == [mtime : 0..MaxClock, size : {SizeOf[t] : t \in Texts} \union {0}]
Manifests == [Files -> Stamps]
\* Module nodes; symbol nodes, each contained in its module; import edges.
Graphs == [modules : SUBSET Files, symbols : SUBSET (Files \X Decls),
           imports : SUBSET (Files \X Files)]
EmptyManifest == [f \in Files |-> NoStamp]
EmptyGraph == [modules |-> {}, symbols |-> {}, imports |-> {}]
Found == {files[i] : i \in DOMAIN files}

TypeOK ==
    /\ text \in [Files -> Texts \union {Gone}]
    /\ mtime \in [Files -> 1..MaxClock]
    /\ clock \in 1..MaxClock /\ edits \in 0..MaxEdits
    /\ grammars \in Grammars
    /\ cachedRoot \in Roots \union {NoRoot}
    /\ cachedManifest \in Manifests /\ cachedGraph \in Graphs
    /\ pc \in {"idle", "walk", "stat", "read", "hit", "built"}
    /\ root \in Roots
    /\ walked \in Nat /\ files \in Seq(Files) /\ Len(files) <= MaxFiles
    /\ manifest \in Manifests /\ graph \in Graphs
    /\ seen \in [Files -> Texts \union {Gone}] /\ missed \subseteq Files

Init ==
    /\ text \in [Files -> Texts \union {Gone}] /\ mtime = [f \in Files |-> 1]
    /\ clock = 1 /\ edits = 0
    /\ grammars = NoGrammars
    /\ cachedRoot = NoRoot /\ cachedManifest = EmptyManifest /\ cachedGraph = EmptyGraph
    /\ pc = "idle" /\ root \in Roots /\ walked = 0 /\ files = <<>>
    /\ manifest = EmptyManifest /\ graph = EmptyGraph
    /\ seen = [f \in Files |-> Gone] /\ missed = {}

-----------------------------------------------------------------------------
(* The handler. *)

\* A request for root r; rebuild drops the kept graph first.
Request(r, rebuild) ==
    /\ pc \in {"idle", "hit", "built"}
    /\ pc' = "walk" /\ root' = r /\ walked' = 0 /\ files' = <<>>
    /\ manifest' = EmptyManifest /\ graph' = EmptyGraph
    /\ seen' = [f \in Files |-> Gone]
    /\ IF rebuild
       THEN cachedRoot' = NoRoot /\ cachedManifest' = EmptyManifest /\ cachedGraph' = EmptyGraph
       ELSE UNCHANGED slot
    /\ UNCHANGED <<disk, grammars, missed>>

\* Mutant of discoverFiles: the list is looked at after a file was added.
discoverFilesLate ==
    /\ pc = "walk"
    /\ walked < Len(WalkOf[root]) /\ Len(files) <= MaxFiles
    /\ LET f == WalkOf[root][walked + 1]
       IN  files' = IF text[f] # Gone THEN Append(files, f) ELSE files
    /\ walked' = walked + 1
    /\ UNCHANGED <<disk, grammars, slot, pc, root, manifest, graph, seen, missed>>

\* Visit the next directory entry, until there is none or the list is full.
discoverFiles ==
    /\ pc = "walk"
    /\ walked < Len(WalkOf[root]) /\ Len(files) < MaxFiles
    /\ LET f == WalkOf[root][walked + 1]
       IN  files' = IF text[f] # Gone THEN Append(files, f) ELSE files
    /\ walked' = walked + 1
    /\ UNCHANGED <<disk, grammars, slot, pc, root, manifest, graph, seen, missed>>

WalkEnds ==
    /\ pc = "walk"
    /\ walked >= Len(WalkOf[root]) \/ Len(files) >= MaxFiles
    /\ pc' = "stat" /\ walked' = 0
    /\ UNCHANGED <<disk, grammars, slot, root, files, manifest, graph, seen, missed>>

StampOf(f) == [mtime |-> mtime[f], size |-> SizeOf[text[f]]]

\* A file that has gone meanwhile leaves no trace in the manifest.
computeManifestHash ==
    /\ pc = "stat" /\ walked < Len(files)
    /\ LET f == files[walked + 1]
       IN  /\ manifest' = IF text[f] = Gone THEN manifest
                          ELSE [manifest EXCEPT ![f] = StampOf(f)]
           /\ seen' = [seen EXCEPT ![f] = text[f]]
    /\ walked' = walked + 1
    /\ UNCHANGED <<disk, grammars, slot, pc, root, files, graph, missed>>

IsKept == cachedRoot = root /\ cachedManifest = manifest

Hit ==
    /\ pc = "stat" /\ walked >= Len(files) /\ IsKept
    /\ pc' = "hit"
    /\ UNCHANGED <<disk, grammars, slot, root, walked, files, manifest, graph, seen, missed>>

Miss ==
    /\ pc = "stat" /\ walked >= Len(files) /\ ~IsKept
    /\ pc' = "read" /\ walked' = 0
    /\ missed' = {f \in Found : manifest[f] = NoStamp}
    /\ UNCHANGED <<disk, grammars, slot, root, files, manifest, graph, seen>>

\* The first candidate that was found; none for a package.
resolveImportPath(d, found) ==
    {Candidates[d][i] : i \in {j \in DOMAIN Candidates[d] :
        Candidates[d][j] \in found /\ \A k \in 1..(j - 1) : Candidates[d][k] \notin found}}

ImportEdges(f, decls, found) == {<<f, g>> : g \in UNION {resolveImportPath(d, found) : d \in decls}}

\* The graph with file f read.
Indexed(g, f, decls) ==
    [modules |-> g.modules \union {f}, symbols |-> g.symbols \union ({f} \X decls),
     imports |-> g.imports \union ImportEdges(f, decls, Found)]

\* The module node is there before the file is read: an unreadable file keeps
\* a node without symbols.
ReadFails ==
    /\ pc = "read" /\ walked < Len(files)
    /\ LET f == files[walked + 1]
       IN  graph' = [graph EXCEPT !.modules = @ \union {f}] /\ missed' = missed \union {f}
    /\ walked' = walked + 1
    /\ UNCHANGED <<disk, grammars, slot, pc, root, files, manifest, seen>>

ReadFile ==
    /\ pc = "read" /\ walked < Len(files)
    /\ LET f == files[walked + 1]
       IN  /\ text[f] # Gone
           /\ \E g \in getParser(grammars, SourceOf[text[f]]) :
                 /\ grammars' = g
                 /\ graph' = Indexed(graph, f, extractSignatures(g, SourceOf[text[f]]))
           /\ missed' = IF manifest[f] = NoStamp THEN missed ELSE missed \ {f}
    /\ walked' = walked + 1
    /\ UNCHANGED <<disk, slot, pc, root, files, manifest, seen>>

\* Mutant of KeptManifest: the manifest of the files as they are by now.
ManifestAfterReading ==
    [f \in Files |-> IF f \in Found /\ text[f] # Gone THEN StampOf(f) ELSE NoStamp]

KeptManifest == manifest

Keep ==
    /\ pc = "read" /\ walked >= Len(files)
    /\ pc' = "built"
    /\ cachedRoot' = root /\ cachedManifest' = KeptManifest /\ cachedGraph' = graph
    /\ UNCHANGED <<disk, grammars, root, walked, files, manifest, graph, seen, missed>>

-----------------------------------------------------------------------------
(* Other programs write the files.  A version that does not come with a    *)
(* later modification time may leave the manifest as it was.               *)

Writes(f, t, m) ==
    /\ edits < MaxEdits /\ edits' = edits + 1
    /\ text' = [text EXCEPT ![f] = t] /\ mtime' = [mtime EXCEPT ![f] = m]
    /\ missed' = IF m > mtime[f] THEN missed ELSE missed \union {f}
    /\ UNCHANGED <<clock, grammars, slot, handler, seen>>

Write(f, t) == t # text[f] /\ Writes(f, t, clock)
WriteKeepingTime(f, t) == t # text[f] /\ Writes(f, t, mtime[f])

Delete(f) ==
    /\ text[f] # Gone
    /\ edits < MaxEdits /\ edits' = edits + 1
    /\ text' = [text EXCEPT ![f] = Gone]
    /\ UNCHANGED <<mtime, clock, grammars, slot, handler, seen, missed>>

Tick ==
    /\ clock < MaxClock /\ clock' = clock + 1
    /\ UNCHANGED <<text, mtime, edits, grammars, slot, handler, seen, missed>>

Handle ==
    \/ \E r \in Roots, rebuild \in BOOLEAN : Request(r, rebuild)
    \/ discoverFiles \/ WalkEnds \/ computeManifestHash \/ Hit \/ Miss
    \/ ReadFails \/ ReadFile \/ Keep

Edit ==
    \/ \E f \in Files, t \in Texts : Write(f, t) \/ WriteKeepingTime(f, t)
    \/ \E f \in Files : Delete(f)
    \/ Tick

Next == Handle \/ Edit

Spec == Init /\ [][Next]_vars

-----------------------------------------------------------------------------
(* The graph that is served, and what it should say. *)

SymbolsOf(g, f) == {d \in Decls : <<f, d>> \in g.symbols}

\* The files a request came upon, as they were when it looked.
Present == {f \in Found : seen[f] # Gone}
SymbolsNow(f) == extractSignatures(grammars, SourceOf[seen[f]])

\* A kept graph says of every file under its root what the file held when
\* this request looked, as the same readers would find it now, and knows no
\* others, apart from files whose modification time did not tell a write,
\* whose reading failed, or that had gone when they were stat'ed; with no
\* such file its import edges are the present ones too (buildGraph's test of
\* root and manifest).
HitIsCurrentUnlessMissed ==
    pc = "hit" =>
        /\ cachedGraph.modules \ missed = Present \ missed
        /\ \A f \in Present \ missed :
              SymbolsOf(cachedGraph, f) = SymbolsNow(f)
        /\ missed = {} => cachedGraph.imports =
              UNION {ImportEdges(f, SymbolsNow(f), Present) : f \in Present}
=============================================================================
