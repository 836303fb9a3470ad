------------------------- MODULE SymbolGraphProofs -------------------------
(***************************************************************************)
(* Proofs about SymbolGraph, for any project and any number of requests    *)
(* and writes.  The kept graph is good for a file as long as the stamp in  *)
(* the kept manifest is the stamp of what was read: a stamp taken before   *)
(* the reading can only be too old, and then no later stamp equals it.     *)
(***************************************************************************)
EXTENDS SymbolGraph, TLAPS

\* The readers of a source are settled: a later load changes nothing for it.
Tried(g, source) ==
    \/ IsOutlined(source)
    \/ pickGrammarLanguage(source) \in Ungrammared
    \/ g[pickGrammarLanguage(source)] # "untried"

\* Graph g says of file f what a file with stamp m holds, if f still has it.
Vouches(g, m, f) ==
    (text[f] # Gone /\ StampOf(f) = m) =>
        /\ Tried(grammars, SourceOf[text[f]])
        /\ SymbolsOf(g, f) = extractSignatures(grammars, SourceOf[text[f]])

Edges(g, found) == UNION {ImportEdges(f, SymbolsOf(g, f), found) : f \in g.modules}

WalkInv ==
    /\ \A i, j \in DOMAIN files : files[i] = files[j] => i = j
    /\ pc = "walk" =>
          /\ walked <= Len(WalkOf[root])
          /\ \A i \in DOMAIN files : \E j \in 1..walked : files[i] = WalkOf[root][j]
    /\ pc \in {"stat", "read"} => walked <= Len(files)

StatInv ==
    /\ \A f \in Files : manifest[f] = NoStamp <=> seen[f] = Gone
    /\ \A f \in Files : manifest[f] # NoStamp =>
          \E i \in DOMAIN files : files[i] = f /\ (pc = "stat" => i <= walked)
    /\ pc = "walk" => manifest = EmptyManifest

TimeInv ==
    \A f \in Files :
        /\ mtime[f] <= clock
        /\ manifest[f].mtime <= mtime[f] /\ cachedManifest[f].mtime <= mtime[f]

SlotInv ==
    /\ cachedGraph.symbols \subseteq cachedGraph.modules \X Decls
    /\ cachedGraph.imports = Edges(cachedGraph, cachedGraph.modules)
    /\ pc # "read" => \A f \in Files \ missed :
          /\ f \in cachedGraph.modules <=> cachedManifest[f] # NoStamp
          /\ Vouches(cachedGraph, cachedManifest[f], f)

SeenInv ==
    pc \in {"walk", "stat", "hit"} => \A f \in Files \ missed :
        (manifest[f] # NoStamp /\ manifest[f] = cachedManifest[f]) =>
            SymbolsOf(cachedGraph, f) = SymbolsNow(f)

BuildInv ==
    /\ pc \in {"walk", "stat"} => graph = EmptyGraph
    /\ pc = "hit" => manifest = cachedManifest
    /\ pc = "read" =>
          /\ graph.modules = {files[i] : i \in 1..walked}
          /\ graph.symbols \subseteq graph.modules \X Decls
          /\ graph.imports = Edges(graph, Found)
          /\ \A f \in Found \ missed : manifest[f] # NoStamp
          /\ \A f \in graph.modules \ missed : Vouches(graph, manifest[f], f)

IInv == TypeOK /\ WalkInv /\ StatInv /\ TimeInv /\ SlotInv /\ SeenInv /\ BuildInv

-----------------------------------------------------------------------------
(* The readers. *)

LEMMA LanguagesType == \A source \in Source : pickGrammarLanguage(source) \in Languages
BY DEF Source, pickGrammarLanguage, Languages, ExtensionsOf

LEMMA ReadersType ==
    ASSUME NEW g \in Grammars, NEW source \in Source
    PROVE  /\ getParser(g, source) \subseteq Grammars
           /\ extractSignatures(g, source) \subseteq Decls
<1>1. pickGrammarLanguage(source) \in Languages BY LanguagesType
<1>2. getParser(g, source) \subseteq Grammars BY <1>1 DEF getParser, Grammars
<1>3. extractSignatures(g, source) \subseteq Decls
    BY DEF extractSignatures, augmentWithCjsExports, Source
<1> QED BY <1>2, <1>3

\* Whoever asks for a grammar has tried it.
LEMMA TriedAfter ==
    ASSUME NEW g \in Grammars, NEW source \in Source, NEW h \in getParser(g, source)
    PROVE  Tried(h, source)
<1>1. pickGrammarLanguage(source) \in Languages BY LanguagesType
<1> QED BY <1>1 DEF getParser, Grammars, Tried

\* What is settled for one source is not touched by asking for another.
LEMMA SettledReaders ==
    ASSUME NEW g \in Grammars, NEW source \in Source, NEW h \in getParser(g, source),
           NEW other \in Source, Tried(g, other)
    PROVE  Tried(h, other) /\ extractSignatures(h, other) = extractSignatures(g, other)
<1> DEFINE l == pickGrammarLanguage(source)
           k == pickGrammarLanguage(other)
<1>1. l \in Languages /\ k \in Languages BY LanguagesType
<1>2. CASE h = g BY <1>2
<1>3. CASE h # g
    <2>1. g[l] = "untried" /\ l \notin Ungrammared
          /\ (h = [g EXCEPT ![l] = "loaded"] \/ h = [g EXCEPT ![l] = "failed"])
        BY <1>3 DEF getParser
    <2>2. CASE IsOutlined(other) BY <2>2 DEF Tried, extractSignatures
    <2>3. CASE ~IsOutlined(other)
        <3>1. k # l BY <2>1, <2>3 DEF Tried
        <3>2. h[k] = g[k] BY <1>1, <2>1, <3>1 DEF Grammars
        <3> HIDE DEF k, l
        <3>3. Tried(h, other) BY <3>2 DEF Tried, k
        <3>4. extractSignatures(h, other) = extractSignatures(g, other)
            BY <3>2, <2>3 DEF extractSignatures, k
        <3> QED BY <3>3, <3>4
    <2> QED BY <2>2, <2>3
<1> QED BY <1>2, <1>3

-----------------------------------------------------------------------------
(* Types. *)

LEMMA StampType ==
    ASSUME TypeOK, NEW f \in Files, text[f] # Gone
    PROVE  StampOf(f) \in Stamps /\ StampOf(f) # NoStamp /\ StampOf(f).mtime = mtime[f]
<1>1. text[f] \in Texts /\ mtime[f] \in 1..MaxClock BY DEF TypeOK
<1>2. SizeOf[text[f]] \in {SizeOf[t] : t \in Texts} BY <1>1
<1>3. mtime[f] \in 0..MaxClock /\ mtime[f] # 0 BY <1>1, SymbolGraphAssumption DEF SymbolGraphAssumption
<1> QED BY <1>2, <1>3 DEF StampOf, Stamps, NoStamp

LEMMA NoStampType == NoStamp \in Stamps
BY SymbolGraphAssumption DEF NoStamp, Stamps, SymbolGraphAssumption

LEMMA EmptyType == EmptyManifest \in Manifests /\ EmptyGraph \in Graphs
BY NoStampType DEF EmptyManifest, EmptyGraph, Manifests, Graphs

LEMMA InitType == Init => TypeOK
<1> SUFFICES ASSUME Init PROVE TypeOK OBVIOUS
<1> USE SymbolGraphAssumption DEF SymbolGraphAssumption
<1>1. NoGrammars \in Grammars BY DEF NoGrammars, Grammars
<1>2. 1 \in 1..MaxClock \/ MaxClock = 0 OBVIOUS
<1> QED BY <1>1, <1>2, EmptyType DEF Init, TypeOK

LEMMA ResolveType ==
    ASSUME NEW d \in Decls, NEW found
    PROVE  resolveImportPath(d, found) \subseteq found \cap Files
<1> USE SymbolGraphAssumption DEF SymbolGraphAssumption
<1>1. Candidates[d] \in Seq(Files) OBVIOUS
<1> QED BY <1>1 DEF resolveImportPath

LEMMA EdgesType ==
    ASSUME NEW f \in Files, NEW decls \in SUBSET Decls, NEW found
    PROVE  ImportEdges(f, decls, found) \subseteq Files \X Files
BY ResolveType DEF ImportEdges

LEMMA NextType == TypeOK /\ [Next]_vars => TypeOK'
<1> SUFFICES ASSUME TypeOK, [Next]_vars PROVE TypeOK' OBVIOUS
<1> USE SymbolGraphAssumption DEF SymbolGraphAssumption
<1>0. CASE UNCHANGED vars
    BY <1>0 DEF TypeOK, vars, disk, slot, handler
<1>1. ASSUME NEW r \in Roots, NEW rebuild \in BOOLEAN, Request(r, rebuild) PROVE TypeOK'
    BY <1>1, EmptyType DEF TypeOK, Request, disk, slot
<1>2. CASE discoverFiles
    <2>1. WalkOf[root] \in Seq(Files) /\ walked + 1 \in DOMAIN WalkOf[root]
        BY <1>2 DEF TypeOK, discoverFiles
    <2>2. files' \in Seq(Files) /\ Len(files') <= MaxFiles
        BY <1>2, <2>1 DEF TypeOK, discoverFiles
    <2> QED BY <1>2, <2>2 DEF TypeOK, discoverFiles, disk, slot
<1>3. CASE WalkEnds BY <1>3 DEF TypeOK, WalkEnds, disk, slot
<1>4. CASE computeManifestHash
    <2> DEFINE f == files[walked + 1]
    <2>1. f \in Files BY <1>4 DEF TypeOK, computeManifestHash
    <2>2. manifest' \in Manifests BY <1>4, <2>1, StampType DEF TypeOK, computeManifestHash, Manifests
    <2>3. seen' \in [Files -> Texts \union {Gone}] BY <1>4, <2>1 DEF TypeOK, computeManifestHash
    <2> QED BY <1>4, <2>2, <2>3 DEF TypeOK, computeManifestHash, disk, slot
<1>5. CASE Hit BY <1>5 DEF TypeOK, Hit, disk, slot
<1>6. CASE Miss BY <1>6 DEF TypeOK, Miss, disk, slot, Found
<1>7. CASE ReadFails
    <2>1. files[walked + 1] \in Files BY <1>7 DEF TypeOK, ReadFails
    <2>2. graph' \in Graphs BY <1>7, <2>1 DEF TypeOK, ReadFails, Graphs
    <2> QED BY <1>7, <2>1, <2>2 DEF TypeOK, ReadFails, disk, slot
<1>8. CASE ReadFile
    <2> DEFINE f == files[walked + 1]
    <2>1. f \in Files /\ text[f] \in Texts BY <1>8 DEF TypeOK, ReadFile
    <2>2. PICK g \in getParser(grammars, SourceOf[text[f]]) :
            grammars' = g /\ graph' = Indexed(graph, f, extractSignatures(g, SourceOf[text[f]]))
        BY <1>8 DEF ReadFile
    <2>3. SourceOf[text[f]] \in Source /\ grammars \in Grammars BY <2>1 DEF TypeOK
    <2>4. g \in Grammars BY <2>2, <2>3, ReadersType
    <2>5. extractSignatures(g, SourceOf[text[f]]) \subseteq Decls BY <2>3, <2>4, ReadersType
    <2>6. graph' \in Graphs BY <2>1, <2>2, <2>5, EdgesType DEF TypeOK, Indexed, Graphs
    <2> QED BY <1>8, <2>1, <2>2, <2>4, <2>6 DEF TypeOK, ReadFile, disk, slot
<1>9. CASE Keep BY <1>9 DEF TypeOK, Keep, KeptManifest, disk
<1>10. ASSUME NEW f \in Files, NEW t \in Texts, Write(f, t) \/ WriteKeepingTime(f, t) PROVE TypeOK'
    <2>1. PICK m \in 1..MaxClock : Writes(f, t, m)
        BY <1>10 DEF TypeOK, Write, WriteKeepingTime
    <2> QED BY <2>1 DEF TypeOK, Writes, slot, handler
<1>11. ASSUME NEW f \in Files, Delete(f) PROVE TypeOK'
    BY <1>11 DEF TypeOK, Delete, slot, handler
<1>12. CASE Tick BY <1>12 DEF TypeOK, Tick, slot, handler
<1> QED BY <1>0, <1>1, <1>2, <1>3, <1>4, <1>5, <1>6, <1>7, <1>8, <1>9, <1>10, <1>11, <1>12
    DEF Next, Handle, Edit

\* The variables hold what TypeOK says they hold.
THEOREM TypeCorrect == Spec => []TypeOK
<1>1. TypeOK /\ [Next]_vars => TypeOK' BY NextType
<1> QED BY <1>1, InitType, PTL DEF Spec

-----------------------------------------------------------------------------
(* The inductive invariant. *)

LEMMA InitIInv == Init => IInv
<1> SUFFICES ASSUME Init PROVE IInv OBVIOUS
<1>1. TypeOK BY InitType
<1>2. WalkInv BY DEF Init, WalkInv
<1>3. StatInv BY DEF Init, StatInv, EmptyManifest
<1>4. TimeInv BY DEF Init, TimeInv, EmptyManifest, NoStamp
<1>5. \A f \in Files : text[f] # Gone => StampOf(f) # NoStamp BY <1>1, StampType
<1>6. SlotInv BY <1>5 DEF Init, SlotInv, EmptyManifest, EmptyGraph, Edges, Vouches
<1>7. SeenInv BY DEF Init, SeenInv
<1>8. BuildInv BY DEF Init, BuildInv
<1> QED BY <1>1, <1>2, <1>3, <1>4, <1>6, <1>7, <1>8 DEF IInv

\* Nothing the slot's invariant is about has changed.
LEMMA SlotFrame ==
    ASSUME SlotInv, pc # "read", pc' # "read", UNCHANGED <<text, mtime, grammars, slot, missed>>
    PROVE  SlotInv'
<1>1. cachedGraph' = cachedGraph /\ cachedManifest' = cachedManifest BY DEF slot
<1>2. cachedGraph'.symbols \subseteq cachedGraph'.modules \X Decls BY <1>1 DEF SlotInv
<1>3. cachedGraph'.imports = Edges(cachedGraph', cachedGraph'.modules) BY <1>1 DEF SlotInv
<1>4. ASSUME NEW f \in Files \ missed
      PROVE  /\ f \in cachedGraph'.modules <=> cachedManifest'[f] # NoStamp
             /\ Vouches(cachedGraph, cachedManifest[f], f)'
    BY <1>1 DEF SlotInv, Vouches, StampOf
<1> QED BY <1>2, <1>3, <1>4 DEF SlotInv

\* The steps of the handler that leave files, slot and readers alone.
LEMMA RequestStep ==
    ASSUME IInv, TypeOK', NEW r \in Roots, NEW rebuild \in BOOLEAN, Request(r, rebuild)
    PROVE  IInv'
<1> USE DEF IInv
<1>0. pc' = "walk" /\ files' = <<>> /\ walked' = 0 /\ root' = r /\ missed' = missed
      /\ manifest' = EmptyManifest /\ graph' = EmptyGraph /\ seen' = [f \in Files |-> Gone]
      /\ text' = text /\ mtime' = mtime /\ clock' = clock /\ grammars' = grammars /\ pc # "read"
    BY DEF Request, disk
<1>1. WalkInv'
    <2>1. Len(WalkOf[r]) >= 0 BY SymbolGraphAssumption DEF SymbolGraphAssumption
    <2> QED BY <1>0, <2>1 DEF WalkInv
<1>2. StatInv' BY <1>0 DEF StatInv, EmptyManifest
<1>3. \/ cachedRoot' = NoRoot /\ cachedManifest' = EmptyManifest /\ cachedGraph' = EmptyGraph
      \/ UNCHANGED slot
    BY DEF Request
<1>4. TimeInv'
    BY <1>0, <1>3 DEF TimeInv, TypeOK, EmptyManifest, NoStamp, slot
<1>5. SlotInv'
    <2>1. CASE cachedManifest' = EmptyManifest /\ cachedGraph' = EmptyGraph
        <3>1. \A f \in Files : text[f] # Gone => StampOf(f) # NoStamp BY StampType
        <3> QED BY <1>0, <2>1, <3>1 DEF SlotInv, EmptyManifest, EmptyGraph, Edges, Vouches, StampOf
    <2>2. CASE UNCHANGED slot
        BY <1>0, <2>2, SlotFrame
    <2> QED BY <1>3, <2>1, <2>2
<1>6. SeenInv' BY <1>0 DEF SeenInv, EmptyManifest
<1>7. BuildInv' BY <1>0 DEF BuildInv
<1> QED BY <1>1, <1>2, <1>4, <1>5, <1>6, <1>7

LEMMA DiscoverStep == ASSUME IInv, TypeOK', discoverFiles PROVE IInv'
<1> USE DEF IInv
<1> DEFINE f == WalkOf[root][walked + 1]
<1>0. pc = "walk" /\ pc' = pc /\ walked' = walked + 1 /\ root' = root /\ missed' = missed
      /\ UNCHANGED <<text, mtime, clock, grammars, slot, manifest, graph, seen>>
      /\ walked < Len(WalkOf[root])
    BY DEF discoverFiles, disk
<1>a. WalkOf[root] \in Seq(Files) /\ walked + 1 \in DOMAIN WalkOf[root] /\ walked \in Nat
      /\ files \in Seq(Files)
    BY <1>0, SymbolGraphAssumption DEF SymbolGraphAssumption, TypeOK
<1>1. WalkInv'
    <2>1. CASE files' = files BY <1>0, <1>a, <2>1 DEF WalkInv
    <2>2. CASE files' = Append(files, f)
        <3>1. \A i \in DOMAIN files' : \E j \in 1..walked' : files'[i] = WalkOf[root][j]
            <4> SUFFICES ASSUME NEW i \in DOMAIN files'
                         PROVE  \E j \in 1..(walked + 1) : files'[i] = WalkOf[root][j]
                BY <1>0
            <4>1. CASE i \in DOMAIN files
                <5>1. PICK j \in 1..walked : files[i] = WalkOf[root][j] BY <1>0, <4>1 DEF WalkInv
                <5>2. files'[i] = files[i] BY <1>a, <2>2, <4>1
                <5>3. j \in 1..(walked + 1) BY <1>a
                <5> QED BY <5>1, <5>2, <5>3
            <4>2. CASE i \notin DOMAIN files
                <5>1. files'[i] = f BY <1>a, <2>2, <4>2
                <5>2. walked + 1 \in 1..(walked + 1) BY <1>a
                <5> QED BY <5>1, <5>2
            <4> QED BY <4>1, <4>2
        <3>2. \A i \in DOMAIN files : files[i] # f
            <4> SUFFICES ASSUME NEW i \in DOMAIN files, files[i] = f PROVE FALSE OBVIOUS
            <4>1. PICK j \in 1..walked : files[i] = WalkOf[root][j] BY <1>0 DEF WalkInv
            <4>2. j \in DOMAIN WalkOf[root] /\ root \in Roots BY <1>0, <1>a DEF TypeOK
            <4>3. j = walked + 1
                BY <1>a, <4>1, <4>2, SymbolGraphAssumption DEF SymbolGraphAssumption
            <4> QED BY <1>a, <4>3
        <3>3. \A i, j \in DOMAIN files' : files'[i] = files'[j] => i = j
            BY <1>a, <2>2, <3>2 DEF WalkInv
        <3> QED BY <1>0, <1>a, <3>1, <3>3 DEF WalkInv
    <2> QED BY <2>1, <2>2 DEF discoverFiles
<1>2. StatInv' BY <1>0 DEF StatInv, EmptyManifest
<1>3. TimeInv' BY <1>0 DEF TimeInv, slot
<1>4. SlotInv' BY <1>0, SlotFrame
<1>5. SeenInv' BY <1>0 DEF SeenInv, slot, SymbolsOf, SymbolsNow
<1>6. BuildInv' BY <1>0 DEF BuildInv, slot
<1> QED BY <1>1, <1>2, <1>3, <1>4, <1>5, <1>6

LEMMA WalkEndsStep == ASSUME IInv, TypeOK', WalkEnds PROVE IInv'
<1> USE DEF IInv
<1>0. pc = "walk" /\ pc' = "stat" /\ walked' = 0 /\ root' = root /\ missed' = missed
      /\ UNCHANGED <<text, mtime, clock, grammars, slot, manifest, graph, seen, files>>
    BY DEF WalkEnds, disk
<1>1. WalkInv' BY <1>0 DEF WalkInv, TypeOK
<1>2. StatInv' BY <1>0 DEF StatInv, EmptyManifest
<1>3. TimeInv' BY <1>0 DEF TimeInv, slot
<1>4. SlotInv' BY <1>0, SlotFrame
<1>5. SeenInv' BY <1>0 DEF SeenInv, slot, SymbolsOf, SymbolsNow
<1>6. BuildInv' BY <1>0 DEF BuildInv, slot
<1> QED BY <1>1, <1>2, <1>3, <1>4, <1>5, <1>6

LEMMA StatStep == ASSUME IInv, TypeOK', computeManifestHash PROVE IInv'
<1> USE DEF IInv
<1> DEFINE f == files[walked + 1]
<1>0. pc = "stat" /\ pc' = pc /\ walked < Len(files) /\ walked' = walked + 1
      /\ root' = root /\ missed' = missed
      /\ UNCHANGED <<text, mtime, clock, grammars, slot, graph, files>>
      /\ manifest' = (IF text[f] = Gone THEN manifest ELSE [manifest EXCEPT ![f] = StampOf(f)])
      /\ seen' = [seen EXCEPT ![f] = text[f]]
    BY DEF computeManifestHash, disk
<1>a. walked \in Nat /\ files \in Seq(Files) /\ walked + 1 \in DOMAIN files /\ f \in Files
    BY <1>0 DEF TypeOK
<1>b. manifest[f] = NoStamp
    <2> SUFFICES ASSUME manifest[f] # NoStamp PROVE FALSE OBVIOUS
    <2>1. PICK i \in DOMAIN files : files[i] = f /\ i <= walked BY <1>0, <1>a DEF StatInv
    <2> QED BY <1>a, <2>1 DEF WalkInv
<1>c. text[f] # Gone => StampOf(f) # NoStamp /\ StampOf(f).mtime = mtime[f]
    BY <1>a, StampType
<1>d. \A g \in Files : g # f => manifest'[g] = manifest[g] /\ seen'[g] = seen[g]
    BY <1>0, <1>a DEF TypeOK, Manifests
<1>e. manifest'[f] = (IF text[f] = Gone THEN NoStamp ELSE StampOf(f)) /\ seen'[f] = text[f]
    BY <1>0, <1>a, <1>b DEF TypeOK, Manifests
<1> HIDE DEF f
<1>1. WalkInv' BY <1>0, <1>a DEF WalkInv
<1>2. StatInv'
    <2>1. \A g \in Files : manifest'[g] = NoStamp <=> seen'[g] = Gone
        BY <1>c, <1>d, <1>e DEF StatInv
    <2>2. \A g \in Files : manifest'[g] # NoStamp =>
            \E i \in DOMAIN files : files[i] = g /\ i <= walked + 1
        <3> SUFFICES ASSUME NEW g \in Files, manifest'[g] # NoStamp
                     PROVE  \E i \in DOMAIN files : files[i] = g /\ i <= walked + 1
            OBVIOUS
        <3>1. CASE g = f BY <1>a, <3>1 DEF f
        <3>2. CASE g # f
            <4>1. PICK i \in DOMAIN files : files[i] = g /\ i <= walked
                BY <1>0, <1>d, <3>2 DEF StatInv
            <4> QED BY <1>a, <4>1
        <3> QED BY <3>1, <3>2
    <2> QED BY <1>0, <2>1, <2>2 DEF StatInv
<1>3. TimeInv'
    <2>1. \A g \in Files : manifest'[g].mtime <= mtime[g]
        <3>1. manifest[f].mtime <= mtime[f] /\ manifest[f].mtime = 0 BY <1>a, <1>b DEF TimeInv, NoStamp
        <3>2. mtime[f] <= mtime[f] BY <1>a, SymbolGraphAssumption DEF TypeOK, SymbolGraphAssumption
        <3>3. manifest'[f].mtime <= mtime[f] BY <1>b, <1>c, <1>e, <3>1, <3>2
        <3> QED BY <1>d, <3>3 DEF TimeInv
    <2> QED BY <1>0, <2>1 DEF TimeInv, slot
<1>4. SlotInv' BY <1>0, SlotFrame
<1>5. SeenInv'
    <2> SUFFICES ASSUME NEW g \in Files \ missed, manifest'[g] # NoStamp,
                        manifest'[g] = cachedManifest[g]
                 PROVE  SymbolsOf(cachedGraph, g) =
                            extractSignatures(grammars, SourceOf[seen'[g]])
        BY <1>0 DEF SeenInv, slot, SymbolsOf, SymbolsNow
    <2>1. CASE g = f
        <3>1. text[g] # Gone /\ StampOf(g) = cachedManifest[g] /\ seen'[g] = text[g]
            BY <1>e, <2>1
        <3>2. Vouches(cachedGraph, cachedManifest[g], g) BY <1>0 DEF SlotInv
        <3> QED BY <3>1, <3>2 DEF Vouches
    <2>2. CASE g # f BY <1>0, <1>d, <2>2 DEF SeenInv, SymbolsNow
    <2> QED BY <2>1, <2>2
<1>6. BuildInv' BY <1>0 DEF BuildInv, slot
<1> QED BY <1>1, <1>2, <1>3, <1>4, <1>5, <1>6

LEMMA HitStep == ASSUME IInv, TypeOK', Hit PROVE IInv'
<1> USE DEF IInv
<1>0. pc = "stat" /\ pc' = "hit" /\ missed' = missed /\ manifest = cachedManifest
      /\ UNCHANGED <<text, mtime, clock, grammars, slot, manifest, graph, seen, files, root, walked>>
    BY DEF Hit, IsKept, disk
<1>1. WalkInv' BY <1>0 DEF WalkInv
<1>2. StatInv' BY <1>0 DEF StatInv
<1>3. TimeInv' BY <1>0 DEF TimeInv, slot
<1>4. SlotInv' BY <1>0, SlotFrame
<1>5. SeenInv' BY <1>0 DEF SeenInv, slot, SymbolsOf, SymbolsNow
<1>6. BuildInv' BY <1>0 DEF BuildInv, slot
<1> QED BY <1>1, <1>2, <1>3, <1>4, <1>5, <1>6

LEMMA MissStep == ASSUME IInv, TypeOK', Miss PROVE IInv'
<1> USE DEF IInv
<1>0. pc = "stat" /\ pc' = "read" /\ walked' = 0
      /\ missed' = {f \in Found : manifest[f] = NoStamp}
      /\ UNCHANGED <<text, mtime, clock, grammars, slot, manifest, graph, seen, files, root>>
    BY DEF Miss, disk
<1>1. WalkInv' BY <1>0 DEF WalkInv, TypeOK
<1>2. StatInv' BY <1>0 DEF StatInv
<1>3. TimeInv' BY <1>0 DEF TimeInv, slot
<1>4. SlotInv' BY <1>0 DEF SlotInv, slot
<1>5. SeenInv' BY <1>0 DEF SeenInv
<1>6. BuildInv'
    <2>1. graph' = EmptyGraph /\ Found' = Found BY <1>0 DEF BuildInv, Found
    <2>2. {files'[i] : i \in 1..walked'} = {} BY <1>0
    <2>3. graph'.modules = {} /\ graph'.symbols = {} /\ graph'.imports = {}
        BY <2>1 DEF EmptyGraph
    <2>4. Edges(graph', Found) = {} BY <2>3 DEF Edges
    <2>5. \A f \in Found' \ missed' : manifest'[f] # NoStamp BY <1>0, <2>1
    <2> QED BY <1>0, <2>1, <2>2, <2>3, <2>4, <2>5 DEF BuildInv
<1> QED BY <1>1, <1>2, <1>3, <1>4, <1>5, <1>6

\* A file that is yet to be read is not in the graph.
LEMMA Unread ==
    ASSUME IInv, pc = "read", walked < Len(files)
    PROVE  /\ files[walked + 1] \in Files \ graph.modules
           /\ files[walked + 1] \in Found
           /\ {files[i] : i \in 1..(walked + 1)} = graph.modules \union {files[walked + 1]}
<1> USE DEF IInv
<1>1. walked \in Nat /\ files \in Seq(Files) /\ walked + 1 \in DOMAIN files BY DEF TypeOK
<1>2. graph.modules = {files[i] : i \in 1..walked} BY DEF BuildInv
<1>3. \A i \in 1..walked : i \in DOMAIN files /\ i # walked + 1 BY <1>1
<1>4. files[walked + 1] \notin graph.modules BY <1>1, <1>2, <1>3 DEF WalkInv
<1>5. 1..(walked + 1) = 1..walked \union {walked + 1} BY <1>1
<1> QED BY <1>1, <1>2, <1>4, <1>5 DEF Found

\* Reading a file into the graph: its module and symbol nodes and its edges.
LEMMA IndexedGraph ==
    ASSUME NEW g \in Graphs, g.symbols \subseteq g.modules \X Decls, NEW found,
           g.imports = Edges(g, found), NEW f \in Files, f \notin g.modules,
           NEW decls \in SUBSET Decls, NEW h \in Graphs,
           h.modules = g.modules \union {f}, h.symbols = g.symbols \union ({f} \X decls),
           h.imports = g.imports \union ImportEdges(f, decls, found)
    PROVE  /\ h.symbols \subseteq h.modules \X Decls
           /\ SymbolsOf(h, f) = decls
           /\ \A e \in Files : e # f => SymbolsOf(h, e) = SymbolsOf(g, e)
           /\ h.imports = Edges(h, found)
<1>1. h.symbols \subseteq h.modules \X Decls OBVIOUS
<1>2. SymbolsOf(h, f) = decls BY DEF SymbolsOf
<1>3. \A e : e # f => SymbolsOf(h, e) = SymbolsOf(g, e) BY DEF SymbolsOf
<1>4. h.imports = Edges(h, found)
    <2>1. \A e \in g.modules : ImportEdges(e, SymbolsOf(h, e), found)
                                = ImportEdges(e, SymbolsOf(g, e), found)
        BY <1>3
    <2>2. Edges(h, found) = (UNION {ImportEdges(e, SymbolsOf(h, e), found) : e \in g.modules})
                            \union ImportEdges(f, SymbolsOf(h, f), found)
        BY DEF Edges
    <2> QED BY <1>2, <2>1, <2>2 DEF Edges
<1> QED BY <1>1, <1>2, <1>3, <1>4

LEMMA ReadFailsStep == ASSUME IInv, TypeOK', ReadFails PROVE IInv'
<1> USE DEF IInv
<1> DEFINE f == files[walked + 1]
<1>0. pc = "read" /\ pc' = pc /\ walked < Len(files) /\ walked' = walked + 1
      /\ graph' = [graph EXCEPT !.modules = @ \union {f}] /\ missed' = missed \union {f}
      /\ UNCHANGED <<text, mtime, clock, grammars, slot, manifest, seen, files, root>>
    BY DEF ReadFails, disk
<1>a. f \in Files \ graph.modules /\ f \in Found
      /\ {files[i] : i \in 1..(walked + 1)} = graph.modules \union {f}
    BY <1>0, Unread
<1>b. graph'.modules = graph.modules \union {f} /\ graph'.symbols = graph.symbols \union ({f} \X {})
      /\ graph'.imports = graph.imports \union ImportEdges(f, {}, Found)
    BY <1>0 DEF TypeOK, Graphs, ImportEdges
<1>c. /\ graph.symbols \subseteq graph.modules \X Decls /\ graph.imports = Edges(graph, Found)
      /\ \A e \in graph.modules \ missed : Vouches(graph, manifest[e], e)
      /\ \A e \in Found \ missed : manifest[e] # NoStamp
    BY <1>0 DEF BuildInv
<1>d. graph \in Graphs /\ graph' \in Graphs BY DEF TypeOK
<1>e. Found' = Found BY <1>0 DEF Found
<1> HIDE DEF f
<1>f. /\ graph'.symbols \subseteq graph'.modules \X Decls /\ graph'.imports = Edges(graph', Found)
      /\ \A e \in Files : e # f => SymbolsOf(graph', e) = SymbolsOf(graph, e)
    <2>1. PICK h \in Graphs : h = graph' BY <1>d
    <2> QED BY <1>a, <1>b, <1>c, <1>d, <2>1, IndexedGraph
<1>1. WalkInv' BY <1>0 DEF WalkInv, TypeOK
<1>2. StatInv' BY <1>0 DEF StatInv
<1>3. TimeInv' BY <1>0 DEF TimeInv, slot
<1>4. SlotInv' BY <1>0 DEF SlotInv, slot
<1>5. SeenInv' BY <1>0 DEF SeenInv
<1>6. BuildInv'
    <2>1. graph'.modules = {files'[i] : i \in 1..walked'} BY <1>0, <1>a, <1>b
    <2>2. \A e \in graph'.modules \ missed' : Vouches(graph, manifest[e], e)'
        <3> SUFFICES ASSUME NEW e \in graph'.modules \ missed' PROVE Vouches(graph, manifest[e], e)'
            OBVIOUS
        <3>1. e \in graph.modules \ missed /\ e # f BY <1>0, <1>b
        <3>2. e \in Files BY <1>d, <3>1 DEF Graphs
        <3>3. Vouches(graph, manifest[e], e) BY <1>c, <3>1
        <3> QED BY <1>0, <1>f, <3>1, <3>2, <3>3 DEF Vouches, StampOf
    <2> QED BY <1>0, <1>c, <1>e, <1>f, <2>1, <2>2 DEF BuildInv
<1> QED BY <1>1, <1>2, <1>3, <1>4, <1>5, <1>6

LEMMA ReadFileStep == ASSUME IInv, TypeOK', ReadFile PROVE IInv'
<1> USE DEF IInv
<1> DEFINE f == files[walked + 1]
<1>0. pc = "read" /\ pc' = pc /\ walked < Len(files) /\ walked' = walked + 1 /\ text[f] # Gone
      /\ missed' = (IF manifest[f] = NoStamp THEN missed ELSE missed \ {f})
      /\ UNCHANGED <<text, mtime, clock, slot, manifest, seen, files, root>>
    BY DEF ReadFile, disk
<1>a. f \in Files \ graph.modules /\ f \in Found
      /\ {files[i] : i \in 1..(walked + 1)} = graph.modules \union {f}
    BY <1>0, Unread
<1>b. text[f] \in Texts /\ SourceOf[text[f]] \in Source /\ grammars \in Grammars
    BY <1>0, <1>a, SymbolGraphAssumption DEF TypeOK, SymbolGraphAssumption
<1>c. PICK h \in getParser(grammars, SourceOf[text[f]]) :
        grammars' = h /\ graph' = Indexed(graph, f, extractSignatures(h, SourceOf[text[f]]))
    BY DEF ReadFile
<1>d. h \in Grammars /\ Tried(h, SourceOf[text[f]]) BY <1>b, <1>c, ReadersType, TriedAfter
<1>e. extractSignatures(h, SourceOf[text[f]]) \in SUBSET Decls BY <1>b, <1>d, ReadersType
<1>g. /\ graph.symbols \subseteq graph.modules \X Decls /\ graph.imports = Edges(graph, Found)
      /\ \A e \in graph.modules \ missed : Vouches(graph, manifest[e], e)
      /\ \A e \in Found \ missed : manifest[e] # NoStamp
    BY <1>0 DEF BuildInv
<1>h. graph \in Graphs /\ graph' \in Graphs BY DEF TypeOK
<1>i. Found' = Found BY <1>0 DEF Found
<1> HIDE DEF f
<1>j. graph'.modules = graph.modules \union {f} BY <1>c DEF Indexed
<1>f. /\ graph'.symbols \subseteq graph'.modules \X Decls /\ graph'.imports = Edges(graph', Found)
      /\ SymbolsOf(graph', f) = extractSignatures(h, SourceOf[text[f]])
      /\ \A e \in Files : e # f => SymbolsOf(graph', e) = SymbolsOf(graph, e)
    <2>1. PICK g \in Graphs : g = graph' BY <1>h
    <2> DEFINE decls == extractSignatures(h, SourceOf[text[f]])
    <2>2. g.modules = graph.modules \union {f} /\ g.symbols = graph.symbols \union ({f} \X decls)
          /\ g.imports = graph.imports \union ImportEdges(f, decls, Found)
        BY <1>c, <2>1 DEF Indexed
    <2> HIDE DEF decls
    <2>3. decls \in SUBSET Decls BY <1>e DEF decls
    <2>4. /\ g.symbols \subseteq g.modules \X Decls /\ g.imports = Edges(g, Found)
          /\ SymbolsOf(g, f) = decls
          /\ \A e \in Files : e # f => SymbolsOf(g, e) = SymbolsOf(graph, e)
        BY <1>a, <1>g, <1>h, <2>2, <2>3, IndexedGraph
    <2> QED BY <2>1, <2>4 DEF decls
<1>1. WalkInv' BY <1>0 DEF WalkInv, TypeOK
<1>2. StatInv' BY <1>0 DEF StatInv
<1>3. TimeInv' BY <1>0 DEF TimeInv, slot
<1>4. SlotInv' BY <1>0 DEF SlotInv, slot
<1>5. SeenInv' BY <1>0 DEF SeenInv
<1>6. BuildInv'
    <2>1. graph'.modules = {files'[i] : i \in 1..walked'} BY <1>0, <1>a, <1>j
    <2>2. \A e \in graph'.modules \ missed' : Vouches(graph, manifest[e], e)'
        <3> SUFFICES ASSUME NEW e \in graph'.modules \ missed' PROVE Vouches(graph, manifest[e], e)'
            OBVIOUS
        <3>1. CASE e = f BY <1>0, <1>c, <1>d, <1>f, <3>1 DEF Vouches, StampOf
        <3>2. CASE e # f
            <4>1. e \in graph.modules \ missed BY <1>0, <1>j, <3>2
            <4>2. e \in Files BY <1>h, <4>1 DEF Graphs
            <4>3. Vouches(graph, manifest[e], e) BY <1>g, <4>1
            <4>4. SUFFICES ASSUME text[e] # Gone, StampOf(e) = manifest[e]
                           PROVE  /\ Tried(h, SourceOf[text[e]])
                                  /\ SymbolsOf(graph', e) = extractSignatures(h, SourceOf[text[e]])
                BY <1>0, <1>c DEF Vouches, StampOf
            <4>5. Tried(grammars, SourceOf[text[e]])
                  /\ SymbolsOf(graph, e) = extractSignatures(grammars, SourceOf[text[e]])
                BY <4>3, <4>4 DEF Vouches
            <4>6. SourceOf[text[e]] \in Source
                BY <4>2, <4>4, SymbolGraphAssumption DEF TypeOK, SymbolGraphAssumption
            <4> QED BY <1>b, <1>c, <1>f, <3>2, <4>2, <4>5, <4>6, SettledReaders
        <3> QED BY <3>1, <3>2
    <2>3. \A e \in Found' \ missed' : manifest'[e] # NoStamp BY <1>0, <1>g, <1>i
    <2> QED BY <1>0, <1>f, <1>i, <2>1, <2>2, <2>3 DEF BuildInv
<1> QED BY <1>1, <1>2, <1>3, <1>4, <1>5, <1>6

LEMMA KeepStep == ASSUME IInv, TypeOK', Keep PROVE IInv'
<1> USE DEF IInv
<1>0. pc = "read" /\ pc' = "built" /\ walked >= Len(files)
      /\ cachedManifest' = manifest /\ cachedGraph' = graph
      /\ UNCHANGED <<text, mtime, clock, grammars, manifest, graph, seen, missed, files, root, walked>>
    BY DEF Keep, KeptManifest, disk
<1>a. walked = Len(files) BY <1>0 DEF WalkInv, TypeOK
<1>b. graph.modules = Found
    <2>1. DOMAIN files = 1..walked BY <1>a DEF TypeOK
    <2> QED BY <1>0, <2>1 DEF BuildInv, Found
<1>1. WalkInv' BY <1>0 DEF WalkInv
<1>2. StatInv' BY <1>0 DEF StatInv
<1>3. TimeInv' BY <1>0 DEF TimeInv
<1>4. SlotInv'
    <2>1. cachedGraph'.symbols \subseteq cachedGraph'.modules \X Decls
          /\ cachedGraph'.imports = Edges(cachedGraph', cachedGraph'.modules)
        BY <1>0, <1>b DEF BuildInv
    <2>2. ASSUME NEW f \in Files \ missed
          PROVE  /\ f \in graph.modules <=> manifest[f] # NoStamp
                 /\ Vouches(graph, manifest[f], f)
        <3>1. CASE f \in Found BY <1>0, <1>b, <3>1 DEF BuildInv
        <3>2. CASE f \notin Found
            <4>1. manifest[f] = NoStamp BY <3>2 DEF StatInv, Found
            <4>2. text[f] # Gone => StampOf(f) # NoStamp BY StampType
            <4> QED BY <1>b, <3>2, <4>1, <4>2 DEF Vouches
        <3> QED BY <3>1, <3>2
    <2>3. ASSUME NEW f \in Files \ missed
          PROVE  /\ f \in cachedGraph'.modules <=> cachedManifest'[f] # NoStamp
                 /\ Vouches(cachedGraph, cachedManifest[f], f)'
        BY <1>0, <2>2 DEF Vouches, StampOf
    <2> QED BY <1>0, <2>1, <2>3 DEF SlotInv
<1>5. SeenInv' BY <1>0 DEF SeenInv
<1>6. BuildInv' BY <1>0 DEF BuildInv
<1> QED BY <1>1, <1>2, <1>3, <1>4, <1>5, <1>6

-----------------------------------------------------------------------------
(* The writes of other programs. *)

LEMMA WritesStep ==
    ASSUME IInv, TypeOK', NEW f \in Files, NEW t \in Texts, NEW m \in 1..MaxClock,
           m = clock \/ m = mtime[f], Writes(f, t, m)
    PROVE  IInv'
<1> USE DEF IInv
<1>0. /\ text' = [text EXCEPT ![f] = t] /\ mtime' = [mtime EXCEPT ![f] = m]
      /\ missed' = (IF m > mtime[f] THEN missed ELSE missed \union {f})
      /\ UNCHANGED <<clock, grammars, slot, handler, seen>>
    BY DEF Writes
<1>a. /\ mtime[f] \in 1..MaxClock /\ clock \in 1..MaxClock /\ m <= clock /\ mtime[f] <= m
      /\ mtime'[f] = m /\ text'[f] = t
      /\ \A g \in Files : g # f => text'[g] = text[g] /\ mtime'[g] = mtime[g]
    BY <1>0, SymbolGraphAssumption DEF TypeOK, TimeInv, SymbolGraphAssumption
<1>b. missed \subseteq missed' /\ (f \notin missed' => mtime[f] < m) BY <1>0, <1>a
<1>c. /\ pc' = pc /\ root' = root /\ walked' = walked /\ files' = files /\ manifest' = manifest
      /\ graph' = graph /\ cachedManifest' = cachedManifest /\ cachedGraph' = cachedGraph
      /\ Found' = Found
    BY <1>0 DEF slot, handler, Found
<1>d. ASSUME NEW g, NEW man \in Manifests, \A e \in Files : man[e].mtime <= mtime[e],
             NEW e \in Files \ missed', Vouches(g, man[e], e)
      PROVE  (text'[e] # Gone /\ StampOf(e)' = man[e]) =>
                /\ Tried(grammars, SourceOf[text'[e]])
                /\ SymbolsOf(g, e) = extractSignatures(grammars, SourceOf[text'[e]])
    <2>1. CASE e = f
        <3>1. man[f].mtime <= mtime[f] /\ mtime[f] < m /\ StampOf(f)'.mtime = m
            BY <1>a, <1>b, <1>d, <2>1 DEF StampOf
        <3>2. man[f].mtime \in Int BY SymbolGraphAssumption DEF Manifests, Stamps, SymbolGraphAssumption
        <3>3. StampOf(f)' # man[f] BY <1>a, <3>1, <3>2
        <3> QED BY <2>1, <3>3
    <2>2. CASE e # f
        <3>1. text'[e] = text[e] /\ StampOf(e)' = StampOf(e) BY <1>a, <2>2 DEF StampOf
        <3> QED BY <1>d, <3>1 DEF Vouches
    <2> QED BY <2>1, <2>2
<1>e. \A e \in Files : manifest[e].mtime <= mtime[e] /\ cachedManifest[e].mtime <= mtime[e]
    BY DEF TimeInv
<1>f. manifest \in Manifests /\ cachedManifest \in Manifests /\ graph \in Graphs BY DEF TypeOK
<1>1. WalkInv' BY <1>c DEF WalkInv
<1>2. StatInv' BY <1>0, <1>c DEF StatInv
<1>3. TimeInv'
    <2> SUFFICES ASSUME NEW e \in Files
                 PROVE  mtime'[e] <= clock /\ manifest[e].mtime <= mtime'[e]
                        /\ cachedManifest[e].mtime <= mtime'[e]
        BY <1>0, <1>c DEF TimeInv
    <2>1. manifest[f].mtime \in Int /\ cachedManifest[f].mtime \in Int
        BY <1>f, SymbolGraphAssumption DEF Manifests, Stamps, SymbolGraphAssumption
    <2>2. CASE e = f BY <1>a, <1>e, <2>1, <2>2
    <2>3. CASE e # f BY <1>a, <2>3 DEF TimeInv
    <2> QED BY <2>2, <2>3
<1>4. SlotInv'
    <2>1. pc # "read" => \A e \in Files \ missed' :
            /\ e \in cachedGraph.modules <=> cachedManifest[e] # NoStamp
            /\ Vouches(cachedGraph, cachedManifest[e], e)'
        <3> SUFFICES ASSUME pc # "read", NEW e \in Files \ missed'
                     PROVE  /\ e \in cachedGraph.modules <=> cachedManifest[e] # NoStamp
                            /\ Vouches(cachedGraph, cachedManifest[e], e)'
            OBVIOUS
        <3>1. Vouches(cachedGraph, cachedManifest[e], e)
              /\ (e \in cachedGraph.modules <=> cachedManifest[e] # NoStamp)
            BY <1>b DEF SlotInv
        <3>2. (text'[e] # Gone /\ StampOf(e)' = cachedManifest[e]) =>
                /\ Tried(grammars, SourceOf[text'[e]])
                /\ SymbolsOf(cachedGraph, e) = extractSignatures(grammars, SourceOf[text'[e]])
            BY <1>d, <1>e, <1>f, <3>1
        <3> QED BY <1>0, <1>c, <3>1, <3>2 DEF Vouches
    <2> QED BY <1>c, <2>1 DEF SlotInv
<1>5. SeenInv' BY <1>0, <1>b, <1>c DEF SeenInv, SymbolsNow
<1>6. BuildInv'
    <2>1. pc = "read" => \A e \in graph.modules \ missed' : Vouches(graph, manifest[e], e)'
        <3> SUFFICES ASSUME pc = "read", NEW e \in graph.modules \ missed'
                     PROVE  Vouches(graph, manifest[e], e)'
            OBVIOUS
        <3>1. Vouches(graph, manifest[e], e) /\ e \in Files BY <1>b, <1>f DEF BuildInv, Graphs
        <3>2. (text'[e] # Gone /\ StampOf(e)' = manifest[e]) =>
                /\ Tried(grammars, SourceOf[text'[e]])
                /\ SymbolsOf(graph, e) = extractSignatures(grammars, SourceOf[text'[e]])
            BY <1>d, <1>e, <1>f, <3>1
        <3> QED BY <1>0, <1>c, <3>1, <3>2 DEF Vouches
    <2> QED BY <1>b, <1>c, <2>1 DEF BuildInv
<1> QED BY <1>1, <1>2, <1>3, <1>4, <1>5, <1>6

LEMMA DeleteStep == ASSUME IInv, TypeOK', NEW f \in Files, Delete(f) PROVE IInv'
<1> USE DEF IInv
<1>0. /\ text' = [text EXCEPT ![f] = Gone]
      /\ UNCHANGED <<mtime, clock, grammars, slot, handler, seen, missed>>
    BY DEF Delete
<1>a. \A e \in Files : text'[e] = Gone \/ text'[e] = text[e] BY <1>0 DEF TypeOK
<1>c. /\ pc' = pc /\ root' = root /\ walked' = walked /\ files' = files /\ manifest' = manifest
      /\ graph' = graph /\ cachedManifest' = cachedManifest /\ cachedGraph' = cachedGraph
      /\ Found' = Found
    BY <1>0 DEF slot, handler, Found
<1>d. ASSUME NEW g, NEW man, NEW e \in Files, Vouches(g, man[e], e)
      PROVE  (text'[e] # Gone /\ StampOf(e)' = man[e]) =>
                /\ Tried(grammars, SourceOf[text'[e]])
                /\ SymbolsOf(g, e) = extractSignatures(grammars, SourceOf[text'[e]])
    BY <1>0, <1>a, <1>d DEF Vouches, StampOf
<1>1. WalkInv' BY <1>c DEF WalkInv
<1>2. StatInv' BY <1>0, <1>c DEF StatInv
<1>3. TimeInv' BY <1>0, <1>c DEF TimeInv
<1>4. SlotInv'
    <2>1. pc # "read" => \A e \in Files \ missed : Vouches(cachedGraph, cachedManifest[e], e)'
        <3> SUFFICES ASSUME pc # "read", NEW e \in Files \ missed
                     PROVE  Vouches(cachedGraph, cachedManifest[e], e)'
            OBVIOUS
        <3>1. Vouches(cachedGraph, cachedManifest[e], e) BY DEF SlotInv
        <3>2. (text'[e] # Gone /\ StampOf(e)' = cachedManifest[e]) =>
                /\ Tried(grammars, SourceOf[text'[e]])
                /\ SymbolsOf(cachedGraph, e) = extractSignatures(grammars, SourceOf[text'[e]])
            BY <1>d, <3>1
        <3> QED BY <1>0, <1>c, <3>2 DEF Vouches
    <2> QED BY <1>0, <1>c, <2>1 DEF SlotInv
<1>5. SeenInv' BY <1>0, <1>c DEF SeenInv, SymbolsNow
<1>6. BuildInv'
    <2>1. pc = "read" => \A e \in graph.modules \ missed : Vouches(graph, manifest[e], e)'
        <3> SUFFICES ASSUME pc = "read", NEW e \in graph.modules \ missed
                     PROVE  Vouches(graph, manifest[e], e)'
            OBVIOUS
        <3>1. Vouches(graph, manifest[e], e) /\ e \in Files BY DEF BuildInv, Graphs, TypeOK
        <3>2. (text'[e] # Gone /\ StampOf(e)' = manifest[e]) =>
                /\ Tried(grammars, SourceOf[text'[e]])
                /\ SymbolsOf(graph, e) = extractSignatures(grammars, SourceOf[text'[e]])
            BY <1>d, <3>1
        <3> QED BY <1>0, <1>c, <3>2 DEF Vouches
    <2> QED BY <1>0, <1>c, <2>1 DEF BuildInv
<1> QED BY <1>1, <1>2, <1>3, <1>4, <1>5, <1>6

\* A change of no variable the invariant mentions, but the clock.
LEMMA ClockStep ==
    ASSUME IInv, TypeOK', clock <= clock', UNCHANGED <<text, mtime, grammars, slot, handler, seen, missed>>
    PROVE  IInv'
<1> USE DEF IInv
<1>0. /\ pc' = pc /\ root' = root /\ walked' = walked /\ files' = files /\ manifest' = manifest
      /\ graph' = graph /\ cachedManifest' = cachedManifest /\ cachedGraph' = cachedGraph
      /\ Found' = Found
    BY DEF slot, handler, Found
<1>1. WalkInv' BY <1>0 DEF WalkInv
<1>2. StatInv' BY <1>0 DEF StatInv
<1>3. TimeInv' BY <1>0, SymbolGraphAssumption DEF TimeInv, TypeOK, SymbolGraphAssumption
<1>4. SlotInv'
    <2>1. \A e \in Files : Vouches(cachedGraph, cachedManifest[e], e)
                            => Vouches(cachedGraph, cachedManifest[e], e)'
        BY <1>0 DEF Vouches, StampOf
    <2> QED BY <1>0, <2>1 DEF SlotInv
<1>5. SeenInv' BY <1>0 DEF SeenInv, SymbolsNow
<1>6. BuildInv'
    <2>1. \A e : Vouches(graph, manifest[e], e) => Vouches(graph, manifest[e], e)'
        BY <1>0 DEF Vouches, StampOf
    <2> QED BY <1>0, <2>1 DEF BuildInv
<1> QED BY <1>1, <1>2, <1>3, <1>4, <1>5, <1>6

LEMMA NextIInv == IInv /\ [Next]_vars => IInv'
<1> SUFFICES ASSUME IInv, [Next]_vars PROVE IInv' OBVIOUS
<1>0. TypeOK /\ TypeOK' BY NextType DEF IInv
<1>1. CASE UNCHANGED vars
    <2>1. clock <= clock'
        BY <1>0, <1>1, SymbolGraphAssumption DEF vars, disk, TypeOK, SymbolGraphAssumption
    <2> QED BY <1>0, <1>1, <2>1, ClockStep DEF vars, disk
<1>2. CASE Handle
    BY <1>0, <1>2, RequestStep, DiscoverStep, WalkEndsStep, StatStep, HitStep, MissStep,
       ReadFailsStep, ReadFileStep, KeepStep DEF Handle
<1>3. ASSUME NEW f \in Files, NEW t \in Texts, Write(f, t) \/ WriteKeepingTime(f, t) PROVE IInv'
    <2>1. clock \in 1..MaxClock /\ mtime[f] \in 1..MaxClock BY <1>0 DEF TypeOK
    <2>2. CASE Write(f, t) BY <1>0, <2>1, <2>2, WritesStep DEF Write
    <2>3. CASE WriteKeepingTime(f, t) BY <1>0, <2>1, <2>3, WritesStep DEF WriteKeepingTime
    <2> QED BY <1>3, <2>2, <2>3
<1>4. ASSUME NEW f \in Files, Delete(f) PROVE IInv' BY <1>0, <1>4, DeleteStep
<1>5. CASE Tick
    <2>1. clock <= clock' BY <1>0, <1>5, SymbolGraphAssumption DEF Tick, TypeOK, SymbolGraphAssumption
    <2> QED BY <1>0, <1>5, <2>1, ClockStep DEF Tick
<1> QED BY <1>1, <1>2, <1>3, <1>4, <1>5 DEF Next, Edit

-----------------------------------------------------------------------------
(* What the kept graph is good for. *)

LEMMA IInvCurrent == IInv => HitIsCurrentUnlessMissed
<1> SUFFICES ASSUME IInv, pc = "hit"
             PROVE  /\ cachedGraph.modules \ missed = Present \ missed
                    /\ \A f \in Present \ missed : SymbolsOf(cachedGraph, f) = SymbolsNow(f)
                    /\ missed = {} => cachedGraph.imports =
                          UNION {ImportEdges(f, SymbolsNow(f), Present) : f \in Present}
    BY DEF HitIsCurrentUnlessMissed
<1> USE DEF IInv
<1>1. manifest = cachedManifest BY DEF BuildInv
<1>2. \A f \in Files : f \in Present <=> manifest[f] # NoStamp
    BY DEF StatInv, Present, Found
<1>3. Present \subseteq Files /\ cachedGraph.modules \subseteq Files
    BY DEF Present, Found, TypeOK, Graphs
<1>4. \A f \in Files \ missed : f \in cachedGraph.modules <=> f \in Present
    BY <1>1, <1>2 DEF SlotInv
<1>5. cachedGraph.modules \ missed = Present \ missed BY <1>3, <1>4
<1>6. \A f \in Present \ missed : SymbolsOf(cachedGraph, f) = SymbolsNow(f)
    BY <1>1, <1>2, <1>3 DEF SeenInv
<1>7. ASSUME missed = {}
      PROVE  cachedGraph.imports = UNION {ImportEdges(f, SymbolsNow(f), Present) : f \in Present}
    <2>1. cachedGraph.modules = Present BY <1>5, <1>7
    <2>2. \A f \in Present : ImportEdges(f, SymbolsOf(cachedGraph, f), Present)
                              = ImportEdges(f, SymbolsNow(f), Present)
        BY <1>6, <1>7
    <2> QED BY <2>1, <2>2 DEF SlotInv, Edges
<1> QED BY <1>5, <1>6, <1>7

\* A request that is answered from the kept graph is answered from a graph of
\* the files as this request saw them, but for the files no manifest can vouch for.
THEOREM HitCurrent == Spec => []HitIsCurrentUnlessMissed
<1>1. IInv /\ [Next]_vars => IInv' BY NextIInv
<1> QED BY <1>1, InitIInv, IInvCurrent, PTL DEF Spec
=============================================================================
