----------------------------- MODULE ProjectRoot -----------------------------
(***************************************************************************)
(* lib/pathGuard.ts, lib/projectRoot.ts, lib/cacheScope.ts: the directory  *)
(* a call is about.  There is one trusted directory; a call may name one   *)
(* below it.  Reports of graphify are looked for from there upwards, rows  *)
(* of the cache are told by it.  A path is the sequence of its names.      *)
(***************************************************************************)
EXTENDS Integers, Sequences, FiniteSets, SequencesExt

CONSTANTS
    AllowedRoot,    \* GATE_PROJECT_ROOT, or the directory the server started in
    RealPath,       \* what may be asked for -> where it leads
    SensitivePaths, \* always denied
    AnyPath,        \* GATE_ALLOW_ANY_PATH=1
    Override,       \* GATE_GRAPHIFY_REPORT: a directory with a report, or NoDir
    MaxWalk,        \* MAX_WALK (14)
    NoDir           \* no directory: none asked for, none found

\* A path: the names from the root of the disk on.
Paths == Seq(STRING)

ASSUME RootAssumption ==
    /\ AllowedRoot \in Paths
    /\ \A d \in DOMAIN RealPath : RealPath[d] \in Paths
    /\ NoDir \notin DOMAIN RealPath

\* Mutant of isPathWithin: one component less is compared.
ParentIsWithin(boundary, candidate) ==
    IsPrefix(SubSeq(boundary, 1, Len(boundary) - 1), candidate)

\* By components: /a/bc is not within /a/b.
isPathWithin(boundary, candidate) == IsPrefix(boundary, candidate)

canonicalExistingDirectory(requested) == RealPath[requested]

\* Nothing asked for is the trusted directory itself; {} is a refusal.
resolveProjectRoot(requested) ==
    LET candidate == IF requested = NoDir THEN AllowedRoot
                     ELSE canonicalExistingDirectory(requested)
    IN  {d \in {candidate} : /\ d \notin SensitivePaths
                             /\ AnyPath \/ isPathWithin(AllowedRoot, d)}

\* Where findGraphifyReport looks, from root upwards.
Walk(root) ==
    {d \in {SubSeq(root, 1, n) : n \in 0..Len(root)} :
        isPathWithin(AllowedRoot, d) /\ Len(root) - Len(d) < MaxWalk}

\* reports: the directories that have one now.
findGraphifyReport(root, reports) ==
    IF Override \in reports THEN Override
    ELSE LET there == Walk(root) \intersect reports
         IN  IF there = {} THEN NoDir
             ELSE CHOOSE d \in there : \A e \in there : Len(e) <= Len(d)

-----------------------------------------------------------------------------
(* Rows of the cache: [path, identity], one for each view of a file.       *)

InScope(rows, scope) == {r \in rows : isPathWithin(scope, r.path)}

\* What is told of a scope: its rows.
getScopedStats(rows, scope) == IF scope = AllowedRoot THEN rows ELSE InScope(rows, scope)

\* Everything at once; or path by path, the number being that of paths.
clearScoped(rows, scope) ==
    IF scope = AllowedRoot THEN [left |-> {}, removed |-> Cardinality(rows)]
    ELSE LET gone == InScope(rows, scope)
         IN  [left |-> rows \ gone, removed |-> Cardinality({r.path : r \in gone})]
==============================================================================
