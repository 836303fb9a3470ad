---------------------------- MODULE GatewayProofs ----------------------------
(***************************************************************************)
(* Proofs about Gateway, for all values of its constants: types, and what  *)
(* is promised of every answer.  Induction over a number is by its least   *)
(* counterexample (NatMinimum).                                            *)
(***************************************************************************)
EXTENDS Gateway, FiniteSetTheorems, SequenceTheorems, WellFoundedInduction, TLAPS

\* Sets of naturals have a least member: what induction rests on below.
LEMMA NatMinimum ==
    ASSUME NEW T \in SUBSET Nat, T # {}
    PROVE  \E m \in T : \A k \in T : m <= k
<1> DEFINE R == {ss \in Nat \X Nat : ss[1] < ss[2]}
<1>1. IsWellFoundedOn(R, Nat)
  <2>1. R = OpToRel(<, Nat)
    BY DEF OpToRel
  <2> QED
    BY <2>1, NatLessThanWellFounded
<1>2. PICK m \in T : \A k \in T : <<k, m>> \notin R
  <2> HIDE DEF R
  <2> QED
    BY <1>1, WFMin
<1>3. \A k \in T : m <= k
  <2> TAKE k \in T
  <2>1. k \in Nat /\ m \in Nat
    OBVIOUS
  <2>2. ~(k < m)
    BY <1>2, <2>1
  <2> QED
    BY <2>1, <2>2
<1> QED
  BY <1>3

\* f is what a base and a step define by recursion.
Recurs(f, N, base, step) ==
    \A n \in 0..N : f[n] = IF n = 0 THEN base ELSE step[<<n, f[n - 1]>>]

\* A function defined by recursion on 0..N exists.
LEMMA RecursionExists ==
    ASSUME NEW N \in Nat, NEW S, NEW base \in S, NEW step \in [(1..N) \X S -> S]
    PROVE  \E f \in [0..N -> S] : Recurs(f, N, base, step)
<1> DEFINE Upto(m) == \E f \in [0..m -> S] :
               \A n \in 0..m : f[n] = IF n = 0 THEN base ELSE step[<<n, f[n - 1]>>]
           Not == {m \in 0..N : ~Upto(m)}
<1>1. SUFFICES ASSUME Not # {}
               PROVE  FALSE
  BY DEF Recurs
<1>2. PICK m \in Not : \A k \in Not : m <= k
  <2>1. Not \in SUBSET Nat
    OBVIOUS
  <2> HIDE DEF Not
  <2> QED
    BY <1>1, <2>1, NatMinimum
<1>3. m \in 0..N /\ ~Upto(m)
  OBVIOUS
<1>4. CASE m = 0
  <2> DEFINE f == [n \in 0..0 |-> base]
  <2>1. f \in [0..0 -> S] /\ f[0] = base
    OBVIOUS
  <2> HIDE DEF f
  <2> QED
    BY <1>3, <1>4, <2>1
<1>5. CASE m # 0
  <2>1. m - 1 \in 0..N /\ m - 1 \notin Not
    BY <1>2, <1>3, <1>5
  <2>2. Upto(m - 1)
    BY <2>1
  <2>3. PICK g \in [0..(m - 1) -> S] :
            \A n \in 0..(m - 1) : g[n] = IF n = 0 THEN base ELSE step[<<n, g[n - 1]>>]
    BY <2>2
  <2> DEFINE f == [n \in 0..m |-> IF n = m THEN step[<<m, g[m - 1]>>] ELSE g[n]]
  <2>4. f \in [0..m -> S]
    BY <1>3, <1>5
  <2>5. ASSUME NEW n \in 0..m
        PROVE  f[n] = IF n = 0 THEN base ELSE step[<<n, f[n - 1]>>]
    <3>1. CASE n = m
      <4>1. m - 1 \in 0..m /\ m - 1 # m /\ m # 0
        BY <1>3, <1>5
      <4>2. f[m - 1] = g[m - 1]
        BY <4>1
      <4>3. f[m] = step[<<m, g[m - 1]>>]
        BY <3>1
      <4> HIDE DEF f
      <4> QED
        BY <3>1, <4>1, <4>2, <4>3
    <3>2. CASE n # m
      <4>1. n \in 0..(m - 1)
        BY <3>2, <1>3
      <4>2. g[n] = IF n = 0 THEN base ELSE step[<<n, g[n - 1]>>]
        BY <2>3, <4>1
      <4>3. n # 0 => f[n - 1] = g[n - 1]
        BY <4>1, <1>3
      <4> QED
        BY <4>1, <4>2, <4>3, <3>2
    <3> QED
      BY <3>1, <3>2
  <2> HIDE DEF f
  <2>6. Upto(m)
    BY <2>4, <2>5
  <2> QED
    BY <1>3, <2>6
<1> QED
  BY <1>4, <1>5

\* The image of a finite set is finite.
LEMMA ImageIsFinite ==
    ASSUME NEW S, IsFiniteSet(S), NEW f
    PROVE  IsFiniteSet({f[x] : x \in S}) /\ Cardinality({f[x] : x \in S}) <= Cardinality(S)
<1> DEFINE T == {f[x] : x \in S}
           g == [x \in S |-> f[x]]
<1>1. g \in Surjection(S, T)
  BY DEF Surjection
<1> HIDE DEF g, T
<1>2. IsFiniteSet(T) /\ Cardinality(T) <= Cardinality(S)
  BY <1>1, FS_Surjection
<1> QED
  BY <1>2 DEF T

-----------------------------------------------------------------------------
(* The directory a call is about. *)

\* By components: a path is within another if it starts with its names.
LEMMA WithinIsBelow ==
    ASSUME NEW scope \in Paths, NEW p \in Paths
    PROVE  isPathWithin(scope, p) <=> Below(scope, p)
  BY DEF isPathWithin, IsPrefix, Below, Paths

\* A report is looked for from the directory upwards, and is one there is.
LEMMA ReportFound ==
    ASSUME NEW dir \in Paths, NEW there \in SUBSET ReportDirs
    PROVE  findGraphifyReport(dir, there) \in ReportDirs \union {NoDir}
<1>1. CASE Override \in there
  BY <1>1 DEF findGraphifyReport
<1>2. CASE Override \notin there /\ Walk(dir) \intersect there = {}
  BY <1>2 DEF findGraphifyReport
<1>3. CASE Override \notin there /\ Walk(dir) \intersect there # {}
  <2> DEFINE D == Walk(dir) \intersect there
             lengths == {Len(d) : d \in D}
             short == {Len(dir) - l : l \in lengths}
  <2>1. \A d \in D : Len(d) \in 0..Len(dir)
    BY DEF Walk, Paths
  <2>2. short \in SUBSET Nat /\ short # {}
    <3>1. Len(dir) \in Nat
      BY DEF Paths
    <3>2. \A d \in D : Len(dir) - Len(d) \in Nat
      BY <2>1, <3>1
    <3> QED
      BY <3>2, <1>3
  <2>3. PICK m \in short : \A k \in short : m <= k
    <3> HIDE DEF short
    <3> QED
      BY <2>2, NatMinimum
  <2>4. PICK d \in D : m = Len(dir) - Len(d)
    BY <2>3
  <2>5. \A e \in D : Len(e) <= Len(d)
    <3> TAKE e \in D
    <3>1. m <= Len(dir) - Len(e)
      BY <2>3
    <3> QED
      BY <2>1, <2>4, <3>1 DEF Paths
  <2> HIDE DEF D
  <2>6. (CHOOSE x \in D : \A e \in D : Len(e) <= Len(x)) \in D
    BY <2>4, <2>5
  <2> USE DEF D
  <2>7. findGraphifyReport(dir, there) = CHOOSE x \in D : \A e \in D : Len(e) <= Len(x)
    BY <1>3 DEF findGraphifyReport
  <2> QED
    BY <2>6, <2>7
<1> QED
  BY <1>1, <1>2, <1>3

\* Nothing but paths is resolved to.
LEMMA RootResolved ==
    ASSUME NEW requested \in DOMAIN RealPath \union {NoDir}, NEW d \in resolveProjectRoot(requested)
    PROVE  /\ d \in Paths
           /\ d \in {NoDir, AllowedRoot} \union {RealPath[e] : e \in DOMAIN RealPath}
  BY RootAssumption DEF resolveProjectRoot, canonicalExistingDirectory

\* Totals and clears keep to the rows below their scope, if what the cache holds
\* is below the trusted directory.
LEMMA ScopeIsKept ==
    ASSUME NEW rows \in SUBSET PossibleRows, NEW scope \in Paths, ~AnyPath
    PROVE  LET mine == {r \in rows : Below(scope, r.path)}
           IN  /\ getScopedStats(rows, scope) = mine
               /\ clearScoped(rows, scope).left = rows \ mine
               /\ clearScoped(rows, scope).removed =
                      IF scope = AllowedRoot THEN Cardinality(mine)
                      ELSE Cardinality({r.path : r \in mine})
<1> DEFINE mine == {r \in rows : Below(scope, r.path)}
<1>1. \A r \in rows : r.path \in Paths /\ isPathWithin(AllowedRoot, r.path)
  BY GatewayAssumption
<1>2. InScope(rows, scope) = mine
  BY <1>1, WithinIsBelow DEF InScope
<1>3. scope = AllowedRoot => mine = rows
  BY <1>1, WithinIsBelow, RootAssumption
<1> QED
  BY <1>2, <1>3 DEF getScopedStats, clearScoped

-----------------------------------------------------------------------------
(* The score of a compressed view. *)

\* A source has finitely many names that can be read.
LEMMA ReadNamesAreFinite ==
    ASSUME NEW sig, IsFiniteSet(sig.exports), IsFiniteSet(sig.functions), IsFiniteSet(sig.classes)
    PROVE  IsFiniteSet(canonicalExportNames(sig))
<1> DEFINE all == sig.exports \union sig.functions \union sig.classes
           name == [e \in all |-> e.name]
           words == {"abstract", "exports", "module", "export"}
<1>1. IsFiniteSet(all)
  BY FS_Union
<1>2. IsFiniteSet({name[e] : e \in all})
  <2> HIDE DEF all, name
  <2> QED
    BY <1>1, ImageIsFinite
<1>3. IsFiniteSet(words)
  <2>1. IsFiniteSet({"abstract"} \union {"exports"})
    BY FS_Singleton, FS_AddElement
  <2>2. IsFiniteSet(({"abstract"} \union {"exports"}) \union {"module"})
    BY <2>1, FS_AddElement
  <2>3. IsFiniteSet((({"abstract"} \union {"exports"}) \union {"module"}) \union {"export"})
    BY <2>2, FS_AddElement
  <2>4. words = (({"abstract"} \union {"exports"}) \union {"module"}) \union {"export"}
    OBVIOUS
  <2> QED
    BY <2>3, <2>4
<1>4. IsFiniteSet({name[e] : e \in all} \union words)
  <2> HIDE DEF all, name, words
  <2> QED
    BY <1>2, <1>3, FS_Union
<1>5. canonicalExportNames(sig) \subseteq {name[e] : e \in all} \union words
  <2>1. \A e \in all : e.name \in {name[x] : x \in all}
    OBVIOUS
  <2> HIDE DEF name
  <2> QED
    BY <2>1 DEF canonicalExportNames
<1> QED
  <2> HIDE DEF all, name, words
  <2> QED
    BY <1>4, <1>5, FS_Subset

\* The names the questions are about are finitely many, as nodes and lines are.
LEMMA GroundTruthIsFinite ==
    ASSUME NEW source \in Sources, NEW native \in BOOLEAN
    PROVE  /\ IsFiniteSet(buildGroundTruth(source, native))
           /\ Cardinality(buildGroundTruth(source, native)) \in Nat
<1>1. IsFiniteSet(source.nodes) /\ IsFiniteSet(source.lines)
  BY GatewayAssumption
<1> DEFINE tree == traverseNode(source.lang, source.nodes)
           text == extractSignaturesRegex(source.lang, source.lines)
<1>2. \A list \in Lists : IsFiniteSet(tree[list])
  <2> TAKE list \in Lists
  <2> DEFINE N == {m \in source.nodes : m.fits /\ m.type \in CollectorOf(source.lang)[list]}
             f == [n \in N |-> Entry(source.lang, list, n)]
  <2>1. IsFiniteSet(N)
    BY <1>1, FS_Subset
  <2>2. IsFiniteSet({f[n] : n \in N})
    <3> HIDE DEF N, f
    <3> QED
      BY <2>1, ImageIsFinite
  <2>3. tree[list] = {f[n] : n \in N}
    BY DEF traverseNode
  <2> QED
    BY <2>2, <2>3
<1>3. \A list \in Lists : IsFiniteSet(text[list])
  <2> TAKE list \in Lists
  <2> DEFINE N == {m \in source.lines : m.form \in LineStartsOf(source.lang, list)}
             f == [l \in N |-> [keyword |-> l.form, name |-> l.name]]
  <2>1. IsFiniteSet(N)
    BY <1>1, FS_Subset
  <2>2. IsFiniteSet({f[n] : n \in N})
    <3> HIDE DEF N, f
    <3> QED
      BY <2>1, ImageIsFinite
  <2>3. text[list] = {f[n] : n \in N}
    BY DEF extractSignaturesRegex
  <2> QED
    BY <2>2, <2>3
<1> DEFINE whole == augmentWithCjsExports(source.lang, tree, source.lines)
<1>4. \A list \in Lists : IsFiniteSet(whole[list])
  <2> DEFINE Named == {l \in source.lines : l.form \in {"exports.", "module.exports."}}
             Bare == {l \in source.lines : l.form \in {"module.exports"}}
             f == [l \in Named |-> [keyword |-> "exports.", name |-> l.name]]
             g == [l \in Bare |-> [keyword |-> "module.exports", name |-> l.name]]
             some == tree["exports"] \union {f[l] : l \in Named} \union {g[l] : l \in Bare}
  <2>1. IsFiniteSet(Named) /\ IsFiniteSet(Bare)
    BY <1>1, FS_Subset
  <2>2. IsFiniteSet({f[l] : l \in Named}) /\ IsFiniteSet({g[l] : l \in Bare})
    <3> HIDE DEF Named, Bare, f, g
    <3> QED
      BY <2>1, ImageIsFinite
  <2>3. "exports" \in Lists
    BY DEF Lists
  <2>4. IsFiniteSet(some)
    <3> HIDE DEF Named, Bare, f, g, tree
    <3> QED
      BY <1>2, <2>2, <2>3, FS_Union
  <2>5. whole = tree \/ whole = [tree EXCEPT !.exports = some]
    BY DEF augmentWithCjsExports
  <2>6. DOMAIN tree = Lists
    BY DEF traverseNode
  <2> HIDE DEF tree, whole, some
  <2> QED
    BY <1>2, <2>3, <2>4, <2>5, <2>6
<1>5. \A sig \in {whole, text} : IsFiniteSet(canonicalExportNames(sig))
  <2> HIDE DEF whole, text
  <2>1. {"exports", "functions", "classes"} \subseteq Lists
    BY DEF Lists
  <2> QED
    BY <1>3, <1>4, <2>1, ReadNamesAreFinite
<1>6. IsFiniteSet(buildGroundTruth(source, native))
  <2>1. buildGroundTruth(source, native) \in {canonicalExportNames(whole), canonicalExportNames(text)}
    BY DEF buildGroundTruth
  <2> HIDE DEF whole, text
  <2> QED
    BY <1>5, <2>1
<1> QED
  BY <1>6, FS_CardinalityType

\* Rounding to the nearest is at least c when the fraction is at least c - 1/2.
LEMMA RoundedAtLeast ==
    ASSUME NEW num \in Nat, NEW m \in Nat \ {0}, NEW c \in Nat
    PROVE  /\ Rounded(num, 12 * m) \in Int
           /\ Rounded(num, 12 * m) >= c <=> 2 * num + 12 * m >= c * (24 * m)
<1> DEFINE a == 2 * num + 12 * m
           b == 24 * m
           q == a \div b
<1>1. a \in Nat /\ b \in Nat \ {0} /\ 2 * (12 * m) = b
  OBVIOUS
<1>2. q \in Int /\ b * q <= a /\ a < b * q + b
  <2> HIDE DEF a, b
  <2> QED
    BY <1>1
<1>3. Rounded(num, 12 * m) = q
  BY <1>1 DEF Rounded
<1>4. q >= c => b * q >= b * c
  <2> HIDE DEF a, b, q
  <2> QED
    BY <1>1, <1>2, SMTT(30)
<1>5. ~(q >= c) => b * q + b <= b * c
  <2> HIDE DEF a, b, q
  <2>1. ASSUME ~(q >= c) PROVE b * (q + 1) <= b * c
    BY <2>1, <1>1, <1>2, SMTT(30)
  <2>2. b * (q + 1) = b * q + b
    BY <1>1, <1>2, SMTT(30)
  <2> QED
    BY <2>1, <2>2
<1>6. b * c = c * b
  <2> HIDE DEF a, b, q
  <2> QED
    BY <1>1
<1>7. q >= c <=> a >= c * b
  <2> HIDE DEF a, b, q
  <2>1. b * q \in Int /\ b * c \in Int
    BY <1>1, <1>2
  <2> QED
    BY <1>1, <1>2, <1>4, <1>5, <1>6, <2>1
<1> QED
  BY <1>2, <1>3, <1>7

\* An answer as its scorer reads it.
LEMMA AnswerRead ==
    ASSUME NEW n \in Nat, NEW said,
           \A i \in Prompts : said[i] \in Answers(Scorers[i], n)
    PROVE  /\ said[1].named \in 0..n
           /\ \A i \in {2, 3, 4} : said[i].named \in Nat /\ said[i].named <= n
           /\ said[2].imports \in BOOLEAN
<1>1. Prompts = 1..4
  BY DEF Prompts, Scorers
<1>2. /\ said[1] \in Answers("recall", n) /\ said[2] \in Answers("usage", n)
      /\ said[3] \in Answers("specificity", n) /\ said[4] \in Answers("specificity", n)
  BY <1>1 DEF Scorers
<1>3. said[1].named \in 0..n
  BY <1>2 DEF Answers
<1>4. /\ said[2].named \in 0..Least(n, 4) /\ said[2].imports \in BOOLEAN
      /\ said[3].named \in 0..Least(n, 4) /\ said[4].named \in 0..Least(n, 4)
  BY <1>2 DEF Answers
<1>5. Least(n, 4) \in Nat /\ Least(n, 4) <= n
  BY DEF Least
<1>6. \A k \in 0..Least(n, 4) : k \in Nat /\ k <= n
  <2> TAKE k \in 0..Least(n, 4)
  <2> QED
    BY <1>5
<1> QED
  BY <1>3, <1>4, <1>6

\* What it takes to reach a limit of the verdicts, in parts of 12m: recall r of
\* m, usage u of 6, specificity s of 4.
LEMMA PartsNeeded ==
    ASSUME NEW m \in Nat \ {0}, NEW r \in 0..m, NEW u \in 0..6, NEW s \in 0..4,
           NEW num, num = 40 * 12 * r + 35 * 2 * m * u + 25 * 3 * m * s
    PROVE  /\ num \in Nat
           /\ num >= 1074 * m => u >= 5 /\ s >= 3 /\ 480 * r >= 354 * m
           /\ num >= 894 * m => 480 * r >= 174 * m
           /\ u <= 2 /\ s <= 2 => num < 894 * m
           /\ r = m => /\ num >= 480 * m
                       /\ u >= 2 /\ s >= 2 => num >= 770 * m
                       /\ u >= 4 /\ s = 4 => num >= 1060 * m
                       /\ u = 6 /\ s = 4 => num >= 1200 * m
<1> DEFINE mu == m * u
           ms == m * s
<1>1. /\ mu \in Nat /\ mu <= 6 * m /\ (u <= 4 => mu <= 4 * m) /\ (u <= 2 => mu <= 2 * m)
      /\ (u >= 2 => mu >= 2 * m) /\ (u >= 4 => mu >= 4 * m) /\ (u = 6 => mu = 6 * m)
  <2>1. u \in {0, 1, 2, 3, 4, 5, 6}
    OBVIOUS
  <2> QED
    BY <2>1
<1>2. /\ ms \in Nat /\ ms <= 4 * m /\ (s <= 2 => ms <= 2 * m)
      /\ (s >= 2 => ms >= 2 * m) /\ (s = 4 => ms = 4 * m)
  <2>1. s \in {0, 1, 2, 3, 4}
    OBVIOUS
  <2> QED
    BY <2>1
<1>3. num = 480 * r + 70 * mu + 75 * ms
  <2>1. 35 * 2 * m * u = 70 * mu
    BY SMTT(30)
  <2>2. 25 * 3 * m * s = 75 * ms
    BY SMTT(30)
  <2> QED
    BY <2>1, <2>2
<1> HIDE DEF mu, ms
<1> QED
  BY <1>1, <1>2, <1>3

\* The verdict of a score: excellent from 90 on, good from 75 on.
LEMMA VerdictOf ==
    ASSUME NEW a \in Int
    PROVE  /\ Verdict(a) = "excellent" <=> a >= 90
           /\ Verdict(a) \in {"good", "excellent"} <=> a >= 75
           /\ a = 40 => Verdict(a) = "lossy"
  BY DEF Verdict

\* The parts of a score, read from the answers.
LEMMA UsagePart ==
    ASSUME NEW n \in Nat, NEW answer, answer.named \in Nat, answer.named <= n,
           NEW u, u = scoreUsageCode(answer, n)
    PROVE  /\ u \in 0..6 /\ (n = 0 => u = 0)
           /\ n > 0 /\ u >= 5 => answer.imports /\ answer.named >= 3
           /\ n = 1 => u <= 2
           /\ n > 0 /\ answer.imports => \A p \in 0..3 : answer.named >= p => u >= 2 * p
<1> DEFINE c == IF answer.imports THEN 2 ELSE 1
           k == answer.named
<1>1. (answer.imports => c = 2) /\ (~answer.imports => c = 1)
  OBVIOUS
<1>2. u = IF n = 0 THEN 0 ELSE c * (IF k < 3 THEN k ELSE 3)
  BY DEF scoreUsageCode, Least
<1>3. k \in Nat /\ k <= n
  OBVIOUS
<1> HIDE DEF c, k
<1>4. c \in {1, 2} /\ (c = 2 => answer.imports)
  BY <1>1
<1>5. /\ u \in 0..6 /\ (n = 0 => u = 0)
      /\ n > 0 /\ u >= 5 => c = 2 /\ k >= 3
      /\ n = 1 => u <= 2
      /\ n > 0 /\ c = 2 => \A p \in 0..3 : k >= p => u >= 2 * p
  <2>1. CASE c = 1
    BY <1>2, <1>3, <2>1
  <2>2. CASE c = 2
    BY <1>2, <1>3, <2>2
  <2> QED
    BY <1>4, <2>1, <2>2
<1> QED
  BY <1>1, <1>4, <1>5 DEF k

\* The weight of the specificity in the score.
LEMMA SpecificityPart ==
    ASSUME NEW n \in Nat, NEW a, NEW b, a.named \in Nat, b.named \in Nat, a.named <= n, b.named <= n,
           NEW s, s = scoreSpecificity(a, n) + scoreSpecificity(b, n)
    PROVE  /\ s \in 0..4 /\ (n = 0 => s = 0)
           /\ n > 0 /\ s >= 3 => a.named >= 1 /\ b.named >= 1
           /\ n = 1 => s <= 2
           /\ n > 0 /\ a.named >= 1 /\ b.named >= 1 => s >= 2
           /\ n > 0 /\ a.named >= 2 /\ b.named >= 2 => s = 4
  BY DEF scoreSpecificity, Least

\* The verdict says of the answers what VerdictIsEarned asks for.
LEMMA VerdictEarned ==
    ASSUME NEW n \in Nat, NEW said,
           \A i \in Prompts : said[i] \in Answers(Scorers[i], n)
    PROVE  LET verdict == Verdict(scoreAnswers(said, n))
           IN  /\ verdict = "excellent" =>
                     /\ n >= 3 /\ said[2].imports /\ said[2].named >= 3
                     /\ 10 * said[1].named >= 7 * n
                     /\ said[3].named >= 1 /\ said[4].named >= 1
               /\ verdict \in {"good", "excellent"} => n >= 2 /\ 3 * said[1].named >= n
               /\ n = 0 => verdict = "lossy"
               /\ n > 0 /\ said[1].named = n /\ said[2].imports =>
                     \A p \in 0..3 : (\A i \in 2..4 : said[i].named >= p) =>
                         scoreAnswers(said, n) >= <<40, 64, 88, 100>>[p + 1]
<1> DEFINE m == IF n = 0 THEN 1 ELSE n
           r == scoreSymbolRecall(said[1], n)
           u == scoreUsageCode(said[2], n)
           s == scoreSpecificity(said[3], n) + scoreSpecificity(said[4], n)
           num == 40 * 12 * r + 35 * 2 * m * u + 25 * 3 * m * s
           score == scoreAnswers(said, n)
<1>1. /\ said[1].named \in 0..n
      /\ said[2].named \in Nat /\ said[2].named <= n
      /\ said[3].named \in Nat /\ said[3].named <= n
      /\ said[4].named \in Nat /\ said[4].named <= n
  BY AnswerRead
<1>2. /\ m \in Nat \ {0} /\ r \in 0..m
      /\ n > 0 => m = n /\ r = said[1].named
      /\ n = 0 => m = 1 /\ r = 1
  BY <1>1 DEF scoreSymbolRecall
<1>3. /\ u \in 0..6 /\ (n = 0 => u = 0)
      /\ n > 0 /\ u >= 5 => said[2].imports /\ said[2].named >= 3
      /\ n = 1 => u <= 2
      /\ n > 0 /\ said[2].imports => \A p \in 0..3 : said[2].named >= p => u >= 2 * p
  <2> HIDE DEF u
  <2>1. u = scoreUsageCode(said[2], n)
    BY DEF u
  <2> QED
    BY <1>1, <2>1, UsagePart
<1>4. /\ s \in 0..4 /\ (n = 0 => s = 0)
      /\ n > 0 /\ s >= 3 => said[3].named >= 1 /\ said[4].named >= 1
      /\ n = 1 => s <= 2
      /\ n > 0 /\ said[3].named >= 1 /\ said[4].named >= 1 => s >= 2
      /\ n > 0 /\ said[3].named >= 2 /\ said[4].named >= 2 => s = 4
  <2> HIDE DEF s
  <2>1. s = scoreSpecificity(said[3], n) + scoreSpecificity(said[4], n)
    BY DEF s
  <2> QED
    BY <1>1, <2>1, SpecificityPart
<1>5. score = Rounded(num, 12 * m)
  BY DEF scoreAnswers, aggregateScores
<1> HIDE DEF m, r, u, s, score
<1>6. /\ num \in Nat
      /\ num >= 1074 * m => u >= 5 /\ s >= 3 /\ 480 * r >= 354 * m
      /\ num >= 894 * m => 480 * r >= 174 * m
      /\ u <= 2 /\ s <= 2 => num < 894 * m
      /\ r = m => /\ num >= 480 * m
                  /\ u >= 2 /\ s >= 2 => num >= 770 * m
                  /\ u >= 4 /\ s = 4 => num >= 1060 * m
                  /\ u = 6 /\ s = 4 => num >= 1200 * m
  <2> HIDE DEF num
  <2>1. num = 40 * 12 * r + 35 * 2 * m * u + 25 * 3 * m * s
    BY DEF num
  <2> QED
    BY <1>2, <1>3, <1>4, <2>1, PartsNeeded
<1>7. n = 0 => num = 480 /\ m = 1
  BY <1>2, <1>3, <1>4
<1> HIDE DEF num
<1>8. /\ score \in Int
      /\ score >= 90 <=> 2 * num + 12 * m >= 90 * (24 * m)
      /\ score >= 75 <=> 2 * num + 12 * m >= 75 * (24 * m)
      /\ score >= 40 <=> 2 * num + 12 * m >= 40 * (24 * m)
      /\ score >= 41 <=> 2 * num + 12 * m >= 41 * (24 * m)
      /\ score >= 64 <=> 2 * num + 12 * m >= 64 * (24 * m)
      /\ score >= 88 <=> 2 * num + 12 * m >= 88 * (24 * m)
      /\ score >= 100 <=> 2 * num + 12 * m >= 100 * (24 * m)
  BY <1>2, <1>5, <1>6, RoundedAtLeast
<1>9. /\ score >= 90 <=> num >= 1074 * m
      /\ score >= 75 <=> num >= 894 * m
  BY <1>2, <1>6, <1>8
<1>10. score >= 75 => n >= 2 /\ 3 * said[1].named >= n
  <2>1. n \in {0, 1} => u <= 2 /\ s <= 2
    BY <1>3, <1>4
  <2>2. score >= 75 => n >= 2
    BY <1>2, <1>6, <1>9, <2>1
  <2>3. n >= 2 => m = n /\ r = said[1].named
    BY <1>2
  <2> QED
    BY <1>1, <1>2, <1>6, <1>9, <2>2, <2>3
<1>11. score >= 90 => /\ n >= 3 /\ said[2].imports /\ said[2].named >= 3
                      /\ 10 * said[1].named >= 7 * n
                      /\ said[3].named >= 1 /\ said[4].named >= 1
  <2> SUFFICES ASSUME score >= 90
               PROVE  /\ n >= 3 /\ said[2].imports /\ said[2].named >= 3
                      /\ 10 * said[1].named >= 7 * n
                      /\ said[3].named >= 1 /\ said[4].named >= 1
    OBVIOUS
  <2>1. n >= 2 /\ u >= 5 /\ s >= 3 /\ 480 * r >= 354 * m
    BY <1>6, <1>8, <1>9, <1>10
  <2>2. m = n /\ r = said[1].named
    BY <1>2, <2>1
  <2>3. said[2].imports /\ said[2].named >= 3 /\ said[3].named >= 1 /\ said[4].named >= 1
    BY <1>3, <1>4, <2>1
  <2>4. n >= 3
    BY <1>1, <2>3
  <2>5. 10 * said[1].named >= 7 * n
    BY <1>1, <2>1, <2>2
  <2> QED
    BY <2>3, <2>4, <2>5
<1>12. n = 0 => score = 40
  BY <1>7, <1>8
<1>13. ASSUME n > 0, said[1].named = n, said[2].imports, NEW p \in 0..3,
              \A i \in 2..4 : said[i].named >= p
       PROVE  score >= <<40, 64, 88, 100>>[p + 1]
  <2>1. m = n /\ r = m /\ u >= 2 * p
    BY <1>2, <1>3, <1>13
  <2>2. (p >= 1 => s >= 2) /\ (p >= 2 => s = 4)
    BY <1>1, <1>4, <1>13
  <2>3. CASE p = 0
    BY <1>2, <1>6, <1>8, <2>1, <2>3
  <2>4. CASE p = 1
    BY <1>2, <1>6, <1>8, <2>1, <2>2, <2>4
  <2>5. CASE p = 2
    BY <1>2, <1>6, <1>8, <2>1, <2>2, <2>5
  <2>6. CASE p = 3
    <3>1. u = 6
      BY <1>3, <2>1, <2>6
    <3> QED
      BY <1>2, <1>6, <1>8, <2>1, <2>2, <2>6, <3>1
  <2> QED
    BY <2>3, <2>4, <2>5, <2>6
<1>14. Verdict(score) = Verdict(scoreAnswers(said, n))
  BY DEF score
<1> QED
  BY <1>8, <1>10, <1>11, <1>12, <1>13, <1>14, VerdictOf DEF score

\* What is found of the mock's three names is three at most, and no more than there are.
LEMMA FirstAreFew ==
    ASSUME NEW names, IsFiniteSet(names), NEW plain \in PlainFirst(names)
    PROVE  plain \in 0..3 /\ plain <= Cardinality(names)
<1>1. PICK first \in SUBSET names : /\ Cardinality(first) = Least(Cardinality(names), 3)
                                    /\ plain = Cardinality(first \ Dollared)
  BY DEF PlainFirst
<1>2. /\ IsFiniteSet(first) /\ IsFiniteSet(first \ Dollared)
      /\ Cardinality(first \ Dollared) <= Cardinality(first)
  BY FS_Subset
<1>3. /\ Cardinality(names) \in Nat /\ Cardinality(first) \in Nat
      /\ Cardinality(first \ Dollared) \in Nat
  BY <1>2, FS_CardinalityType
<1>4. Cardinality(first) <= 3 /\ Cardinality(first) <= Cardinality(names)
  BY <1>1, <1>3 DEF Least
<1> QED
  BY <1>1, <1>2, <1>3, <1>4

\* What the mock gives, by question.
LEMMA MockTexts ==
    ASSUME NEW n, NEW scorer, NEW plain
    PROVE  /\ scorer = "recall" =>
                  /\ MockProvider(FALSE, scorer, n, plain) = [named : n..n, imports : {FALSE}]
                  /\ MockProvider(TRUE, scorer, n, plain) =
                         [named : ((n + 1) \div 2)..n, imports : {FALSE}]
           /\ scorer # "recall" =>
                  /\ MockProvider(FALSE, scorer, n, plain) =
                         [named : plain..Least(n, 4), imports : {scorer = "usage" /\ n > 0}]
                  /\ MockProvider(TRUE, scorer, n, plain) = Answers(scorer, n)
<1>1. CASE scorer = "recall"
  BY <1>1, Zenon DEF MockProvider
<1>2. CASE scorer # "recall"
  BY <1>2, Zenon DEF MockProvider
<1> QED
  BY <1>1, <1>2

\* The mock answers every question.
LEMMA MockAnswers ==
    ASSUME NEW n \in Nat, NEW scorer, NEW plain \in Nat
    PROVE  /\ MockProvider(FALSE, scorer, n, plain) \subseteq Answers(scorer, n)
           /\ MockProvider(TRUE, scorer, n, plain) \subseteq Answers(scorer, n)
<1>1. (n + 1) \div 2 \in Nat /\ Least(n, 4) \in Nat
  BY DEF Least
<1>2. CASE scorer = "recall"
  <2>1. Answers(scorer, n) = [named : 0..n, imports : {FALSE}]
    BY <1>2 DEF Answers
  <2>2. n..n \subseteq 0..n /\ ((n + 1) \div 2)..n \subseteq 0..n
    BY <1>1
  <2> DEFINE all == n..n
             half == ((n + 1) \div 2)..n
             some == 0..n
  <2>3. /\ MockProvider(FALSE, scorer, n, plain) = [named : all, imports : {FALSE}]
        /\ MockProvider(TRUE, scorer, n, plain) = [named : half, imports : {FALSE}]
    <3>1. scorer = "recall" =>
              /\ MockProvider(FALSE, scorer, n, plain) = [named : all, imports : {FALSE}]
              /\ MockProvider(TRUE, scorer, n, plain) = [named : half, imports : {FALSE}]
      BY MockTexts
    <3> HIDE DEF all, half
    <3> QED
      BY <1>2, <3>1
  <2> HIDE DEF all, half, some
  <2>4. /\ [named : all, imports : {FALSE}] \subseteq [named : some, imports : {FALSE}]
        /\ [named : half, imports : {FALSE}] \subseteq [named : some, imports : {FALSE}]
    BY <2>2 DEF all, half, some
  <2> QED
    BY <2>1, <2>3, <2>4, Zenon DEF some
<1>3. CASE scorer # "recall"
  <2> DEFINE may == IF scorer = "usage" THEN BOOLEAN ELSE {FALSE}
             does == scorer = "usage" /\ n > 0
             counts == plain..Least(n, 4)
             most == 0..Least(n, 4)
  <2>1. MockProvider(FALSE, scorer, n, plain) = [named : counts, imports : {does}]
    BY <1>3, Zenon DEF MockProvider
  <2>2. Answers(scorer, n) = [named : most, imports : may]
    BY <1>3, Zenon DEF Answers
  <2>3. counts \subseteq most
    BY <1>1
  <2>4. does \in may
    <3>1. CASE scorer = "usage"
      BY <3>1
    <3>2. CASE scorer # "usage"
      BY <3>2
    <3> QED
      BY <3>1, <3>2
  <2>5. MockProvider(TRUE, scorer, n, plain) = Answers(scorer, n)
    BY <1>3, MockTexts, Zenon
  <2> HIDE DEF may, does, counts, most
  <2>6. [named : counts, imports : {does}] \subseteq [named : most, imports : may]
    BY <2>3, <2>4
  <2> QED
    BY <2>1, <2>2, <2>5, <2>6, Zenon
<1> QED
  BY <1>2, <1>3

\* The perfect one names all in the list, and in the others those that can be found.
LEMMA PerfectMock ==
    ASSUME NEW n \in Nat, n > 0, NEW plain \in Nat, NEW said,
           \A i \in Prompts : said[i] \in MockProvider(FALSE, Scorers[i], n, plain)
    PROVE  said[1].named = n /\ said[2].imports /\ \A i \in 2..4 : said[i].named >= plain
<1> DEFINE counts == plain..Least(n, 4)
<1>1. Prompts = 1..4
  BY DEF Prompts, Scorers
<1>2. /\ Scorers[1] = "recall" /\ Scorers[2] = "usage"
      /\ \A i \in 3..4 : Scorers[i] = "specificity"
  BY DEF Scorers
<1>3. said[1].named = n
  <2> DEFINE all == n..n
  <2>1. 1 \in Prompts
    BY <1>1
  <2>2. said[1] \in MockProvider(FALSE, "recall", n, plain)
    BY <1>2, <2>1, Zenon
  <2>3. MockProvider(FALSE, "recall", n, plain) = [named : all, imports : {FALSE}]
    BY Zenon DEF MockProvider
  <2>4. \A c \in all : c = n
    OBVIOUS
  <2> HIDE DEF all
  <2>5. said[1] \in [named : all, imports : {FALSE}]
    BY <2>2, <2>3, Zenon
  <2> QED
    BY <2>4, <2>5
<1>4. said[2].imports /\ said[2].named \in counts
  <2>0. 2 \in Prompts
    BY <1>1
  <2>1. said[2] \in MockProvider(FALSE, "usage", n, plain)
    BY <1>2, <2>0, Zenon
  <2> DEFINE does == "usage" = "usage" /\ n > 0
  <2>2. MockProvider(FALSE, "usage", n, plain) = [named : counts, imports : {does}]
    BY Zenon DEF MockProvider
  <2>3. does = TRUE
    OBVIOUS
  <2> HIDE DEF counts, does
  <2>4. said[2] \in [named : counts, imports : {does}]
    BY <2>1, <2>2, Zenon
  <2>5. said[2].imports = does /\ said[2].named \in counts
    BY <2>4
  <2> QED
    BY <2>3, <2>5
<1>5. ASSUME NEW i \in 3..4
      PROVE  said[i].named \in counts
  <2>0. i \in Prompts
    BY <1>1
  <2>1. said[i] \in MockProvider(FALSE, "specificity", n, plain)
    BY <1>2, <2>0, Zenon
  <2> DEFINE does == "specificity" = "usage" /\ n > 0
  <2>2. MockProvider(FALSE, "specificity", n, plain) = [named : counts, imports : {does}]
    BY Zenon DEF MockProvider
  <2> HIDE DEF counts, does
  <2>3. said[i] \in [named : counts, imports : {does}]
    BY <2>1, <2>2, Zenon
  <2> QED
    BY <2>3
<1>6. \A c \in counts : c >= plain
  BY DEF Least
<1>7. \A i \in 2..4 : i = 2 \/ i \in 3..4
  OBVIOUS
<1> HIDE DEF counts
<1> QED
  BY <1>3, <1>4, <1>5, <1>6, <1>7

-----------------------------------------------------------------------------
(* A response made a table. *)

\* A function on 1..n is a list of n.
LEMMA AsSequence ==
    ASSUME NEW n \in Nat, NEW S, NEW f \in [1..n -> S]
    PROVE  f \in Seq(S) /\ Len(f) = n
<1>1. f \in Seq(S)
  BY IsASeq
<1>2. DOMAIN f = 1..n /\ DOMAIN f = 1..Len(f) /\ Len(f) \in Nat
  BY <1>1, LenProperties
<1>3. Len(f) = n
  BY <1>2
<1> QED
  BY <1>1, <1>3

\* A slice from the start is as long as the list allows, and leaves it as it is.
LEMMA SliceKeeps ==
    ASSUME NEW S, NEW s \in Seq(S), NEW m \in Int, m > 0
    PROVE  /\ Slice(s, m) \in Seq(S)
           /\ Len(Slice(s, m)) = (IF m < Len(s) THEN m ELSE Len(s))
           /\ \A i \in 1..Len(Slice(s, m)) : i \in 1..Len(s) /\ Slice(s, m)[i] = s[i]
<1> DEFINE k == IF m < Len(s) THEN m ELSE Len(s)
<1>1. k \in 0..Len(s) /\ Slice(s, m) = SubSeq(s, 1, k)
  BY DEF Slice
<1>2. Len(SubSeq(s, 1, k)) = k /\ SubSeq(s, 1, k) \in Seq(S)
      /\ \A i \in 1..k : SubSeq(s, 1, k)[i] = s[i]
  BY <1>1
<1> QED
  BY <1>1, <1>2

\* A table of these items: the keys of the first one, and a row for each item shown.
TableOf(its, m, t) ==
    t.kind = "table" =>
        /\ isUniformObjectArray(its)
        /\ t.columns = KeysOf(its[1])
        /\ Len(t.rows) = (IF m < Len(its) THEN m ELSE Len(its))
        /\ Len(t.rows) + t.more = Len(its)
        /\ \A i \in DOMAIN t.rows : /\ i \in DOMAIN its
                                    /\ t.rows[i] = Row(KeysOf(its[1]), its[i])

\* It fails over an item after the sample only.
FailsLate(its, t) ==
    t.kind = "throws" => \E i \in DOMAIN its : i > Sample /\ its[i].kind = "null"

\* What the cells of a table have of the items, under the columns of these names.
CellsOf(items, names, t) ==
    t.kind = "table" =>
        \A i \in DOMAIN t.rows, k \in Keys :
            /\ /\ i <= Sample /\ k \in KeysOf(items[i])
               /\ items[i].fields[k] \in {"text", "short"} /\ k \in names
               => k \in t.columns /\ t.rows[i][k] = items[i].fields[k]
            /\ k \in t.columns /\ k \notin KeysOf(items[i]) => t.rows[i][k] = ""

\* An array of like items becomes a table of them.
LEMMA ToonTable ==
    ASSUME NEW S, NEW its \in Seq(S), NEW m \in Int, m > 0, isUniformObjectArray(its),
           NEW t, t = arrayToToon(its, m)
    PROVE  t.kind \in {"table", "throws"} /\ TableOf(its, m, t) /\ FailsLate(its, t)
<1> DEFINE shown == Slice(its, m)
           columns == KeysOf(its[1])
           fails == \E i \in DOMAIN shown : shown[i].kind = "null"
<1>1. /\ shown \in Seq(S) /\ Len(shown) = (IF m < Len(its) THEN m ELSE Len(its))
      /\ \A i \in 1..Len(shown) : i \in 1..Len(its) /\ shown[i] = its[i]
  BY SliceKeeps
<1>2. its # <<>> /\ its[1].kind = "object" /\ Len(its) > 0
  BY DEF isUniformObjectArray
<1>3. shown # <<>> /\ shown[1] = its[1] /\ DOMAIN shown = 1..Len(shown) /\ DOMAIN its = 1..Len(its)
  BY <1>1, <1>2
<1> HIDE DEF shown
<1>4. CASE fails
  <2>1. t = Throws
    BY <1>4 DEF arrayToToon, shown
  <2>2. PICK i \in DOMAIN shown : shown[i].kind = "null"
    BY <1>4
  <2>3. i \in DOMAIN its /\ its[i].kind = "null"
    BY <1>1, <1>3, <2>2
  <2>4. i > Sample
    BY <1>2, <1>3, <2>3, SampleAssumption DEF isUniformObjectArray
  <2> QED
    BY <2>1, <2>3, <2>4 DEF Throws, TableOf, FailsLate
<1>5. CASE ~fails
  <2> DEFINE rows == [i \in DOMAIN shown |-> Row(columns, shown[i])]
             more == IF Len(its) > m THEN Len(its) - m ELSE 0
  <2>1. t = [kind |-> "table", columns |-> columns, rows |-> rows, more |-> more]
    BY <1>3, <1>5 DEF arrayToToon, shown
  <2>2. /\ t.kind = "table" /\ t.columns = columns /\ t.rows = rows /\ t.more = more
    BY <2>1
  <2>3. /\ DOMAIN rows = 1..Len(shown)
        /\ \A i \in 1..Len(shown) : i \in DOMAIN its /\ rows[i] = Row(columns, its[i])
    BY <1>1, <1>3
  <2>4. rows \in [1..Len(shown) -> {Row(columns, its[i]) : i \in DOMAIN its}]
    <3> HIDE DEF columns
    <3> QED
      BY <1>1, <1>3
  <2> HIDE DEF rows, columns
  <2>5. rows \in Seq({Row(columns, its[i]) : i \in DOMAIN its}) /\ Len(rows) = Len(shown)
    <3>1. Len(shown) \in Nat
      BY <1>1
    <3> QED
      BY <2>4, <3>1, AsSequence
  <2>6. Len(rows) + more = Len(its)
    BY <1>1, <2>5
  <2> HIDE DEF more
  <2> QED
    BY <1>1, <2>2, <2>3, <2>5, <2>6 DEF columns, TableOf, FailsLate
<1> QED
  BY <1>4, <1>5

\* A row has the values of its item under the columns, and nothing elsewhere.
LEMMA RowKeeps ==
    ASSUME NEW columns, NEW item, NEW k \in columns
    PROVE  /\ k \in KeysOf(item) /\ item.fields[k] \in {"text", "short"}
              => Row(columns, item)[k] = item.fields[k]
           /\ k \notin KeysOf(item) => Row(columns, item)[k] = ""
  BY DEF Row, primitiveToString

\* An item without the fields nobody asked for.
LEMMA FilterKeeps ==
    ASSUME NEW item \in Items, NEW fields
    PROVE  /\ filterFields(item, fields).kind = item.kind
           /\ KeysOf(filterFields(item, fields)) = KeysOf(item) \cap fields
           /\ \A k \in KeysOf(item) \cap fields :
                 filterFields(item, fields).fields[k] = item.fields[k]
<1>1. item = [kind |-> item.kind, fields |-> item.fields]
  BY DEF Items, Scalar, Null, Object
<1>2. filterFields(item, fields)
          = [kind |-> item.kind, fields |-> [k \in KeysOf(item) \cap fields |-> item.fields[k]]]
  BY <1>1 DEF filterFields
<1> QED
  BY <1>2 DEF KeysOf

\* What is said of a table, in terms of the array it is made of, whole or
\* filtered.
LEMMA ToonKeeps ==
    ASSUME NEW S, NEW its \in Seq(S), NEW m \in Int, m > 0, NEW t, t = toToon(its, m)
    PROVE  t.kind \in {"table", "throws", "compact"} /\ TableOf(its, m, t) /\ FailsLate(its, t)
<1>1. CASE isUniformObjectArray(its)
  <2>1. t = arrayToToon(its, m)
    BY <1>1 DEF toToon
  <2> QED
    BY <1>1, <2>1, ToonTable
<1>2. CASE ~isUniformObjectArray(its)
  <2>1. t.kind = "compact"
    BY <1>2 DEF toToon, toCompact, Throws
  <2> QED
    BY <2>1 DEF TableOf, FailsLate
<1> QED
  BY <1>1, <1>2

\* A value of an item of the sample stands in its row, under a column of its own;
\* nothing stands where an item has no value.
LEMMA CellsKept ==
    ASSUME NEW S, NEW its \in Seq(S), NEW m, NEW t, TableOf(its, m, t)
    PROVE  CellsOf(its, Keys, t)
<1> SUFFICES ASSUME t.kind = "table", NEW i \in DOMAIN t.rows, NEW k \in Keys
             PROVE  /\ /\ i <= Sample /\ k \in KeysOf(its[i])
                       /\ its[i].fields[k] \in {"text", "short"}
                       => k \in t.columns /\ t.rows[i][k] = its[i].fields[k]
                    /\ k \in t.columns /\ k \notin KeysOf(its[i]) => t.rows[i][k] = ""
  BY DEF CellsOf
<1> DEFINE columns == KeysOf(its[1])
           item == its[i]
           row == t.rows[i]
<1>1. /\ isUniformObjectArray(its) /\ t.columns = columns /\ i \in 1..Len(its)
      /\ row = Row(columns, item)
  BY DEF TableOf
<1>2. i <= Sample => KeysOf(item) = columns
  BY <1>1 DEF isUniformObjectArray
<1> HIDE DEF columns, item, row
<1>3. ASSUME k \in columns, k \in KeysOf(item), item.fields[k] \in {"text", "short"}
      PROVE  row[k] = item.fields[k]
  BY <1>1, <1>3, RowKeeps
<1>4. ASSUME k \in columns, k \notin KeysOf(item)
      PROVE  row[k] = ""
  BY <1>1, <1>4, RowKeeps
<1>5. /\ i <= Sample /\ k \in KeysOf(item) /\ item.fields[k] \in {"text", "short"}
         => k \in t.columns /\ row[k] = item.fields[k]
      /\ k \in t.columns /\ k \notin KeysOf(item) => row[k] = ""
  BY <1>1, <1>2, <1>3, <1>4
<1> QED
  BY <1>5 DEF item, row

\* A filtered array keeps the fields asked for, of as many items as asked for.
LEMMA FilteredArrayKept ==
    ASSUME NEW items \in Seq(Items), NEW m \in Int, m > 0, NEW fields, fields # {},
           NEW t, t = toWhitelist(items, fields, m)
    PROVE  /\ t.kind \in {"table", "throws", "compact"}
           /\ t.kind = "table" => Len(t.rows) + t.more = Len(items) \/ Len(t.rows) = m
           /\ CellsOf(items, fields, t) /\ FailsLate(items, t)
<1> DEFINE cut == Slice(items, m)
           kept(item) == IF item.kind = "object" THEN filterFields(item, fields) ELSE item
           its == [i \in DOMAIN cut |-> kept(cut[i])]
<1>1. /\ cut \in Seq(Items) /\ Len(cut) = (IF m < Len(items) THEN m ELSE Len(items))
      /\ \A i \in 1..Len(cut) : i \in 1..Len(items) /\ cut[i] = items[i]
  BY SliceKeeps
<1>2. t = toToon(its, m)
  BY DEF toWhitelist
<1>3. DOMAIN cut = 1..Len(cut) /\ Len(cut) \in Nat /\ DOMAIN items = 1..Len(items)
  BY <1>1
<1> HIDE DEF cut
<1>4. /\ its \in Seq({kept(cut[i]) : i \in DOMAIN cut}) /\ Len(its) = Len(cut)
  <2>1. its \in [1..Len(cut) -> {kept(cut[i]) : i \in DOMAIN cut}]
    BY <1>3
  <2> HIDE DEF its
  <2> QED
    BY <1>3, <2>1, AsSequence
<1>5. \A i \in 1..Len(cut) :
         /\ i \in DOMAIN items /\ items[i] \in Items
         /\ its[i].kind = items[i].kind
         /\ KeysOf(its[i]) = (IF items[i].kind = "object" THEN KeysOf(items[i]) \cap fields
                              ELSE KeysOf(items[i]))
         /\ \A k \in KeysOf(its[i]) : its[i].fields[k] = items[i].fields[k]
  <2> TAKE i \in 1..Len(cut)
  <2>1. i \in DOMAIN items /\ items[i] \in Items /\ cut[i] = items[i] /\ i \in DOMAIN cut
    BY <1>1, <1>3
  <2>2. its[i] = kept(items[i])
    BY <2>1
  <2>3. CASE items[i].kind = "object"
    BY <2>1, <2>2, <2>3, FilterKeeps
  <2>4. CASE items[i].kind # "object"
    BY <2>1, <2>2, <2>4
  <2> QED
    BY <2>3, <2>4
<1> HIDE DEF its, kept
<1>6. t.kind \in {"table", "throws", "compact"} /\ TableOf(its, m, t) /\ FailsLate(its, t)
  BY <1>2, <1>4, ToonKeeps
<1>7. ASSUME t.kind = "table"
      PROVE  Len(t.rows) + t.more = Len(items) \/ Len(t.rows) = m
  <2>1. /\ Len(t.rows) = (IF m < Len(its) THEN m ELSE Len(its))
        /\ Len(t.rows) + t.more = Len(its)
    BY <1>6, <1>7 DEF TableOf
  <2> QED
    BY <1>1, <1>3, <1>4, <2>1
<1>8. CellsOf(items, fields, t)
  <2> SUFFICES ASSUME t.kind = "table", NEW i \in DOMAIN t.rows, NEW k \in Keys
               PROVE  /\ /\ i <= Sample /\ k \in KeysOf(items[i])
                         /\ items[i].fields[k] \in {"text", "short"} /\ k \in fields
                         => k \in t.columns /\ t.rows[i][k] = items[i].fields[k]
                      /\ k \in t.columns /\ k \notin KeysOf(items[i]) => t.rows[i][k] = ""
    BY DEF CellsOf
  <2>1. /\ isUniformObjectArray(its) /\ t.columns = KeysOf(its[1]) /\ i \in DOMAIN its
    BY <1>6 DEF TableOf
  <2>2. i \in 1..Len(cut)
    BY <1>4, <2>1
  <2>3. CellsOf(its, Keys, t)
    BY <1>4, <1>6, CellsKept
  <2>4. /\ /\ i <= Sample /\ k \in KeysOf(its[i])
           /\ its[i].fields[k] \in {"text", "short"}
           => k \in t.columns /\ t.rows[i][k] = its[i].fields[k]
        /\ k \in t.columns /\ k \notin KeysOf(its[i]) => t.rows[i][k] = ""
    BY <2>3 DEF CellsOf
  <2>5. k \in KeysOf(its[i]) => k \in KeysOf(items[i]) /\ its[i].fields[k] = items[i].fields[k]
    BY <1>5, <2>2
  <2>6. k \in KeysOf(items[i]) /\ k \in fields => k \in KeysOf(its[i])
    BY <1>5, <2>2
  <2>7. ASSUME k \in t.columns, k \notin KeysOf(items[i])
        PROVE  t.rows[i][k] = ""
    BY <2>4, <2>5, <2>7
  <2>8. ASSUME i <= Sample, k \in KeysOf(items[i]), items[i].fields[k] \in {"text", "short"},
               k \in fields
        PROVE  k \in t.columns /\ t.rows[i][k] = items[i].fields[k]
    BY <2>4, <2>5, <2>6, <2>8
  <2> QED
    BY <2>7, <2>8
<1>9. FailsLate(items, t)
  <2> SUFFICES ASSUME t.kind = "throws"
               PROVE  \E i \in DOMAIN items : i > Sample /\ items[i].kind = "null"
    BY DEF FailsLate
  <2>1. PICK i \in DOMAIN its : i > Sample /\ its[i].kind = "null"
    BY <1>6 DEF FailsLate
  <2>2. i \in 1..Len(cut)
    BY <1>4, <2>1
  <2> QED
    BY <1>5, <2>1, <2>2
<1> QED
  BY <1>6, <1>7, <1>8, <1>9

\* The names a caller's whitelist leaves.
NamesLeft(format, data, fields) ==
    IF format = "whitelist"
    THEN fields \union (IF fields = {} \/ data.under # TopLevel THEN Keys ELSE {})
    ELSE Keys

\* Every response, in every way it may be cleaned.
LEMMA CleaningKeeps ==
    ASSUME NEW data, data.json \in BOOLEAN, data.items \in Seq(Items),
           NEW format \in {"toon", "compact", "whitelist"}, NEW fields \in SUBSET Keys,
           NEW m \in Int, m > 0, NEW t, t = handleCleanResponse(format, data, fields, m)
    PROVE  /\ t.kind = "table" => \/ Len(t.rows) + t.more = Len(data.items)
                                  \/ format = "whitelist" /\ Len(t.rows) = m
           /\ CellsOf(data.items, NamesLeft(format, data, fields), t)
           /\ FailsLate(data.items, t)
<1> DEFINE items == data.items
           names == NamesLeft(format, data, fields)
<1>1. ASSUME t.kind \notin {"table", "throws"}
      PROVE  CellsOf(items, names, t) /\ FailsLate(items, t)
  BY <1>1 DEF CellsOf, FailsLate
<1>2. ASSUME t = toToon(items, m), names = Keys
      PROVE  /\ t.kind = "table" => Len(t.rows) + t.more = Len(items)
             /\ CellsOf(items, names, t) /\ FailsLate(items, t)
  <2>1. TableOf(items, m, t) /\ FailsLate(items, t)
    BY <1>2, ToonKeeps
  <2>2. CellsOf(items, names, t)
    BY <1>2, <2>1, CellsKept
  <2> QED
    BY <2>1, <2>2 DEF TableOf
<1>3. CASE ~data.json
  <2>1. t.kind = "passthrough"
    BY <1>3 DEF handleCleanResponse, Throws
  <2> QED
    BY <1>1, <2>1
<1>4. CASE data.json /\ format = "compact"
  <2>1. t.kind = "compact"
    BY <1>4 DEF handleCleanResponse, toCompact, Throws
  <2> QED
    BY <1>1, <2>1
<1>5. CASE data.json /\ format # "compact" /\ data.under = TopLevel
  <2> DEFINE asked == IF format = "whitelist" THEN fields ELSE {}
  <2>1. t = toWhitelist(items, asked, m)
    BY <1>5 DEF handleCleanResponse
  <2>2. CASE asked = {}
    <3>1. t = toToon(items, m)
      BY <2>1, <2>2 DEF toWhitelist
    <3>2. names = Keys
      BY <2>2 DEF NamesLeft
    <3> QED
      BY <1>2, <3>1, <3>2
  <2>3. CASE asked # {}
    <3>1. format = "whitelist" /\ asked = fields /\ fields # {}
      BY <2>3
    <3>2. names = fields
      BY <1>5, <3>1 DEF NamesLeft
    <3>3. /\ t.kind = "table" => Len(t.rows) + t.more = Len(items) \/ Len(t.rows) = m
          /\ CellsOf(items, fields, t) /\ FailsLate(items, t)
      BY <2>1, <3>1, FilteredArrayKept
    <3> QED
      BY <3>1, <3>2, <3>3
  <2> QED
    BY <2>2, <2>3
<1>6. CASE data.json /\ format # "compact" /\ data.under # TopLevel
  <2>1. CASE format = "whitelist" /\ fields # {} /\ data.under \notin fields
    <3>1. t.kind = "dropped"
      BY <1>6, <2>1 DEF handleCleanResponse, Throws
    <3> QED
      BY <1>1, <3>1
  <2>2. CASE ~(format = "whitelist" /\ fields # {} /\ data.under \notin fields)
    <3>1. t = toSection(items, m)
      BY <1>6, <2>2 DEF handleCleanResponse
    <3>2. CASE isUniformObjectArray(items)
      <4>1. t = toToon(items, m)
        BY <3>1, <3>2 DEF toSection, toToon
      <4>2. names = Keys
        BY <1>6 DEF NamesLeft
      <4> QED
        BY <1>2, <4>1, <4>2
    <3>3. CASE ~isUniformObjectArray(items)
      <4>1. t.kind = "counted"
        BY <3>1, <3>3 DEF toSection, Throws
      <4> QED
        BY <1>1, <4>1
    <3> QED
      BY <3>2, <3>3
  <2> QED
    BY <2>1, <2>2
<1> QED
  BY <1>3, <1>4, <1>5, <1>6

-----------------------------------------------------------------------------
(* The call, step by step. *)

\* The steps of a graph query that read the report, and what has been read before.
ReadingReport == {"refind", "load", "stale", "head"}

\* The map, if it is of a commit and the report whose age is checked is the one it
\* was read from, and nobody has written that one since.
MapIsOf == map \in Commits /\ checked = reportPath /\ reportPath \notin moved

\* A graph query, while it is served.
QueryInv ==
    /\ pc \in InGraphQuery =>
          /\ tool = "gate_graph_query" /\ query \in QueryTypes /\ root \in Paths
    /\ pc = "map" => query \in MapTypes
    /\ pc = "symbols" => query \in SymbolTypes
    /\ pc \in {"update", "load"} => reportPath # NoDir
    /\ pc \in {"load", "stale", "head"} => checked # NoDir
    /\ pc \notin ReadingReport \union {"done"} => map = NoReport /\ result = Nothing
    /\ pc \in ReadingReport => \/ result.kind = "none" /\ query \in GraphifyTypes
                               \/ result.kind \in SymbolTypes
    /\ pc = "stale" /\ MapIsOf => reports[reportPath] = map
    /\ pc = "head" /\ MapIsOf => built = map

\* The answers of a provider, so far.
AnswerInv ==
    /\ answers \in Seq([named : Nat, imports : BOOLEAN])
    /\ pc \notin {"answering", "done"} => answers = <<>>
    /\ pc = "answering" =>
          /\ tool = "gate_validate_compression" /\ subject.n \in Nat /\ subject.plain \in 0..3
          /\ \A i \in DOMAIN answers :
                /\ answers[i] \in Answers(Scorers[i], subject.n)
                /\ subject.provider = "mock" =>
                      answers[i] \in MockProvider(FALSE, Scorers[i], subject.n, subject.plain)

\* What is promised of an answer; of scopes, where not any path may be asked for.
Promises ==
    /\ StaleMapIsFlagged /\ TableKeepsItems /\ VerdictIsEarned
    /\ AnyPath \/ ClearStaysInScope

GatewayInv == TypeOK /\ QueryInv /\ AnswerInv /\ Promises

-----------------------------------------------------------------------------

\* Nothing is promised before the answer.
LEMMA Unanswered ==
    ASSUME pc' # "done"
    PROVE  Promises'
  BY DEF Promises, StaleMapIsFlagged, TableKeepsItems, VerdictIsEarned, ClearStaysInScope

\* Nor of a refusal, and of other answers without anything in them.
LEMMA PlainlyAnswered ==
    ASSUME result'.kind \in {"refused", "prompts", "no report"}
    PROVE  Promises'
<1>1. StaleMapIsFlagged'
  BY DEF StaleMapIsFlagged, QueryTypes, SymbolTypes, MapTypes, GraphifyTypes
<1>2. TableKeepsItems'
  BY DEF TableKeepsItems
<1>3. VerdictIsEarned' /\ ClearStaysInScope'
  BY DEF VerdictIsEarned, ClearStaysInScope
<1> QED
  BY <1>1, <1>2, <1>3 DEF Promises

\* Of an answer to a graph query, only that it warns.
LEMMA QueryAnswered ==
    ASSUME tool' = "gate_graph_query", result'.kind \in QueryTypes, StaleMapIsFlagged'
    PROVE  Promises'
<1>1. result'.kind \notin {"refused", "score", "stats", "cleared"}
  BY DEF QueryTypes, SymbolTypes, MapTypes, GraphifyTypes
<1>2. TableKeepsItems'
  BY DEF TableKeepsItems
<1>3. VerdictIsEarned' /\ ClearStaysInScope'
  BY <1>1 DEF VerdictIsEarned, ClearStaysInScope
<1> QED
  BY <1>2, <1>3 DEF Promises

\* A tool is called: refused, or on its way to its handler.
LEMMA CallKeeps ==
    ASSUME GatewayInv,
           NEW t \in ALL_GATE_TOOLS \union {"gate_invoke", "unheard of"}, NEW route, NEW given,
           NEW illTyped, NEW raw, Call(raw, t, route, given, illTyped)
    PROVE  GatewayInv'
<1>1. /\ pc = "idle" /\ tool' = t
      /\ UNCHANGED <<graphifyOnPath, root, query, disk, reading, answers, subject>>
  BY DEF Call
<1>2. \/ pc' = "called" /\ result' = result
      \/ pc' = "done" /\ result'.kind = "refused"
  <2> DEFINE outcome == Outcome(resolveToolMode(raw), t, route, given, illTyped)
  <2>1. CASE outcome = "dispatched" /\ t \in Served
    BY <2>1 DEF Call
  <2>2. CASE ~(outcome = "dispatched" /\ t \in Served)
    <3>1. Answer(Refused(outcome))
      BY <2>2 DEF Call
    <3> QED
      BY <3>1 DEF Answer, Refused
  <2> QED
    BY <2>1, <2>2
<1>3. Promises' /\ (pc' = "done" => result'.kind # "none")
  BY <1>2, Unanswered, PlainlyAnswered
<1>4. UNCHANGED <<reports, head, moves, graphifyReport, reportPath, map, checked, built, staleWarning, moved>>
  BY <1>1 DEF disk, reading
<1>5. TypeOK'
  <2>1. pc' \in Waiting \union {"idle", "called", "done"}
    BY <1>2
  <2> QED
    BY <1>1, <1>3, <1>4, <2>1 DEF GatewayInv, TypeOK
<1>6. QueryInv'
  BY <1>1, <1>2, <1>4 DEF GatewayInv, QueryInv, InGraphQuery, ReadingReport
<1>7. AnswerInv'
  BY <1>1, <1>2 DEF GatewayInv, AnswerInv
<1> QED
  BY <1>3, <1>5, <1>6, <1>7 DEF GatewayInv

\* The next one begins where the first did.
LEMMA NextCallKeeps ==
    ASSUME GatewayInv, NextCall
    PROVE  GatewayInv'
<1>1. /\ tool' = NoTool /\ pc' = "idle" /\ root' = NoDir /\ query' = "none" /\ head' = NoGit
      /\ moves' = 0 /\ reports' = [d \in ReportDirs |-> NoReport] /\ map' = NoReport
      /\ graphifyReport' = NoDir /\ reportPath' = NoDir /\ checked' = NoDir
      /\ built' = NoCommit /\ staleWarning' = FALSE /\ moved' = {}
      /\ answers' = <<>> /\ result' = Nothing /\ graphifyOnPath' = graphifyOnPath
  BY DEF NextCall
<1>2. Promises'
  BY <1>1, Unanswered
<1>3. TypeOK'
  <2>1. reports' \in [ReportDirs -> Commits \union {NoCommit, NoReport}] /\ moves' \in 0..MaxMoves
    BY <1>1, GatewayAssumption
  <2>2. {graphifyReport', reportPath', checked'} \subseteq ReportDirs \union {NoDir}
    BY <1>1
  <2>3. Len(answers') <= Len(Scorers) /\ DOMAIN answers' = {}
    BY <1>1 DEF Scorers
  <2>4. /\ tool' \in ALL_GATE_TOOLS \union {NoTool, "gate_invoke", "unheard of"}
        /\ pc' \in Waiting \union {"idle", "called", "done"} /\ pc' # "done"
    BY <1>1
  <2> QED
    BY <1>1, <2>1, <2>2, <2>3, <2>4 DEF GatewayInv, TypeOK
<1>4. QueryInv'
  BY <1>1 DEF QueryInv, InGraphQuery, ReadingReport
<1>5. AnswerInv'
  BY <1>1 DEF AnswerInv
<1> QED
  BY <1>2, <1>3, <1>4, <1>5 DEF GatewayInv

\* A graph query begins with a directory it may look into.
LEMMA GraphQueryKeeps ==
    ASSUME GatewayInv, NEW requested \in DOMAIN RealPath \union {NoDir}, NEW type \in QueryTypes,
           NEW rebuild, GraphQuery(requested, type, rebuild)
    PROVE  GatewayInv'
<1>1. /\ pc = "called" /\ tool = "gate_graph_query"
      /\ tool' = tool /\ graphifyOnPath' = graphifyOnPath /\ answers' = answers /\ subject' = subject
      /\ UNCHANGED <<graphifyReport, reportPath, map, checked, built, staleWarning, moved>>
  BY DEF GraphQuery, reading
<1>2. /\ map = NoReport /\ result = Nothing /\ answers = <<>>
  BY <1>1 DEF GatewayInv, QueryInv, AnswerInv, ReadingReport
<1>3. CASE resolveProjectRoot(requested) = {}
  <2>1. /\ pc' = "done" /\ result' = Refused("outside")
        /\ UNCHANGED <<root, query, reports, head, moves>>
    BY <1>3 DEF GraphQuery, Answer, disk
  <2>2. result'.kind = "refused"
    BY <2>1 DEF Refused
  <2>3. Promises'
    BY <2>2, PlainlyAnswered
  <2>4. TypeOK'
    BY <1>1, <2>1, <2>2 DEF GatewayInv, TypeOK
  <2>5. QueryInv' /\ AnswerInv'
    BY <1>1, <1>2, <2>1 DEF GatewayInv, QueryInv, AnswerInv, InGraphQuery, ReadingReport
  <2> QED
    BY <2>3, <2>4, <2>5 DEF GatewayInv
<1>4. CASE resolveProjectRoot(requested) # {}
  <2>1. /\ root' \in resolveProjectRoot(requested) /\ query' = type /\ moves' = 0
        /\ \E d \in Disks : reports' = d.reports /\ head' = d.head
        /\ pc' \in {"rebuild", "find"} /\ result' = result
    BY <1>4 DEF GraphQuery
  <2>2. /\ root' \in Paths
        /\ root' \in {NoDir, AllowedRoot} \union {RealPath[e] : e \in DOMAIN RealPath}
    BY <2>1, RootResolved
  <2>3. /\ reports' \in [ReportDirs -> Commits \union {NoCommit, NoReport}]
        /\ head' \in Commits \union {NoGit} /\ moves' \in 0..MaxMoves
    BY <2>1, GatewayAssumption
  <2>4. Promises'
    BY <2>1, Unanswered
  <2>5. TypeOK'
    BY <1>1, <2>1, <2>2, <2>3 DEF GatewayInv, TypeOK, Waiting, InGraphQuery
  <2>6. QueryInv'
    BY <1>1, <1>2, <2>1, <2>2 DEF QueryInv, InGraphQuery, ReadingReport
  <2>7. AnswerInv'
    BY <1>1, <1>2, <2>1 DEF GatewayInv, AnswerInv
  <2> QED
    BY <2>4, <2>5, <2>6, <2>7 DEF GatewayInv
<1> QED
  BY <1>3, <1>4

\* What holds of a graph query that goes on and has read nothing yet.
LEMMA NothingReadYet ==
    ASSUME GatewayInv, pc \in {"rebuild", "update", "find", "map", "symbols"}
    PROVE  /\ tool = "gate_graph_query" /\ query \in QueryTypes /\ root \in Paths
           /\ map = NoReport /\ result = Nothing /\ answers = <<>>
  BY DEF GatewayInv, QueryInv, AnswerInv, InGraphQuery, ReadingReport

\* A report found now.
LEMMA ReportFoundNow ==
    ASSUME root \in Paths
    PROVE  findGraphifyReport(root, Reported) \in ReportDirs \union {NoDir}
<1>1. Reported \in SUBSET ReportDirs
  BY DEF Reported
<1> QED
  BY <1>1, ReportFound

\* A rebuild looks for a report and for graphify.
LEMMA RebuildKeeps ==
    ASSUME GatewayInv, Rebuild
    PROVE  GatewayInv'
<1> DEFINE found == findGraphifyReport(root, Reported)
<1>1. /\ pc = "rebuild"
      /\ UNCHANGED <<tool, root, query, reports, head, moves, graphifyReport, map, checked, built,
                     staleWarning, moved, answers, subject, result>>
  BY DEF Rebuild, disk
<1>2. found \in ReportDirs \union {NoDir}
  BY <1>1, NothingReadYet, ReportFoundNow
<1>3. \/ pc' = "find" /\ graphifyOnPath' = graphifyOnPath /\ reportPath' = reportPath
      \/ /\ found # NoDir /\ reportPath' = found /\ graphifyOnPath' \in isGraphifyCliAvailable
         /\ pc' \in {"update", "find"}
  BY DEF Rebuild
<1>4. isGraphifyCliAvailable \subseteq {"unknown", "yes", "no"}
  BY DEF GatewayInv, TypeOK, isGraphifyCliAvailable
<1>5. Promises'
  BY <1>3, Unanswered
<1> HIDE DEF found
<1>6. TypeOK'
  <2>1. {graphifyReport', reportPath', checked'} \subseteq ReportDirs \union {NoDir}
    BY <1>1, <1>2, <1>3 DEF GatewayInv, TypeOK
  <2>2. graphifyOnPath' \in {"unknown", "yes", "no"}
        /\ pc' \in Waiting \union {"idle", "called", "done"} /\ pc' # "done"
    BY <1>3, <1>4 DEF GatewayInv, TypeOK, Waiting, InGraphQuery
  <2> QED
    BY <1>1, <2>1, <2>2 DEF GatewayInv, TypeOK
<1>7. QueryInv' /\ AnswerInv'
  BY <1>1, <1>3, NothingReadYet DEF GatewayInv, QueryInv, AnswerInv, InGraphQuery, ReadingReport
<1> QED
  BY <1>5, <1>6, <1>7 DEF GatewayInv

\* graphify writes the report, or fails.
LEMMA UpdateKeeps ==
    ASSUME GatewayInv, runGraphifyUpdate
    PROVE  GatewayInv'
<1>1. /\ pc = "update" /\ pc' = "find"
      /\ UNCHANGED <<graphifyOnPath, tool, root, query, head, moves, graphifyReport, reportPath, map,
                     checked, built, staleWarning, moved, answers, subject, result>>
      /\ \/ reports' = reports
         \/ reports' = [reports EXCEPT ![reportPath] = IF head = NoGit THEN NoCommit ELSE head]
  BY DEF runGraphifyUpdate, reading
<1>2. reports' \in [ReportDirs -> Commits \union {NoCommit, NoReport}]
  BY <1>1 DEF GatewayInv, TypeOK
<1>3. Promises'
  BY <1>1, Unanswered
<1>4. TypeOK'
  BY <1>1, <1>2 DEF GatewayInv, TypeOK, Waiting, InGraphQuery
<1>5. QueryInv' /\ AnswerInv'
  BY <1>1, NothingReadYet DEF GatewayInv, QueryInv, AnswerInv, InGraphQuery, ReadingReport
<1> QED
  BY <1>3, <1>4, <1>5 DEF GatewayInv

\* The report is found, and the query told which way to go.
LEMMA FindKeeps ==
    ASSUME GatewayInv, Find
    PROVE  GatewayInv'
<1> DEFINE found == findGraphifyReport(root, Reported)
<1>1. /\ pc = "find" /\ graphifyReport' = found /\ moved' = {}
      /\ UNCHANGED <<graphifyOnPath, tool, root, query, reports, head, moves, reportPath, map,
                     checked, built, staleWarning, answers, subject, result>>
  BY DEF Find, disk
<1>2. found \in ReportDirs \union {NoDir}
  BY <1>1, NothingReadYet, ReportFoundNow
<1>3. query \in QueryTypes
  BY <1>1, NothingReadYet
<1>4. /\ pc' \in {"map", "symbols", "refind"}
      /\ pc' = "map" => query \in MapTypes
      /\ pc' = "symbols" => query \in SymbolTypes
      /\ pc' = "refind" => query \in GraphifyTypes
  BY <1>3 DEF Find, QueryTypes, SymbolTypes, MapTypes, GraphifyTypes
<1>5. Promises'
  BY <1>4, Unanswered
<1> HIDE DEF found
<1>6. TypeOK'
  <2>1. {graphifyReport', reportPath', checked'} \subseteq ReportDirs \union {NoDir}
    BY <1>1, <1>2 DEF GatewayInv, TypeOK
  <2>2. pc' \in Waiting \union {"idle", "called", "done"} /\ pc' # "done"
    BY <1>4 DEF Waiting, InGraphQuery
  <2>3. moved' \subseteq ReportDirs
    BY <1>1
  <2> QED
    BY <1>1, <2>1, <2>2, <2>3 DEF GatewayInv, TypeOK
<1>7. QueryInv' /\ AnswerInv'
  BY <1>1, <1>4, NothingReadYet
     DEF GatewayInv, QueryInv, AnswerInv, InGraphQuery, ReadingReport, Nothing
<1> QED
  BY <1>5, <1>6, <1>7 DEF GatewayInv

\* A map of symbols is answered at once.
LEMMA SymbolMapKeeps ==
    ASSUME GatewayInv, NEW graph, NEW matches, NEW asked, SymbolMap(graph, matches, asked)
    PROVE  GatewayInv'
<1>1. /\ pc = "map" /\ pc' = "done" /\ result'.kind = query
      /\ UNCHANGED <<graphifyOnPath, tool, root, query, reports, head, moves, graphifyReport,
                     reportPath, map, checked, built, staleWarning, moved, answers>>
  BY DEF SymbolMap, Answer, disk, reading
<1>2. tool = "gate_graph_query" /\ query \in QueryTypes /\ map = NoReport
  BY <1>1, NothingReadYet
<1>3. StaleMapIsFlagged'
  BY <1>1, <1>2, GatewayAssumption DEF StaleMapIsFlagged
<1>4. Promises'
  BY <1>1, <1>2, <1>3, QueryAnswered
<1>5. result'.kind # "none"
  BY <1>1, <1>2 DEF QueryTypes, SymbolTypes, MapTypes, GraphifyTypes
<1>6. TypeOK'
  BY <1>1, <1>5 DEF GatewayInv, TypeOK
<1>7. QueryInv' /\ AnswerInv'
  BY <1>1 DEF GatewayInv, QueryInv, AnswerInv, InGraphQuery, ReadingReport
<1> QED
  BY <1>4, <1>6, <1>7 DEF GatewayInv

\* Symbols are found, and then how old the report is.
LEMMA SymbolsKeeps ==
    ASSUME GatewayInv, NEW graph, NEW matches, Symbols(graph, matches)
    PROVE  GatewayInv'
<1> DEFINE depths == queryGraph(graph, query, matches)
<1>1. /\ pc = "symbols" /\ checked' = graphifyReport
      /\ UNCHANGED <<graphifyOnPath, tool, root, query, reports, head, moves, graphifyReport,
                     reportPath, map, built, staleWarning, moved, answers>>
  BY DEF Symbols, disk
<1>2. result' = [kind |-> query, depths |-> depths]
  BY DEF Symbols
<1>3. \/ pc' = "done"
      \/ pc' \in {"refind", "stale"} /\ graphifyReport # NoDir
  <2>1. CASE graphifyReport = NoDir
    BY <2>1 DEF Symbols
  <2>2. CASE graphifyReport # NoDir /\ query = "search" /\ DOMAIN depths = {}
    BY <2>2 DEF Symbols
  <2>3. CASE graphifyReport # NoDir /\ ~(query = "search" /\ DOMAIN depths = {})
    BY <2>3 DEF Symbols
  <2> QED
    BY <2>1, <2>2, <2>3
<1> HIDE DEF depths
<1>4. /\ tool = "gate_graph_query" /\ query \in QueryTypes /\ map = NoReport /\ answers = <<>>
      /\ root \in Paths
  BY <1>1, NothingReadYet
<1>5. result'.kind = query /\ query \in SymbolTypes
  BY <1>1, <1>2 DEF GatewayInv, QueryInv
<1>6. pc' \in {"done", "refind", "stale"}
  BY <1>3
<1>7. StaleMapIsFlagged'
  BY <1>1, <1>4, GatewayAssumption DEF StaleMapIsFlagged
<1>8. Promises'
  BY <1>1, <1>4, <1>5, <1>7, QueryAnswered
<1>9. TypeOK'
  <2>1. {graphifyReport', reportPath', checked'} \subseteq ReportDirs \union {NoDir}
    BY <1>1 DEF GatewayInv, TypeOK
  <2>2. pc' \in Waiting \union {"idle", "called", "done"} /\ result'.kind # "none"
    BY <1>5, <1>6 DEF Waiting, InGraphQuery, SymbolTypes
  <2> QED
    BY <1>1, <2>1, <2>2 DEF GatewayInv, TypeOK
<1>10. QueryInv'
  <2>1. ~MapIsOf'
    BY <1>1, <1>4, GatewayAssumption DEF MapIsOf
  <2> QED
    BY <1>1, <1>3, <1>4, <1>5, <1>6, <2>1 DEF QueryInv, InGraphQuery, ReadingReport
<1>11. AnswerInv'
  BY <1>1, <1>4, <1>6 DEF GatewayInv, AnswerInv
<1> QED
  BY <1>8, <1>9, <1>10, <1>11 DEF GatewayInv

\* What holds of a graph query that reads the report.
LEMMA WhileReading ==
    ASSUME GatewayInv, pc \in ReadingReport
    PROVE  /\ tool = "gate_graph_query" /\ query \in QueryTypes /\ root \in Paths
           /\ answers = <<>>
           /\ \/ result.kind = "none" /\ query \in GraphifyTypes
              \/ result.kind \in SymbolTypes
  BY DEF GatewayInv, QueryInv, AnswerInv, InGraphQuery, ReadingReport

\* The report is looked for again, perhaps where there is none any more.
LEMMA RefindKeeps ==
    ASSUME GatewayInv, Refind
    PROVE  GatewayInv'
<1> DEFINE found == findGraphifyReport(root, Reported)
<1>1. /\ pc = "refind" /\ reportPath' = found
      /\ checked' = IF checked = NoDir THEN (IF found = NoDir THEN graphifyReport ELSE found)
                    ELSE checked
      /\ UNCHANGED <<graphifyOnPath, tool, root, query, reports, head, moves, graphifyReport, map,
                     built, staleWarning, moved, answers, subject>>
  BY DEF Refind, disk
<1>2. \/ pc' = "load" /\ found # NoDir /\ result' = result
      \/ pc' = "stale" /\ found = NoDir /\ checked' # NoDir /\ result' = result
      \/ pc' = "done" /\ result'.kind = "no report"
  <2>1. CASE found # NoDir
    BY <2>1 DEF Refind
  <2>2. CASE found = NoDir /\ checked' # NoDir
    BY <2>2 DEF Refind
  <2>3. CASE found = NoDir /\ checked' = NoDir
    <3>1. Answer([kind |-> "no report"])
      BY <2>3 DEF Refind
    <3> QED
      BY <3>1 DEF Answer
  <2> QED
    BY <2>1, <2>2, <2>3
<1>3. /\ tool = "gate_graph_query" /\ query \in QueryTypes /\ root \in Paths
      /\ answers = <<>>
      /\ \/ result.kind = "none" /\ query \in GraphifyTypes
         \/ result.kind \in SymbolTypes
  BY <1>1, WhileReading DEF ReadingReport
<1>4. found \in ReportDirs \union {NoDir}
  BY <1>3, ReportFoundNow
<1> HIDE DEF found
<1>5. Promises'
  BY <1>2, Unanswered, PlainlyAnswered
<1>6. TypeOK'
  <2>1. {graphifyReport', reportPath', checked'} \subseteq ReportDirs \union {NoDir}
    BY <1>1, <1>4 DEF GatewayInv, TypeOK
  <2>2. /\ pc' \in Waiting \union {"idle", "called", "done"}
        /\ pc' = "done" => result'.kind # "none"
    BY <1>2 DEF Waiting, InGraphQuery
  <2> QED
    BY <1>1, <2>1, <2>2 DEF GatewayInv, TypeOK
<1>7. QueryInv'
  <2>1. pc' = "stale" => ~MapIsOf'
    BY <1>1, <1>2 DEF MapIsOf
  <2> QED
    BY <1>1, <1>2, <1>3, <2>1 DEF QueryInv, InGraphQuery, ReadingReport
<1>8. AnswerInv'
  BY <1>1, <1>2, <1>3 DEF GatewayInv, AnswerInv
<1> QED
  BY <1>5, <1>6, <1>7, <1>8 DEF GatewayInv

\* The report is read: the map is now of the commit it names.
LEMMA LoadKeeps ==
    ASSUME GatewayInv, Load
    PROVE  GatewayInv'
<1>1. /\ pc = "load"
      /\ UNCHANGED <<graphifyOnPath, tool, root, query, reports, head, moves, graphifyReport,
                     reportPath, checked, built, staleWarning, answers, subject>>
  BY DEF Load, disk
<1>2. \/ pc' = "done" /\ result'.kind = "refused" /\ UNCHANGED <<map, moved>>
      \/ /\ map' = reports[reportPath] /\ moved' = moved \ {reportPath} /\ map' # NoReport
         /\ result' = result /\ pc' \in {"refind", "stale"}
  <2>1. CASE reports[reportPath] = NoReport
    <3>1. Answer(Refused("report is gone")) /\ UNCHANGED <<map, moved>>
      BY <2>1 DEF Load
    <3> QED
      BY <3>1 DEF Answer, Refused
  <2>2. CASE reports[reportPath] # NoReport
    BY <2>2 DEF Load
  <2> QED
    BY <2>1, <2>2
<1>3. /\ tool = "gate_graph_query" /\ query \in QueryTypes /\ root \in Paths
      /\ answers = <<>>
      /\ \/ result.kind = "none" /\ query \in GraphifyTypes
         \/ result.kind \in SymbolTypes
  BY <1>1, WhileReading DEF ReadingReport
<1>4. reportPath \in ReportDirs
  BY <1>1 DEF GatewayInv, TypeOK, QueryInv
<1>5. Promises'
  BY <1>2, Unanswered, PlainlyAnswered
<1>6. TypeOK'
  <2>1. map' \in Commits \union {NoCommit, NoReport} /\ moved' \subseteq ReportDirs
    BY <1>2, <1>4 DEF GatewayInv, TypeOK
  <2>2. /\ pc' \in Waiting \union {"idle", "called", "done"}
        /\ pc' = "done" => result'.kind # "none"
    BY <1>2 DEF Waiting, InGraphQuery
  <2> QED
    BY <1>1, <2>1, <2>2 DEF GatewayInv, TypeOK
<1>7. QueryInv'
  <2>1. pc' = "stale" => reports'[reportPath'] = map' /\ checked' # NoDir
    BY <1>1, <1>2 DEF GatewayInv, QueryInv
  <2> QED
    BY <1>1, <1>2, <1>3, <2>1 DEF QueryInv, InGraphQuery, ReadingReport
<1>8. AnswerInv'
  BY <1>1, <1>2, <1>3 DEF GatewayInv, AnswerInv
<1> QED
  BY <1>5, <1>6, <1>7, <1>8 DEF GatewayInv

\* An answer about the map, or of the symbols found before.
LEMMA Concluded ==
    ASSUME GatewayInv, pc \in ReadingReport, Conclude, NEW k, k = result'.kind
    PROVE  pc' = "done" /\ k \in QueryTypes /\ k # "none"
<1>1. /\ query \in QueryTypes /\ result.kind \in {"none"} \union SymbolTypes
  BY WhileReading
<1>2. CASE result.kind = "none"
  <2>1. pc' = "done" /\ result' = [kind |-> query]
    BY <1>2 DEF Conclude, Answer
  <2> QED
    BY <1>1, <2>1 DEF QueryTypes, SymbolTypes, MapTypes, GraphifyTypes
<1>3. CASE result.kind # "none"
  <2>1. pc' = "done" /\ result' = result
    BY <1>3 DEF Conclude, Answer
  <2> QED
    BY <1>1, <1>3, <2>1 DEF QueryTypes
<1> QED
  BY <1>2, <1>3

\* The commit of the report is read once more.
LEMMA StaleKeeps ==
    ASSUME GatewayInv, Stale
    PROVE  GatewayInv'
<1>1. /\ pc = "stale"
      /\ UNCHANGED <<graphifyOnPath, tool, root, query, reports, head, moves, graphifyReport,
                     reportPath, map, checked, staleWarning, moved, answers, subject>>
  BY DEF Stale, disk
<1>2. /\ tool = "gate_graph_query" /\ query \in QueryTypes /\ root \in Paths
      /\ answers = <<>>
      /\ \/ result.kind = "none" /\ query \in GraphifyTypes
         \/ result.kind \in SymbolTypes
  BY <1>1, WhileReading DEF ReadingReport
<1>3. checked \in ReportDirs /\ checked # NoDir
  BY <1>1 DEF GatewayInv, TypeOK, QueryInv
<1>4. MapIsOf => reports[checked] = map
  BY <1>1 DEF GatewayInv, QueryInv, MapIsOf
<1>5. CASE reports[checked] \in {NoReport, NoCommit}
  <2>1. Conclude /\ built' = built
    BY <1>5 DEF Stale
  <2>2. pc' = "done" /\ result'.kind \in QueryTypes /\ result'.kind # "none"
    BY <1>1, <2>1, Concluded DEF ReadingReport
  <2>3. ~MapIsOf'
    BY <1>1, <1>4, <1>5, GatewayAssumption DEF MapIsOf
  <2>4. StaleMapIsFlagged'
    BY <2>3 DEF StaleMapIsFlagged, MapIsOf
  <2>5. Promises'
    BY <1>1, <1>2, <2>2, <2>4, QueryAnswered
  <2>6. TypeOK'
    BY <1>1, <2>1, <2>2 DEF GatewayInv, TypeOK
  <2>7. QueryInv' /\ AnswerInv'
    BY <1>1, <1>2, <2>2 DEF GatewayInv, QueryInv, AnswerInv, InGraphQuery, ReadingReport
  <2> QED
    BY <2>5, <2>6, <2>7 DEF GatewayInv
<1>6. CASE reports[checked] \notin {NoReport, NoCommit}
  <2>1. pc' = "head" /\ built' = reports[checked] /\ result' = result
    BY <1>6 DEF Stale
  <2>2. built' \in Commits \union {NoCommit}
    BY <1>3, <1>6, <2>1 DEF GatewayInv, TypeOK
  <2>3. Promises'
    BY <2>1, Unanswered
  <2>4. TypeOK'
    BY <1>1, <2>1, <2>2 DEF GatewayInv, TypeOK, Waiting, InGraphQuery
  <2>5. MapIsOf' => built' = map'
    BY <1>1, <1>4, <2>1 DEF MapIsOf
  <2>6. QueryInv'
    BY <1>1, <1>2, <1>3, <2>1, <2>5 DEF QueryInv, InGraphQuery, ReadingReport
  <2>7. AnswerInv'
    BY <1>1, <1>2, <2>1 DEF GatewayInv, AnswerInv
  <2> QED
    BY <2>3, <2>4, <2>6, <2>7 DEF GatewayInv
<1> QED
  BY <1>5, <1>6

\* HEAD is asked for last, and compared with that commit.
LEMMA CheckHeadKeeps ==
    ASSUME GatewayInv, CheckHead
    PROVE  GatewayInv'
<1>1. /\ pc = "head" /\ staleWarning' = graphifyStaleWarning /\ Conclude
      /\ UNCHANGED <<graphifyOnPath, tool, root, query, reports, head, moves, graphifyReport,
                     reportPath, map, checked, built, moved, answers, subject>>
  BY DEF CheckHead, disk
<1>2. /\ tool = "gate_graph_query" /\ query \in QueryTypes /\ answers = <<>>
  BY <1>1, WhileReading DEF ReadingReport
<1>3. pc' = "done" /\ result'.kind \in QueryTypes /\ result'.kind # "none"
  BY <1>1, Concluded DEF ReadingReport
<1>4. staleWarning' \in BOOLEAN /\ (~staleWarning' => head \in {NoGit, built})
  BY <1>1 DEF graphifyStaleWarning
<1>5. MapIsOf => built = map
  BY <1>1 DEF GatewayInv, QueryInv
<1>6. StaleMapIsFlagged'
  BY <1>1, <1>4, <1>5 DEF StaleMapIsFlagged, MapIsOf
<1>7. Promises'
  BY <1>1, <1>2, <1>3, <1>6, QueryAnswered
<1>8. TypeOK'
  BY <1>1, <1>3, <1>4 DEF GatewayInv, TypeOK
<1>9. QueryInv' /\ AnswerInv'
  BY <1>1, <1>2, <1>3 DEF GatewayInv, QueryInv, AnswerInv, InGraphQuery, ReadingReport
<1> QED
  BY <1>7, <1>8, <1>9 DEF GatewayInv

\* Another program writes a report.
LEMMA WriteReportKeeps ==
    ASSUME GatewayInv, NEW d \in ReportDirs, NEW c \in Commits \union {NoCommit, NoReport},
           WriteReport(d, c)
    PROVE  GatewayInv'
<1>1. /\ pc \in InGraphQuery /\ moves < MaxMoves /\ moves' = moves + 1
      /\ reports' = [reports EXCEPT ![d] = c] /\ moved' = moved \union {d}
      /\ UNCHANGED <<graphifyOnPath, tool, pc, root, query, head, graphifyReport,
                     reportPath, map, checked, built, staleWarning, answers, subject, result>>
  BY DEF WriteReport
<1>2. /\ reports \in [ReportDirs -> Commits \union {NoCommit, NoReport}]
      /\ moves' \in 0..MaxMoves /\ moved' \subseteq ReportDirs
  <2>1. /\ reports \in [ReportDirs -> Commits \union {NoCommit, NoReport}]
        /\ moves \in 0..MaxMoves /\ moved \subseteq ReportDirs
    BY DEF GatewayInv, TypeOK
  <2>2. MaxMoves \in Nat
    BY GatewayAssumption
  <2>3. moves' \in 0..MaxMoves
    BY <1>1, <2>1, <2>2
  <2> QED
    BY <1>1, <2>1, <2>3
<1>3. pc' # "done"
  BY <1>1 DEF InGraphQuery
<1>4. Promises'
  BY <1>3, Unanswered
<1>5. TypeOK'
  <2>1. reports' \in [ReportDirs -> Commits \union {NoCommit, NoReport}]
    BY <1>1, <1>2
  <2>2. UNCHANGED <<graphifyOnPath, tool, pc, root, query, head, graphifyReport, reportPath, map,
                    checked, built, staleWarning, answers, result>>
    BY <1>1
  <2>3. /\ graphifyOnPath' \in {"unknown", "yes", "no"}
        /\ tool' \in ALL_GATE_TOOLS \union {NoTool, "gate_invoke", "unheard of"}
        /\ pc' \in Waiting \union {"idle", "called", "done"}
        /\ root' \in {NoDir, AllowedRoot} \union {RealPath[e] : e \in DOMAIN RealPath}
        /\ query' \in QueryTypes \union {"none"} /\ head' \in Commits \union {NoGit}
    BY <2>2 DEF GatewayInv, TypeOK
  <2>4. /\ {graphifyReport', reportPath', checked'} \subseteq ReportDirs \union {NoDir}
        /\ map' \in Commits \union {NoCommit, NoReport} /\ built' \in Commits \union {NoCommit}
        /\ staleWarning' \in BOOLEAN
    BY <2>2 DEF GatewayInv, TypeOK
  <2>5. Len(answers') <= Len(Scorers) /\ \A i \in DOMAIN answers' : answers'[i].named \in Nat
    BY <2>2 DEF GatewayInv, TypeOK
  <2> QED
    BY <1>2, <1>3, <2>1, <2>3, <2>4, <2>5 DEF TypeOK
<1>6. QueryInv'
  <2>1. MapIsOf' => MapIsOf /\ reportPath # d
    BY <1>1 DEF MapIsOf
  <2>2. reportPath # d => reports'[reportPath] = reports[reportPath]
    <3>1. CASE reportPath \in ReportDirs
      BY <1>1, <1>2, <3>1
    <3>2. CASE reportPath \notin ReportDirs
      BY <1>1, <1>2, <3>2
    <3> QED
      BY <3>1, <3>2
  <2> QED
    BY <1>1, <2>1, <2>2 DEF GatewayInv, QueryInv
<1>7. AnswerInv'
  BY <1>1 DEF GatewayInv, AnswerInv
<1> QED
  BY <1>4, <1>5, <1>6, <1>7 DEF GatewayInv

\* Somebody commits.
LEMMA CommitKeeps ==
    ASSUME GatewayInv, NEW c \in Commits, Commit(c)
    PROVE  GatewayInv'
<1>1. /\ pc \in InGraphQuery /\ moves < MaxMoves /\ moves' = moves + 1 /\ head' = c
      /\ UNCHANGED <<graphifyOnPath, tool, pc, root, query, reports, graphifyReport, moved,
                     reportPath, map, checked, built, staleWarning, answers, subject, result>>
  BY DEF Commit, reading
<1>2. moves' \in 0..MaxMoves
  <2>1. moves \in 0..MaxMoves
    BY DEF GatewayInv, TypeOK
  <2>2. MaxMoves \in Nat
    BY GatewayAssumption
  <2> QED
    BY <1>1, <2>1, <2>2
<1>3. pc' # "done"
  BY <1>1 DEF InGraphQuery
<1>4. Promises'
  BY <1>3, Unanswered
<1>5. TypeOK'
  BY <1>1, <1>2, <1>3 DEF GatewayInv, TypeOK
<1>6. QueryInv' /\ AnswerInv'
  BY <1>1 DEF GatewayInv, QueryInv, AnswerInv, MapIsOf
<1> QED
  BY <1>4, <1>5, <1>6 DEF GatewayInv

\* What a cleaning may end in, whatever the limit.
LEMMA CleaningEnds ==
    ASSUME NEW data, data.json \in BOOLEAN, NEW format, NEW fields, NEW m,
           NEW k, k = handleCleanResponse(format, data, fields, m).kind
    PROVE  k \in {"passthrough", "compact", "dropped", "counted", "table", "throws"}
<1>1. \A its : arrayToToon(its, m).kind \in {"table", "throws"}
  BY DEF arrayToToon, Throws
<1>2. \A its : toToon(its, m).kind \in {"table", "throws", "compact"}
  BY <1>1 DEF toToon, toCompact, Throws
<1>3. \A its, f : toWhitelist(its, f, m).kind \in {"table", "throws", "compact"}
  BY <1>2 DEF toWhitelist
<1>4. \A its : toSection(its, m).kind \in {"table", "throws", "counted"}
  BY <1>1 DEF toSection, Throws
<1>5. CASE ~data.json
  BY <1>5 DEF handleCleanResponse, Throws
<1>6. CASE data.json /\ format = "compact"
  BY <1>6 DEF handleCleanResponse, toCompact, Throws
<1>7. CASE data.json /\ format # "compact" /\ data.under = TopLevel
  <2>1. k = toWhitelist(data.items, IF format = "whitelist" THEN fields ELSE {}, m).kind
    BY <1>7 DEF handleCleanResponse
  <2> QED
    BY <1>3, <2>1
<1>8. CASE data.json /\ format # "compact" /\ data.under # TopLevel
  <2>1. CASE format = "whitelist" /\ fields # {} /\ data.under \notin fields
    BY <1>8, <2>1 DEF handleCleanResponse, Throws
  <2>2. CASE ~(format = "whitelist" /\ fields # {} /\ data.under \notin fields)
    BY <1>4, <1>8, <2>2 DEF handleCleanResponse
  <2> QED
    BY <2>1, <2>2
<1> QED
  BY <1>5, <1>6, <1>7, <1>8

\* A call at its handler has left no traces of another.
LEMMA JustCalled ==
    ASSUME GatewayInv, pc = "called"
    PROVE  map = NoReport /\ result = Nothing /\ answers = <<>>
  BY DEF GatewayInv, QueryInv, AnswerInv, ReadingReport

\* A response is cleaned at once.
LEMMA CleanResponseKeeps ==
    ASSUME GatewayInv, NEW format \in {"toon", "compact", "whitelist"}, NEW data \in Responses,
           NEW fields \in Whitelists, NEW max \in Limits, CleanResponse(format, data, fields, max)
    PROVE  GatewayInv'
<1> DEFINE t == handleCleanResponse(format, data, fields, max)
<1>1. /\ pc = "called" /\ tool = "gate_clean_response" /\ pc' = "done" /\ result' = t
      /\ subject' = [format |-> format, data |-> data, fields |-> fields, max |-> max]
      /\ UNCHANGED <<graphifyOnPath, tool, root, query, reports, head, moves, graphifyReport,
                     reportPath, map, checked, built, staleWarning, moved, answers>>
  BY DEF CleanResponse, Answer, disk, reading
<1>2. /\ data.json \in BOOLEAN /\ data.items \in Seq(Items)
      /\ max \in Int /\ fields \in SUBSET Keys
  BY GatewayAssumption
<1>3. map = NoReport /\ answers = <<>>
  BY <1>1, JustCalled
<1>4. t.kind \in {"passthrough", "compact", "dropped", "counted", "table", "throws"}
  BY <1>2, CleaningEnds
<1>5. ASSUME max > 0
      PROVE  /\ t.kind = "table" => \/ Len(t.rows) + t.more = Len(data.items)
                                    \/ format = "whitelist" /\ Len(t.rows) = max
             /\ CellsOf(data.items, NamesLeft(format, data, fields), t)
             /\ FailsLate(data.items, t)
  BY <1>2, <1>5, CleaningKeeps
<1> HIDE DEF t
<1>6. TableKeepsItems'
  <2> SUFFICES ASSUME max > 0
               PROVE  TableKeepsItems'
    BY <1>1 DEF TableKeepsItems
  <2> DEFINE items == data.items
  <2>1. /\ subject'.data = data /\ subject'.format = format /\ subject'.fields = fields
        /\ subject'.max = max
    BY <1>1
  <2>2. t.kind = "table" => \/ Len(t.rows) + t.more = Len(items)
                            \/ format = "whitelist" /\ Len(t.rows) = max
    BY <1>5
  <2>3. ASSUME t.kind = "table", NEW i \in DOMAIN t.rows, NEW k \in Keys
        PROVE  /\ /\ i <= Sample /\ k \in KeysOf(items[i])
                  /\ items[i].fields[k] \in {"text", "short"}
                  /\ format = "whitelist" => k \in fields \union
                        (IF fields = {} \/ data.under # TopLevel THEN Keys ELSE {})
                  => k \in t.columns /\ t.rows[i][k] = items[i].fields[k]
               /\ k \in t.columns /\ k \notin KeysOf(items[i]) => t.rows[i][k] = ""
    <3>1. CellsOf(items, NamesLeft(format, data, fields), t)
      BY <1>5
    <3>2. /\ /\ i <= Sample /\ k \in KeysOf(items[i])
             /\ items[i].fields[k] \in {"text", "short"} /\ k \in NamesLeft(format, data, fields)
             => k \in t.columns /\ t.rows[i][k] = items[i].fields[k]
          /\ k \in t.columns /\ k \notin KeysOf(items[i]) => t.rows[i][k] = ""
      BY <2>3, <3>1 DEF CellsOf
    <3> QED
      BY <3>2 DEF NamesLeft
  <2>4. t.kind = "throws" => \E i \in DOMAIN items : i > Sample /\ items[i].kind = "null"
    BY <1>5 DEF FailsLate
  <2> QED
    BY <1>1, <2>1, <2>2, <2>3, <2>4 DEF TableKeepsItems
<1>7. StaleMapIsFlagged'
  BY <1>1, <1>3, GatewayAssumption DEF StaleMapIsFlagged
<1>8. Promises'
  BY <1>1, <1>4, <1>6, <1>7 DEF Promises, VerdictIsEarned, ClearStaysInScope
<1>9. TypeOK'
  BY <1>1, <1>4 DEF GatewayInv, TypeOK
<1>10. QueryInv' /\ AnswerInv'
  BY <1>1, <1>3 DEF GatewayInv, QueryInv, AnswerInv, InGraphQuery, ReadingReport
<1> QED
  BY <1>8, <1>9, <1>10 DEF GatewayInv

\* So are the totals of a scope, and a clear.
LEMMA ScopedKeeps ==
    ASSUME GatewayInv, NEW requested \in DOMAIN RealPath \union {NoDir},
           NEW rows \in SUBSET PossibleRows, Scoped(requested, rows)
    PROVE  GatewayInv'
<1>1. /\ pc = "called" /\ tool \in {"gate_session_stats", "gate_dedup_context"}
      /\ UNCHANGED <<graphifyOnPath, tool, root, query, reports, head, moves, graphifyReport,
                     reportPath, map, checked, built, staleWarning, moved, answers>>
  BY DEF Scoped, disk, reading
<1>2. map = NoReport /\ answers = <<>>
  BY <1>1, JustCalled
<1>3. ASSUME pc' = "done", result'.kind \in {"refused", "stats", "cleared"}
      PROVE  TypeOK' /\ QueryInv' /\ AnswerInv'
             /\ StaleMapIsFlagged' /\ TableKeepsItems' /\ VerdictIsEarned'
  <2>1. TypeOK'
    BY <1>1, <1>3 DEF GatewayInv, TypeOK
  <2>2. QueryInv' /\ AnswerInv'
    BY <1>1, <1>2, <1>3 DEF GatewayInv, QueryInv, AnswerInv, InGraphQuery, ReadingReport
  <2>3. StaleMapIsFlagged'
    BY <1>1, <1>2, GatewayAssumption DEF StaleMapIsFlagged
  <2>4. TableKeepsItems' /\ VerdictIsEarned'
    BY <1>1, <1>3 DEF TableKeepsItems, VerdictIsEarned
  <2> QED
    BY <2>1, <2>2, <2>3, <2>4
<1>4. CASE resolveProjectRoot(requested) = {}
  <2>1. pc' = "done" /\ result'.kind = "refused"
    BY <1>4 DEF Scoped, Answer, Refused
  <2> QED
    BY <1>3, <2>1, PlainlyAnswered DEF GatewayInv
<1>5. CASE resolveProjectRoot(requested) # {}
  <2>1. PICK scope \in resolveProjectRoot(requested) :
           /\ subject' = [rows |-> rows, scope |-> scope]
           /\ Answer(IF tool = "gate_session_stats"
                     THEN [kind |-> "stats", told |-> getScopedStats(rows, scope)]
                     ELSE [kind |-> "cleared", cleared |-> clearScoped(rows, scope)])
    BY <1>5 DEF Scoped
  <2>2. /\ subject'.rows = rows /\ subject'.scope = scope /\ pc' = "done"
    BY <2>1 DEF Answer
  <2>3. CASE tool = "gate_session_stats"
    <3>1. result' = [kind |-> "stats", told |-> getScopedStats(rows, scope)]
      BY <2>1, <2>3 DEF Answer
    <3>2. result'.kind = "stats" /\ result'.told = getScopedStats(rows, scope)
      BY <3>1
    <3>3. AnyPath \/ ClearStaysInScope'
      <4> SUFFICES ASSUME ~AnyPath PROVE ClearStaysInScope'
        OBVIOUS
      <4>1. scope \in Paths
        BY RootResolved
      <4>2. getScopedStats(rows, scope) = {r \in rows : Below(scope, r.path)}
        BY <4>1, ScopeIsKept
      <4> QED
        BY <2>2, <3>2, <4>2 DEF ClearStaysInScope
    <3> QED
      BY <1>3, <2>2, <3>2, <3>3 DEF GatewayInv, Promises
  <2>4. CASE tool # "gate_session_stats"
    <3>1. result' = [kind |-> "cleared", cleared |-> clearScoped(rows, scope)]
      BY <2>1, <2>4 DEF Answer
    <3>2. result'.kind = "cleared" /\ result'.cleared = clearScoped(rows, scope)
      BY <3>1
    <3>3. AnyPath \/ ClearStaysInScope'
      <4> SUFFICES ASSUME ~AnyPath PROVE ClearStaysInScope'
        OBVIOUS
      <4> DEFINE mine == {r \in rows : Below(scope, r.path)}
      <4>1. scope \in Paths
        BY RootResolved
      <4>2. /\ clearScoped(rows, scope).left = rows \ mine
            /\ clearScoped(rows, scope).removed =
                  IF scope = AllowedRoot THEN Cardinality(mine)
                  ELSE Cardinality({r.path : r \in mine})
        BY <4>1, ScopeIsKept
      <4> QED
        BY <2>2, <3>2, <4>2 DEF ClearStaysInScope
    <3> QED
      BY <1>3, <2>2, <3>2, <3>3 DEF GatewayInv, Promises
  <2> QED
    BY <2>3, <2>4
<1> QED
  BY <1>4, <1>5

\* An answer as the scorers read it, of any number of names.
LEMMA AnswerTyped ==
    ASSUME NEW n \in Nat, NEW scorer, NEW a \in Answers(scorer, n)
    PROVE  a \in [named : Nat, imports : BOOLEAN]
<1>1. Least(n, 4) \in Nat
  BY DEF Least
<1>2. (IF scorer = "recall" THEN n ELSE Least(n, 4)) \in Nat
  BY <1>1
<1>3. \A k \in Nat : 0..k \subseteq Nat
  OBVIOUS
<1>4. (IF scorer = "usage" THEN BOOLEAN ELSE {FALSE}) \subseteq BOOLEAN
  OBVIOUS
<1> DEFINE most == IF scorer = "recall" THEN n ELSE Least(n, 4)
           may == IF scorer = "usage" THEN BOOLEAN ELSE {FALSE}
<1>5. a \in [named : 0..most, imports : may]
  BY DEF Answers
<1> HIDE DEF most, may
<1> QED
  BY <1>2, <1>3, <1>4, <1>5 DEF most, may

\* Each of them counts names.
LEMMA NamesCounted ==
    ASSUME NEW said \in Seq([named : Nat, imports : BOOLEAN])
    PROVE  \A i \in DOMAIN said : said[i].named \in Nat
<1> DEFINE S == [named : Nat, imports : BOOLEAN]
<1>1. said \in Seq(S) /\ \A a \in S : a.named \in Nat
  OBVIOUS
<1> HIDE DEF S
<1> QED
  BY <1>1

\* A score made of answers to four questions is what VerdictIsEarned says.
LEMMA ScoreIsEarned ==
    ASSUME NEW n \in Nat, NEW said, \A i \in Prompts : said[i] \in Answers(Scorers[i], n),
           pc' = "done", result' = Scored(said, n), answers' = said, subject'.n = n,
           NEW plain \in 0..3, subject'.plain = plain,
           subject'.provider = "mock" =>
               \A i \in Prompts : said[i] \in MockProvider(FALSE, Scorers[i], n, plain)
    PROVE  VerdictIsEarned'
<1> DEFINE verdict == Verdict(scoreAnswers(said, n))
           least == <<40, 64, 88, 100>>[plain + 1]
<1>1. result'.kind = "score" /\ result'.verdict = verdict /\ result'.aggregate = scoreAnswers(said, n)
  BY DEF Scored
<1>2. /\ verdict = "excellent" =>
            /\ n >= 3 /\ said[2].imports /\ said[2].named >= 3
            /\ 10 * said[1].named >= 7 * n
            /\ said[3].named >= 1 /\ said[4].named >= 1
      /\ verdict \in {"good", "excellent"} => n >= 2 /\ 3 * said[1].named >= n
      /\ n = 0 => verdict = "lossy"
      /\ n > 0 /\ said[1].named = n /\ said[2].imports =>
            ((\A i \in 2..4 : said[i].named >= plain) => scoreAnswers(said, n) >= least)
  BY VerdictEarned
<1>3. ASSUME subject'.provider = "mock", n > 0
      PROVE  scoreAnswers(said, n) >= least
  <2> HIDE DEF least
  <2>1. n > 0 /\ plain \in Nat
    BY <1>3
  <2>2. \A i \in Prompts : said[i] \in MockProvider(FALSE, Scorers[i], n, plain)
    BY <1>3, Zenon
  <2>3. said[1].named = n /\ said[2].imports /\ \A i \in 2..4 : said[i].named >= plain
    BY <2>1, <2>2, PerfectMock
  <2> QED
    BY <1>2, <1>3, <2>3
<1>4. <<40, 64, 88, 100>>[subject'.plain + 1] = least
  OBVIOUS
<1> HIDE DEF verdict, least
<1> QED
  BY <1>1, <1>2, <1>3, <1>4 DEF VerdictIsEarned

\* The rest is promised of a score too.
LEMMA Scores ==
    ASSUME map' = NoReport, result'.kind = "score", VerdictIsEarned'
    PROVE  Promises'
<1>1. StaleMapIsFlagged'
  BY GatewayAssumption DEF StaleMapIsFlagged
<1>2. TableKeepsItems' /\ ClearStaysInScope'
  BY DEF TableKeepsItems, ClearStaysInScope
<1> QED
  BY <1>1, <1>2 DEF Promises

\* The caller has the answers.
LEMMA ScoreGivenKeeps ==
    ASSUME GatewayInv, NEW source \in Sources, NEW native \in BOOLEAN,
           NEW a \in Answers("recall", 4), NEW b \in Answers("usage", 4),
           NEW c \in Answers("specificity", 4), NEW given, given = <<a, b, c, NoAnswer>>,
           ScoreGiven(source, native, given)
    PROVE  GatewayInv'
<1> DEFINE n == Cardinality(buildGroundTruth(source, native))
<1>1. /\ pc = "called" /\ tool = "gate_validate_compression" /\ pc' = "done"
      /\ result' = Scored(given, n) /\ answers' = given
      /\ \A i \in Prompts : given[i] \in Answers(Scorers[i], n)
      /\ subject' = [source |-> source, native |-> native, provider |-> "caller", n |-> n, plain |-> 0]
      /\ UNCHANGED <<graphifyOnPath, tool, root, query, reports, head, moves, graphifyReport,
                     reportPath, map, checked, built, staleWarning, moved>>
  BY DEF ScoreGiven, Answer, disk, reading
<1>2. map = NoReport /\ n \in Nat
  BY <1>1, JustCalled, GroundTruthIsFinite
<1> HIDE DEF n
<1>3. subject'.n = n /\ subject'.plain = 0 /\ subject'.provider = "caller"
  BY <1>1
<1>4. VerdictIsEarned'
  BY <1>1, <1>2, <1>3, ScoreIsEarned
<1>5. result'.kind = "score"
  BY <1>1 DEF Scored
<1>6. Promises'
  BY <1>1, <1>2, <1>4, <1>5, Scores
<1>7. answers' \in Seq([named : Nat, imports : BOOLEAN]) /\ Len(answers') = 4
  <2>1. /\ a \in [named : Nat, imports : BOOLEAN] /\ b \in [named : Nat, imports : BOOLEAN]
        /\ c \in [named : Nat, imports : BOOLEAN]
    BY AnswerTyped
  <2>2. NoAnswer \in [named : Nat, imports : BOOLEAN]
    BY DEF NoAnswer
  <2> QED
    BY <1>1, <2>1, <2>2
<1>8. TypeOK'
  <2>1. Len(answers') <= Len(Scorers)
    BY <1>7 DEF Scorers
  <2>2. \A i \in DOMAIN answers' : answers'[i].named \in Nat
    BY <1>7, NamesCounted
  <2> QED
    BY <1>1, <1>5, <2>1, <2>2 DEF GatewayInv, TypeOK
<1>9. QueryInv'
  BY <1>1 DEF QueryInv, InGraphQuery, ReadingReport
<1>10. AnswerInv'
  BY <1>1, <1>7 DEF AnswerInv
<1> QED
  BY <1>6, <1>8, <1>9, <1>10 DEF GatewayInv

\* A provider is going to be asked, or cannot be.
LEMMA AskProviderKeeps ==
    ASSUME GatewayInv, NEW source \in Sources, NEW native \in BOOLEAN, NEW provider,
           AskProvider(source, native, provider)
    PROVE  GatewayInv'
<1> DEFINE n == Cardinality(buildGroundTruth(source, native))
<1>0. PICK plain \in IF provider = "mock" THEN PlainFirst(buildGroundTruth(source, native)) ELSE {0} :
          subject' = [source |-> source, native |-> native, provider |-> provider, n |-> n, plain |-> plain]
  BY DEF AskProvider
<1>00. plain \in 0..3
  BY GroundTruthIsFinite, FirstAreFew
<1>1. /\ pc = "called" /\ tool = "gate_validate_compression"
      /\ subject'.n = n /\ subject'.plain = plain
      /\ UNCHANGED <<graphifyOnPath, tool, root, query, reports, head, moves, graphifyReport,
                     reportPath, map, checked, built, staleWarning, moved, answers>>
  BY <1>0 DEF AskProvider, disk, reading
<1>2. \/ pc' = "done" /\ result'.kind \in {"refused", "prompts"}
      \/ pc' = "answering" /\ result' = result
  <2>1. CASE provider \in {"openai without a key", "caller without responses"}
    <3>1. Answer(Refused(provider))
      BY <2>1 DEF AskProvider
    <3> QED
      BY <3>1 DEF Answer, Refused
  <2>2. CASE provider \notin {"openai without a key", "caller without responses", "prompts only"}
    BY <2>2 DEF AskProvider
  <2>3. CASE provider = "prompts only"
    <3>1. Answer([kind |-> "prompts"])
      BY <2>3 DEF AskProvider
    <3> QED
      BY <3>1 DEF Answer
  <2> QED
    BY <2>1, <2>2, <2>3
<1>3. map = NoReport /\ result = Nothing /\ answers = <<>> /\ n \in Nat
  BY <1>1, JustCalled, GroundTruthIsFinite
<1> HIDE DEF n
<1>4. Promises'
  BY <1>2, Unanswered, PlainlyAnswered
<1>5. TypeOK'
  <2>1. /\ pc' \in Waiting \union {"idle", "called", "done"}
        /\ pc' = "done" => result'.kind # "none"
    BY <1>2 DEF Waiting
  <2> QED
    BY <1>1, <2>1 DEF GatewayInv, TypeOK
<1>6. QueryInv'
  BY <1>1, <1>2, <1>3 DEF QueryInv, InGraphQuery, ReadingReport
<1>7. AnswerInv'
  <2>1. subject'.n \in Nat /\ subject'.plain \in 0..3 /\ DOMAIN answers' = {}
    BY <1>00, <1>1, <1>3
  <2> QED
    BY <1>1, <1>2, <1>3, <2>1 DEF GatewayInv, AnswerInv
<1> QED
  BY <1>4, <1>5, <1>6, <1>7 DEF GatewayInv

\* One more question is answered, by the mock or by a server.
LEMMA AnswerPromptKeeps ==
    ASSUME GatewayInv, AnswerPrompt \/ ProviderSettles
    PROVE  GatewayInv'
<1> DEFINE at == Len(answers) + 1
           scorer == Scorers[at]
           n == subject.n
           plain == subject.plain
<1>1. /\ pc = "answering" /\ pc' = pc /\ Len(answers) < Len(Scorers)
      /\ UNCHANGED <<graphifyOnPath, tool, root, query, reports, head, moves, graphifyReport,
                     reportPath, map, checked, built, staleWarning, moved, subject, result>>
  BY DEF AnswerPrompt, ProviderSettles, AwaitsProvider, disk, reading
<1>2. /\ answers \in Seq([named : Nat, imports : BOOLEAN]) /\ n \in Nat /\ plain \in 0..3
      /\ tool = "gate_validate_compression" /\ map = NoReport /\ result = Nothing
      /\ \A i \in DOMAIN answers :
            /\ answers[i] \in Answers(Scorers[i], n)
            /\ subject.provider = "mock" => answers[i] \in MockProvider(FALSE, Scorers[i], n, plain)
  BY <1>1 DEF GatewayInv, AnswerInv, QueryInv, ReadingReport
<1>3. at \in Prompts
  BY <1>1, <1>2 DEF Scorers, Prompts
<1>4. NoAnswer \in Answers(scorer, n)
  <2>1. Least(n, 4) \in Nat
    BY <1>2 DEF Least
  <2> HIDE DEF scorer
  <2>2. CASE scorer = "recall"
    <3>1. Answers(scorer, n) = [named : 0..n, imports : {FALSE}]
      BY <2>2 DEF Answers
    <3> QED
      BY <1>2, <3>1 DEF NoAnswer
  <2>3. CASE scorer = "usage"
    <3>1. Answers(scorer, n) = [named : 0..Least(n, 4), imports : BOOLEAN]
      BY <2>3 DEF Answers
    <3> QED
      BY <2>1, <3>1 DEF NoAnswer
  <2>4. CASE scorer \notin {"recall", "usage"}
    <3>1. Answers(scorer, n) = [named : 0..Least(n, 4), imports : {FALSE}]
      BY <2>4 DEF Answers
    <3> QED
      BY <2>1, <3>1 DEF NoAnswer
  <2> QED
    BY <2>2, <2>3, <2>4
<1>5. \E said \in Answers(scorer, n) :
          /\ answers' = Append(answers, said)
          /\ subject.provider = "mock" => said \in MockProvider(FALSE, scorer, n, plain)
  <2>1. CASE AnswerPrompt
    <3> DEFINE faulty == subject.provider = "faulty mock"
    <3>1. PICK said \in MockProvider(faulty, scorer, n, plain) : answers' = Append(answers, said)
      BY <2>1 DEF AnswerPrompt
    <3>2. faulty \in BOOLEAN
      OBVIOUS
    <3>3. said \in Answers(scorer, n)
      <4> HIDE DEF faulty
      <4>1. plain \in Nat
        BY <1>2
      <4> QED
        <5>1. CASE faulty = TRUE
          <6>1. said \in MockProvider(TRUE, scorer, n, plain)
            BY <3>1, <5>1, Zenon
          <6> QED
            BY <1>2, <4>1, <6>1, MockAnswers
        <5>2. CASE faulty = FALSE
          <6>1. said \in MockProvider(FALSE, scorer, n, plain)
            BY <3>1, <5>2, Zenon
          <6> QED
            BY <1>2, <4>1, <6>1, MockAnswers
        <5> QED
          BY <3>2, <5>1, <5>2
    <3>4. subject.provider = "mock" => said \in MockProvider(FALSE, scorer, n, plain)
      <4>1. subject.provider = "mock" => faulty = FALSE
        OBVIOUS
      <4> HIDE DEF faulty
      <4> QED
        BY <3>1, <4>1
    <3> QED
      BY <3>1, <3>3, <3>4
  <2>2. CASE ProviderSettles
    <3>1. PICK said \in postJson(scorer, n) : answers' = Append(answers, said)
      BY <2>2 DEF ProviderSettles
    <3>2. said \in Answers(scorer, n)
      BY <1>4, <3>1 DEF postJson
    <3>3. subject.provider # "mock"
      BY <2>2 DEF ProviderSettles, AwaitsProvider
    <3> QED
      BY <3>1, <3>2, <3>3
  <2> QED
    BY <2>1, <2>2
<1>6. pc' # "done"
  BY <1>1
<1>7. Promises'
  BY <1>6, Unanswered
<1>8. /\ answers' \in Seq([named : Nat, imports : BOOLEAN]) /\ Len(answers') <= Len(Scorers)
      /\ \A i \in DOMAIN answers' :
            /\ answers'[i] \in Answers(Scorers[i], n)
            /\ subject.provider = "mock" => answers'[i] \in MockProvider(FALSE, Scorers[i], n, plain)
  <2>1. PICK said \in Answers(scorer, n) :
           /\ answers' = Append(answers, said)
           /\ subject.provider = "mock" => said \in MockProvider(FALSE, scorer, n, plain)
    BY <1>5
  <2>2. said \in [named : Nat, imports : BOOLEAN]
    BY <1>2, AnswerTyped
  <2>3. /\ answers' \in Seq([named : Nat, imports : BOOLEAN]) /\ Len(answers') = at
        /\ DOMAIN answers' = 1..at /\ DOMAIN answers = 1..Len(answers)
        /\ \A i \in 1..Len(answers) : answers'[i] = answers[i]
        /\ answers'[at] = said
    BY <1>2, <2>1, <2>2
  <2>4. \A i \in 1..at : i \in 1..Len(answers) \/ i = at
    BY <1>2
  <2>5. at <= Len(Scorers)
    BY <1>1, <1>2 DEF Scorers
  <2> HIDE DEF at
  <2> QED
    BY <1>2, <2>1, <2>3, <2>4, <2>5
<1>9. TypeOK'
  <2>1. pc' \in Waiting \union {"idle", "called", "done"}
    BY <1>1 DEF Waiting
  <2>2. \A i \in DOMAIN answers' : answers'[i].named \in Nat
    BY <1>8, NamesCounted
  <2> QED
    BY <1>1, <1>6, <1>8, <2>1, <2>2 DEF GatewayInv, TypeOK
<1>10. QueryInv'
  BY <1>1, <1>2, <1>5 DEF QueryInv, InGraphQuery, ReadingReport
<1>11. AnswerInv'
  BY <1>1, <1>2, <1>5, <1>8 DEF AnswerInv
<1> QED
  BY <1>7, <1>9, <1>10, <1>11 DEF GatewayInv

\* All four are answered.
LEMMA ScoreKeeps ==
    ASSUME GatewayInv, Score
    PROVE  GatewayInv'
<1> DEFINE n == subject.n
           plain == subject.plain
<1>1. /\ pc = "answering" /\ Len(answers) = Len(Scorers) /\ pc' = "done"
      /\ result' = Scored(answers, n)
      /\ UNCHANGED <<graphifyOnPath, tool, root, query, reports, head, moves, graphifyReport,
                     reportPath, map, checked, built, staleWarning, moved, answers, subject>>
  BY DEF Score, Answer, disk, reading
<1>2. /\ answers \in Seq([named : Nat, imports : BOOLEAN]) /\ n \in Nat /\ plain \in 0..3
      /\ tool = "gate_validate_compression" /\ map = NoReport /\ result = Nothing
      /\ \A i \in DOMAIN answers :
            /\ answers[i] \in Answers(Scorers[i], n)
            /\ subject.provider = "mock" => answers[i] \in MockProvider(FALSE, Scorers[i], n, plain)
  BY <1>1 DEF GatewayInv, AnswerInv, QueryInv, ReadingReport
<1>3. Prompts = DOMAIN answers
  BY <1>1, <1>2 DEF Prompts, Scorers
<1>4. subject'.n = n /\ subject'.plain = plain /\ subject'.provider = subject.provider
  BY <1>1
<1> HIDE DEF n, plain
<1>5. VerdictIsEarned'
  BY <1>1, <1>2, <1>3, <1>4, ScoreIsEarned
<1>6. result'.kind = "score"
  BY <1>1 DEF Scored
<1>7. Promises'
  BY <1>1, <1>2, <1>5, <1>6, Scores
<1>8. TypeOK'
  BY <1>1, <1>6 DEF GatewayInv, TypeOK
<1>9. QueryInv' /\ AnswerInv'
  BY <1>1, <1>2 DEF QueryInv, AnswerInv, InGraphQuery, ReadingReport
<1> QED
  BY <1>7, <1>8, <1>9 DEF GatewayInv

-----------------------------------------------------------------------------
(* Every step, and every state. *)

\* A tool is called, or the next call begins.
LEMMA AskKeeps ==
    ASSUME GatewayInv, Ask
    PROVE  GatewayInv'
  BY CallKeeps, NextCallKeeps DEF Ask

\* A handler takes its first step.
LEMMA BeginKeeps ==
    ASSUME GatewayInv, Begin
    PROVE  GatewayInv'
<1>1. ASSUME NEW data \in Responses, NEW fields \in Whitelists, NEW max \in Limits,
             NEW format \in {"toon", "compact", "whitelist"}, CleanResponse(format, data, fields, max)
      PROVE  GatewayInv'
  BY <1>1, CleanResponseKeeps
<1>2. ASSUME NEW source \in Sources, NEW native \in BOOLEAN, NEW provider,
             AskProvider(source, native, provider)
      PROVE  GatewayInv'
  BY <1>2, AskProviderKeeps
<1>3. ASSUME NEW source \in Sources, NEW native \in BOOLEAN,
             NEW a \in Answers("recall", 4), NEW b \in Answers("usage", 4),
             NEW c \in Answers("specificity", 4), ScoreGiven(source, native, <<a, b, c, NoAnswer>>)
      PROVE  GatewayInv'
  BY <1>3, ScoreGivenKeeps
<1>4. ASSUME NEW requested \in DOMAIN RealPath \union {NoDir}, NEW type \in QueryTypes,
             NEW rebuild \in BOOLEAN, GraphQuery(requested, type, rebuild)
      PROVE  GatewayInv'
  BY <1>4, GraphQueryKeeps
<1>5. ASSUME NEW requested \in DOMAIN RealPath \union {NoDir}, NEW rows \in SUBSET PossibleRows,
             Scoped(requested, rows)
      PROVE  GatewayInv'
  BY <1>5, ScopedKeeps
<1> QED
  BY <1>1, <1>2, <1>3, <1>4, <1>5 DEF Begin

\* A call that waits goes on.
LEMMA ContinueKeeps ==
    ASSUME GatewayInv, Continue
    PROVE  GatewayInv'
<1>1. ASSUME NEW graph \in Graphs, NEW matches \in Matches, Symbols(graph, matches)
      PROVE  GatewayInv'
  BY <1>1, SymbolsKeeps
<1>2. ASSUME NEW graph \in Graphs, NEW matches \in Matches, NEW asked \in Budgets,
             SymbolMap(graph, matches, asked)
      PROVE  GatewayInv'
  BY <1>2, SymbolMapKeeps
<1> QED
  BY <1>1, <1>2, RebuildKeeps, UpdateKeeps, FindKeeps, RefindKeeps, LoadKeeps, StaleKeeps,
     CheckHeadKeeps, AnswerPromptKeeps, ScoreKeeps DEF Continue

\* Another program moves.
LEMMA MoveKeeps ==
    ASSUME GatewayInv, Move
    PROVE  GatewayInv'
  BY WriteReportKeeps, CommitKeeps DEF Move

\* The invariant holds at first.
LEMMA GatewayStarts ==
    ASSUME Init
    PROVE  GatewayInv
<1>1. TypeOK
  <2>1. reports \in [ReportDirs -> Commits \union {NoCommit, NoReport}] /\ moves \in 0..MaxMoves
    BY GatewayAssumption DEF Init
  <2>2. {graphifyReport, reportPath, checked} \subseteq ReportDirs \union {NoDir}
    BY DEF Init
  <2>3. Len(answers) <= Len(Scorers) /\ DOMAIN answers = {}
    BY DEF Init, Scorers
  <2>4. /\ tool \in ALL_GATE_TOOLS \union {NoTool, "gate_invoke", "unheard of"}
        /\ pc \in Waiting \union {"idle", "called", "done"} /\ pc # "done"
        /\ graphifyOnPath \in {"unknown", "yes", "no"}
    BY DEF Init
  <2> QED
    BY <2>1, <2>2, <2>3, <2>4 DEF Init, TypeOK
<1>2. QueryInv
  BY DEF Init, QueryInv, InGraphQuery, ReadingReport
<1>3. AnswerInv
  BY DEF Init, AnswerInv
<1>4. Promises
  BY DEF Init, Promises, StaleMapIsFlagged, TableKeepsItems, VerdictIsEarned, ClearStaysInScope
<1> QED
  BY <1>1, <1>2, <1>3, <1>4 DEF GatewayInv

\* And always.
THEOREM GatewayInvariant == Spec => []GatewayInv
<1>1. Init => GatewayInv
  BY GatewayStarts
<1>2. GatewayInv /\ [Next]_vars => GatewayInv'
  <2> SUFFICES ASSUME GatewayInv, [Next]_vars
               PROVE  GatewayInv'
    OBVIOUS
  <2>1. CASE Next
    BY <2>1, AskKeeps, BeginKeeps, ContinueKeeps, AnswerPromptKeeps, MoveKeeps DEF Next
  <2>2. CASE UNCHANGED vars
    <3>1. UNCHANGED <<graphifyOnPath, tool, pc, root, query, reports, head, moves, graphifyReport,
                      reportPath, map, checked, built, staleWarning, moved, answers, subject, result>>
      BY <2>2 DEF vars, disk, reading
    <3>2. TypeOK'
      <4>1. /\ graphifyOnPath' \in {"unknown", "yes", "no"}
            /\ tool' \in ALL_GATE_TOOLS \union {NoTool, "gate_invoke", "unheard of"}
            /\ pc' \in Waiting \union {"idle", "called", "done"}
            /\ root' \in {NoDir, AllowedRoot} \union {RealPath[e] : e \in DOMAIN RealPath}
            /\ query' \in QueryTypes \union {"none"} /\ head' \in Commits \union {NoGit}
        BY <3>1 DEF GatewayInv, TypeOK
      <4>2. /\ {graphifyReport', reportPath', checked'} \subseteq ReportDirs \union {NoDir}
            /\ map' \in Commits \union {NoCommit, NoReport} /\ built' \in Commits \union {NoCommit}
            /\ staleWarning' \in BOOLEAN /\ moved' \subseteq ReportDirs
        BY <3>1 DEF GatewayInv, TypeOK
      <4>3. /\ reports' \in [ReportDirs -> Commits \union {NoCommit, NoReport}]
            /\ moves' \in 0..MaxMoves
        BY <3>1 DEF GatewayInv, TypeOK
      <4>4. /\ Len(answers') <= Len(Scorers) /\ \A i \in DOMAIN answers' : answers'[i].named \in Nat
            /\ pc' = "done" => result'.kind # "none"
        BY <3>1 DEF GatewayInv, TypeOK
      <4> QED
        BY <4>1, <4>2, <4>3, <4>4 DEF TypeOK
    <3>3. QueryInv'
      BY <3>1 DEF GatewayInv, QueryInv, MapIsOf
    <3>4. AnswerInv'
      BY <3>1 DEF GatewayInv, AnswerInv
    <3>5. StaleMapIsFlagged' /\ VerdictIsEarned'
      BY <3>1 DEF GatewayInv, Promises, StaleMapIsFlagged, VerdictIsEarned
    <3>6. TableKeepsItems'
      BY <3>1 DEF GatewayInv, Promises, TableKeepsItems
    <3>7. AnyPath \/ ClearStaysInScope'
      BY <3>1 DEF GatewayInv, Promises, ClearStaysInScope
    <3> QED
      BY <3>2, <3>3, <3>4, <3>5, <3>6, <3>7 DEF GatewayInv, Promises
  <2> QED
    BY <2>1, <2>2
<1> QED
  BY <1>1, <1>2, PTL DEF Spec

\* Every variable keeps to its type, and an answer is never empty (TypeOK).
THEOREM TypesAreKept == Spec => []TypeOK
<1>1. GatewayInv => TypeOK
  BY DEF GatewayInv
<1> QED
  BY <1>1, GatewayInvariant, PTL

\* No map of another commit than HEAD is served without a warning, but for the
\* exceptions StaleMapIsFlagged names, whatever is written meanwhile and however often.
THEOREM NoStaleMapUnflagged == Spec => []StaleMapIsFlagged
<1>1. GatewayInv => StaleMapIsFlagged
  BY DEF GatewayInv, Promises
<1> QED
  BY <1>1, GatewayInvariant, PTL

\* A table keeps the items of every response, of any length and fields.
THEOREM NoItemLost == Spec => []TableKeepsItems
<1>1. GatewayInv => TableKeepsItems
  BY DEF GatewayInv, Promises
<1> QED
  BY <1>1, GatewayInvariant, PTL

\* A verdict is earned, for any number of names and any answers; the perfect mock
\* earns what those of its three names that can be found are worth.
THEOREM NoVerdictUnearned == Spec => []VerdictIsEarned
<1>1. GatewayInv => VerdictIsEarned
  BY DEF GatewayInv, Promises
<1> QED
  BY <1>1, GatewayInvariant, PTL

\* A clear keeps to its scope, unless the server lets any path be asked for: then
\* the trusted directory stands for everything, rows outside it too (clearScoped).
THEOREM NoRowOutsideScope == ~AnyPath => (Spec => []ClearStaysInScope)
<1> SUFFICES ASSUME ~AnyPath
             PROVE  Spec => []ClearStaysInScope
  OBVIOUS
<1>1. GatewayInv => ClearStaysInScope
  BY DEF GatewayInv, Promises
<1> QED
  BY <1>1, GatewayInvariant, PTL

-----------------------------------------------------------------------------
(* Lists: in order, and picked. *)

\* A strict order of all members of a set.
Orders(before, S) ==
    /\ \A x \in S : <<x, x>> \notin before
    /\ \A x, y, z \in S : <<x, y>> \in before /\ <<y, z>> \in before => <<x, z>> \in before
    /\ \A x, y \in S : x = y \/ <<x, y>> \in before \/ <<y, x>> \in before

\* In order, a finite set is a list of its members, each of them once: a member's
\* place is told by the number of those before it.
LEMMA InOrderLists ==
    ASSUME NEW S, IsFiniteSet(S), NEW before, Orders(before, S),
           NEW list, list = InOrder(S, before)
    PROVE  /\ Cardinality(S) \in Nat
           /\ list \in [1..Cardinality(S) -> S]
           /\ \A x \in S : \E n \in 1..Cardinality(S) : list[n] = x
           /\ \A n, m \in 1..Cardinality(S) : <<list[n], list[m]>> \in before <=> n < m
           /\ \A n \in 1..Cardinality(S) :
                 Cardinality({y \in S : <<y, list[n]>> \in before}) = n - 1
<1> DEFINE size == Cardinality(S)
           earlier(x) == {y \in S : <<y, x>> \in before}
           rank == [x \in S |-> Cardinality(earlier(x))]
<1>1. size \in Nat /\ \A x \in S : IsFiniteSet(earlier(x)) /\ rank[x] \in Nat
  <2>1. size \in Nat
    BY FS_CardinalityType
  <2>2. ASSUME NEW x \in S
        PROVE  IsFiniteSet(earlier(x)) /\ Cardinality(earlier(x)) \in Nat
    <3>1. earlier(x) \in SUBSET S
      OBVIOUS
    <3> HIDE DEF earlier
    <3>2. IsFiniteSet(earlier(x))
      BY <3>1, FS_Subset
    <3> QED
      BY <3>2, FS_CardinalityType
  <2> HIDE DEF earlier
  <2> QED
    BY <2>1, <2>2
<1>2. ASSUME NEW x \in S
      PROVE  rank[x] \in 0..(size - 1)
  <2> DEFINE T == earlier(x)
  <2>1. T \in SUBSET S /\ T # S
    BY DEF Orders
  <2>2. rank[x] = Cardinality(T)
    OBVIOUS
  <2> HIDE DEF T, rank
  <2>3. Cardinality(T) <= size /\ (size = Cardinality(T) => S = T)
    BY <2>1, FS_Subset
  <2>4. rank[x] \in Nat /\ size \in Nat
    BY <1>1
  <2> HIDE DEF size
  <2> QED
    BY <2>1, <2>2, <2>3, <2>4
<1>3. ASSUME NEW x \in S, NEW y \in S, <<x, y>> \in before
      PROVE  rank[x] < rank[y]
  <2> DEFINE T == earlier(x)
             U == earlier(y)
  <2>1. T \in SUBSET U /\ T # U
    <3>1. x \in U /\ x \notin T
      BY <1>3 DEF Orders
    <3>2. T \in SUBSET U
      BY <1>3 DEF Orders
    <3> QED
      BY <3>1, <3>2
  <2>2. rank[x] = Cardinality(T) /\ rank[y] = Cardinality(U) /\ IsFiniteSet(U)
    BY <1>1
  <2>3. rank[x] \in Nat /\ rank[y] \in Nat
    BY <1>1
  <2> HIDE DEF T, U, rank
  <2>4. Cardinality(T) <= Cardinality(U) /\ (Cardinality(U) = Cardinality(T) => U = T)
    BY <2>1, <2>2, FS_Subset
  <2> QED
    BY <2>1, <2>2, <2>3, <2>4
<1>4. \A x \in S : rank[x] = Cardinality(earlier(x))
  OBVIOUS
<1>5. \A x, y \in S : rank[x] = rank[y] => x = y
  <2> HIDE DEF rank, earlier
  <2> TAKE x, y \in S
  <2>1. rank[x] \in Nat /\ rank[y] \in Nat
    BY <1>1
  <2>2. x = y \/ <<x, y>> \in before \/ <<y, x>> \in before
    BY DEF Orders
  <2>3. <<x, y>> \in before => rank[x] < rank[y]
    BY <1>3
  <2>4. <<y, x>> \in before => rank[y] < rank[x]
    BY <1>3
  <2> QED
    BY <2>1, <2>2, <2>3, <2>4
<1>6. rank \in [S -> 0..(size - 1)]
  <2> HIDE DEF size
  <2> SUFFICES \A x \in S : rank[x] \in 0..(size - 1)
    OBVIOUS
  <2> QED
    BY <1>2
<1>7. \A r \in 0..(size - 1) : \E x \in S : rank[x] = r
  <2> DEFINE T == 0..(size - 1)
  <2>1. IsFiniteSet(T) /\ Cardinality(T) = size
    <3>1. 0 \in Int /\ size - 1 \in Int
      BY <1>1
    <3>2. /\ IsFiniteSet(0..(size - 1))
          /\ Cardinality(0..(size - 1)) = IF 0 > size - 1 THEN 0 ELSE (size - 1) - 0 + 1
      BY <3>1, FS_Interval
    <3> HIDE DEF size
    <3> QED
      BY <1>1, <3>2
  <2>2. rank \in Injection(S, T)
    <3> HIDE DEF rank
    <3> QED
      BY <1>5, <1>6 DEF Injection, IsInjective
  <2> HIDE DEF rank, T
  <2>3. rank \in Surjection(S, T)
    BY <2>1, <2>2, FS_Injection
  <2> QED
    BY <2>3 DEF Surjection, T
<1> HIDE DEF rank
<1>8. ASSUME NEW n \in 1..size
      PROVE  list[n] \in S /\ rank[list[n]] = n - 1
  <2>1. n - 1 \in 0..(size - 1)
    BY <1>1
  <2>2. \E x \in S : Cardinality(earlier(x)) = n - 1
    BY <1>4, <1>7, <2>1
  <2>3. list[n] = CHOOSE x \in S : Cardinality(earlier(x)) = n - 1
    BY DEF InOrder
  <2> QED
    BY <1>4, <2>2, <2>3
<1>9. list \in [1..size -> S]
  <2> DEFINE at(n) == CHOOSE x \in S : Cardinality(earlier(x)) = n - 1
  <2>1. list = [n \in 1..size |-> at(n)]
    BY DEF InOrder
  <2> HIDE DEF size, at
  <2>2. \A n \in 1..size : at(n) \in S
    BY <1>8, <2>1
  <2> QED
    BY <2>1, <2>2
<1>10. ASSUME NEW x \in S
       PROVE  \E n \in 1..size : list[n] = x
  <2> DEFINE n == rank[x] + 1
  <2>1. n \in 1..size /\ rank[x] \in Nat
    BY <1>1, <1>2
  <2>2. list[n] \in S /\ rank[list[n]] = rank[x]
    BY <1>8, <2>1
  <2> QED
    BY <1>5, <2>1, <2>2
<1>11. ASSUME NEW n \in 1..size, NEW m \in 1..size
       PROVE  <<list[n], list[m]>> \in before <=> n < m
  <2> DEFINE x == list[n]
             y == list[m]
  <2>1. x \in S /\ y \in S /\ rank[x] = n - 1 /\ rank[y] = m - 1
    BY <1>8
  <2> HIDE DEF x, y
  <2>2. <<x, y>> \in before => rank[x] < rank[y]
    BY <1>3, <2>1
  <2>3. <<y, x>> \in before => rank[y] < rank[x]
    BY <1>3, <2>1
  <2>4. x = y \/ <<x, y>> \in before \/ <<y, x>> \in before
    BY <2>1 DEF Orders
  <2>5. <<x, y>> \in before <=> n < m
    BY <1>1, <2>1, <2>2, <2>3, <2>4
  <2> QED
    BY <2>5 DEF x, y
<1>12. \A n \in 1..size : Cardinality({y \in S : <<y, list[n]>> \in before}) = n - 1
  BY <1>4, <1>8
<1> QED
  BY <1>1, <1>9, <1>10, <1>11, <1>12

\* at: the places of what was picked.
Picks(at, p, list, places) ==
    /\ at \in [1..Len(p) -> places]
    /\ \A n \in 1..Len(p) : p[n] = list[at[n]]
    /\ \A i \in places : \E n \in 1..Len(p) : at[n] = i
    /\ \A n, m \in 1..Len(p) : at[n] < at[m] <=> n < m
    /\ \A n \in 1..Len(p) : Cardinality({j \in places : j < at[n]}) = n - 1

\* What is picked comes from these places and all of them, in their order.
LEMMA PickedLists ==
    ASSUME NEW S, NEW list \in Seq(S), NEW places \in SUBSET DOMAIN list,
           NEW p, p = Picked(list, places)
    PROVE  /\ p \in Seq({list[i] : i \in places})
           /\ Len(p) = Cardinality(places) /\ Cardinality(places) <= Len(list)
           /\ Range(p) = {list[i] : i \in places}
           /\ \E at : Picks(at, p, list, places)
<1> DEFINE before == {q \in places \X places : q[1] < q[2]}
           at == InOrder(places, before)
           size == Cardinality(places)
<1>1. /\ DOMAIN list = 1..Len(list) /\ Len(list) \in Nat /\ places \in SUBSET Nat
      /\ places \in SUBSET (1..Len(list))
  OBVIOUS
<1>2. IsFiniteSet(places) /\ size <= Len(list)
  <2>1. IsFiniteSet(1..Len(list)) /\ Cardinality(1..Len(list)) = Len(list)
    <3>1. 1 \in Int /\ Len(list) \in Int
      BY <1>1
    <3>2. /\ IsFiniteSet(1..Len(list))
          /\ Cardinality(1..Len(list)) = IF 1 > Len(list) THEN 0 ELSE Len(list) - 1 + 1
      BY <3>1, FS_Interval
    <3> QED
      BY <1>1, <3>2
  <2> QED
    BY <1>1, <2>1, FS_Subset
<1>3. \A i, j \in places : <<i, j>> \in before <=> i < j
  OBVIOUS
<1>4. Orders(before, places)
  <2> HIDE DEF before
  <2> QED
    BY <1>1, <1>3 DEF Orders
<1> HIDE DEF before
<1>5. /\ size \in Nat
      /\ at \in [1..size -> places]
      /\ \A i \in places : \E n \in 1..size : at[n] = i
      /\ \A n, m \in 1..size : <<at[n], at[m]>> \in before <=> n < m
      /\ \A n \in 1..size : Cardinality({j \in places : <<j, at[n]>> \in before}) = n - 1
  BY <1>2, <1>4, InOrderLists
<1>6. p = [n \in DOMAIN at |-> list[at[n]]]
  BY DEF Picked, before
<1> HIDE DEF at, size
<1>7. p \in [1..size -> {list[i] : i \in places}] /\ \A n \in 1..size : p[n] = list[at[n]]
  BY <1>5, <1>6
<1>8. p \in Seq({list[i] : i \in places}) /\ Len(p) = size
  BY <1>5, <1>7, AsSequence
<1>9. Range(p) = {list[i] : i \in places}
  <2>1. Range(p) = {p[n] : n \in 1..size}
    BY <1>7 DEF Range
  <2>2. ASSUME NEW n \in 1..size
        PROVE  p[n] \in {list[i] : i \in places}
    BY <1>5, <1>7
  <2>3. ASSUME NEW i \in places
        PROVE  \E n \in 1..size : p[n] = list[i]
    BY <1>5, <1>7
  <2> QED
    BY <2>1, <2>2, <2>3
<1>10. \A n, m \in 1..size : at[n] < at[m] <=> n < m
  BY <1>3, <1>5
<1>11. \A n \in 1..size : Cardinality({j \in places : j < at[n]}) = n - 1
  <2> TAKE n \in 1..size
  <2>1. {j \in places : j < at[n]} = {j \in places : <<j, at[n]>> \in before}
    BY <1>3, <1>5
  <2> QED
    BY <1>5, <2>1
<1>12. Picks(at, p, list, places)
  BY <1>5, <1>7, <1>8, <1>10, <1>11 DEF Picks
<1> QED
  BY <1>2, <1>8, <1>9, <1>12 DEF size

\* A search finds the keys that match; a traversal starts from the first of them.
LEMMA StartsFound ==
    ASSUME NEW graph, IsGraph(graph), NEW matches,
           NEW found, found = findNodes(graph, matches),
           NEW starts, starts = SubSeq(found, 1, IF Len(found) < MaxStarts THEN Len(found) ELSE MaxStarts)
    PROVE  /\ Range(found) = matches \cap KeysIn(graph)
           /\ starts \in Seq(KeysIn(graph)) /\ Len(starts) <= Len(graph.keys)
           /\ Range(starts) = Starts(graph, matches)
<1> DEFINE keys == graph.keys
           places == {i \in DOMAIN keys : keys[i] \in matches}
           few == IF Len(found) < MaxStarts THEN Len(found) ELSE MaxStarts
<1>1. keys \in Seq(SymbolKeys) /\ DOMAIN keys = 1..Len(keys) /\ Len(keys) \in Nat
  BY DEF IsGraph
<1>2. found = Picked(keys, places) /\ places \in SUBSET DOMAIN keys
  BY DEF findNodes
<1>3. /\ found \in Seq({keys[i] : i \in places})
      /\ Len(found) = Cardinality(places) /\ Cardinality(places) <= Len(keys)
      /\ Range(found) = {keys[i] : i \in places}
      /\ \E at : Picks(at, found, keys, places)
  <2> HIDE DEF places, keys
  <2> QED
    BY <1>1, <1>2, PickedLists
<1>4. {keys[i] : i \in places} = matches \cap KeysIn(graph)
  BY DEF KeysIn, Range
<1>5. found \in Seq(KeysIn(graph)) /\ Len(found) \in Nat
  <2>1. {keys[i] : i \in places} \in SUBSET KeysIn(graph)
    BY <1>4
  <2> HIDE DEF places, keys
  <2> QED
    BY <1>3, <2>1
<1>6. few \in 0..Len(found) /\ (few = Len(found) \/ few = MaxStarts) /\ few <= MaxStarts
      /\ MaxStarts \in Nat
  <2>1. MaxStarts \in Nat
    BY QueryAssumption
  <2> QED
    BY <1>5, <2>1
<1>7. /\ starts = SubSeq(found, 1, few)
  OBVIOUS
<1> HIDE DEF few
<1>8. /\ starts \in Seq(KeysIn(graph)) /\ Len(starts) = few /\ DOMAIN starts = 1..few
      /\ \A n \in 1..few : starts[n] = found[n]
  BY <1>5, <1>6, <1>7
<1>9. PICK at \in [1..Len(found) -> places] :
         /\ \A n \in 1..Len(found) : found[n] = keys[at[n]]
         /\ \A i \in places : \E n \in 1..Len(found) : at[n] = i
         /\ \A n, m \in 1..Len(found) : at[n] < at[m] <=> n < m
         /\ \A n \in 1..Len(found) : Cardinality({j \in places : j < at[n]}) = n - 1
  BY <1>3 DEF Picks
<1>10. ASSUME NEW n \in 1..Len(found)
       PROVE  /\ at[n] \in DOMAIN keys /\ keys[at[n]] \in matches
              /\ Cardinality({j \in 1..(at[n] - 1) : keys[j] \in matches}) = n - 1
  <2>1. at[n] \in DOMAIN keys /\ keys[at[n]] \in matches
    BY <1>9
  <2>2. {j \in 1..(at[n] - 1) : keys[j] \in matches} = {j \in places : j < at[n]}
    BY <1>1, <2>1
  <2> QED
    BY <1>9, <2>1, <2>2
<1>11. Range(starts) \subseteq Starts(graph, matches)
  <2> SUFFICES ASSUME NEW n \in 1..few
               PROVE  starts[n] \in Starts(graph, matches)
    BY <1>8 DEF Range
  <2>1. n \in 1..Len(found) /\ n - 1 < MaxStarts
    BY <1>5, <1>6
  <2>2. starts[n] = keys[at[n]]
    BY <1>8, <1>9, <2>1
  <2> QED
    BY <1>10, <2>1, <2>2 DEF Starts
<1>12. Starts(graph, matches) \subseteq Range(starts)
  <2> SUFFICES ASSUME NEW k \in matches, NEW i \in DOMAIN keys, keys[i] = k,
                      Cardinality({j \in 1..(i - 1) : keys[j] \in matches}) < MaxStarts
               PROVE  k \in Range(starts)
    BY DEF Starts
  <2>1. i \in places
    OBVIOUS
  <2>2. PICK n \in 1..Len(found) : at[n] = i
    BY <1>9, <2>1
  <2>3. n - 1 < MaxStarts
    BY <1>10, <2>2
  <2>4. n \in 1..few
    BY <1>5, <1>6, <2>3
  <2>5. starts[n] = k
    BY <1>8, <1>9, <2>2, <2>4
  <2> QED
    BY <1>8, <2>4, <2>5 DEF Range
<1>13. Len(starts) <= Len(graph.keys)
  BY <1>1, <1>3, <1>5, <1>6, <1>8
<1> QED
  BY <1>3, <1>4, <1>8, <1>11, <1>12, <1>13

-----------------------------------------------------------------------------
(* A traversal. *)

\* The pairs of keys a traversal follows.
Pairs(edges, direction) ==
    {<<Here(edges[i], direction), Beyond(edges[i], direction)>> : i \in DOMAIN edges}

\* Where the edges of a key lead.
After(edges, direction, key) == {p[2] : p \in {q \in Pairs(edges, direction) : q[1] = key}}

\* What is fresh is what the edges of the key lead to and was not visited, each
\* key once.
LEMMA FreshKeys ==
    ASSUME NEW S, NEW edges \in Seq(S), NEW direction, NEW key, NEW visited,
           NEW fresh, fresh = Fresh(edges, key, direction, visited)
    PROVE  /\ Range(fresh) = After(edges, direction, key) \ visited
           /\ fresh \in Seq(Range(fresh))
           /\ IsFiniteSet(Range(fresh)) /\ Len(fresh) = Cardinality(Range(fresh))
<1> DEFINE leadsTo(k) == {i \in DOMAIN edges : Here(edges[i], direction) = key
                                              /\ Beyond(edges[i], direction) = k}
           first == {i \in DOMAIN edges :
                       LET k == Beyond(edges[i], direction)
                       IN  k \notin visited /\ i \in leadsTo(k) /\ \A j \in leadsTo(k) : i <= j}
           list == [i \in DOMAIN edges |-> Beyond(edges[i], direction)]
           B == {Beyond(edges[i], direction) : i \in DOMAIN edges}
<1>1. DOMAIN edges = 1..Len(edges) /\ Len(edges) \in Nat
  OBVIOUS
<1>2. list \in Seq(B) /\ DOMAIN list = DOMAIN edges
  <2>1. list \in [1..Len(edges) -> B]
    BY <1>1
  <2> HIDE DEF list
  <2> QED
    BY <1>1, <2>1, AsSequence
<1>3. first \in SUBSET DOMAIN list
  BY <1>2
<1>4. fresh = Picked(list, first)
  BY DEF Fresh
<1>5. \A i \in DOMAIN edges : list[i] = Beyond(edges[i], direction)
  OBVIOUS
<1> HIDE DEF list
<1>6. /\ fresh \in Seq({list[i] : i \in first})
      /\ Range(fresh) = {list[i] : i \in first}
      /\ Len(fresh) = Cardinality(first)
      /\ \E at : Picks(at, fresh, list, first)
  <2> HIDE DEF first, B
  <2>1. list \in Seq(B) /\ first \in SUBSET DOMAIN list /\ fresh = Picked(list, first)
    BY <1>2, <1>3, <1>4
  <2> QED
    BY <2>1, PickedLists
<1>7. {list[i] : i \in first} \subseteq After(edges, direction, key) \ visited
  <2> SUFFICES ASSUME NEW i \in first
               PROVE  list[i] \in After(edges, direction, key) \ visited
    OBVIOUS
  <2>1. /\ i \in DOMAIN edges /\ Here(edges[i], direction) = key
        /\ Beyond(edges[i], direction) \notin visited
    OBVIOUS
  <2>2. <<key, Beyond(edges[i], direction)>> \in Pairs(edges, direction)
    BY <2>1 DEF Pairs
  <2> QED
    BY <1>5, <2>1, <2>2 DEF After
<1>8. After(edges, direction, key) \ visited \subseteq {list[i] : i \in first}
  <2> SUFFICES ASSUME NEW k \in After(edges, direction, key), k \notin visited
               PROVE  \E i \in first : list[i] = k
    OBVIOUS
  <2>1. PICK p \in Pairs(edges, direction) : p[1] = key /\ p[2] = k
    BY DEF After
  <2>2. PICK h \in DOMAIN edges : p = <<Here(edges[h], direction), Beyond(edges[h], direction)>>
    BY DEF Pairs
  <2>3. h \in leadsTo(k)
    BY <2>1, <2>2
  <2>4. leadsTo(k) \in SUBSET Nat
    BY <1>1
  <2>5. PICK i \in leadsTo(k) : \A j \in leadsTo(k) : i <= j
    <3> HIDE DEF leadsTo
    <3> QED
      BY <2>3, <2>4, NatMinimum
  <2>6. i \in DOMAIN edges /\ Beyond(edges[i], direction) = k
    OBVIOUS
  <2>7. i \in first
    <3> HIDE DEF leadsTo
    <3> QED
      BY <2>5, <2>6
  <2> QED
    BY <1>5, <2>6, <2>7
<1>9. \A i, j \in first : list[i] = list[j] => i = j
  <2> TAKE i, j \in first
  <2> HAVE list[i] = list[j]
  <2> DEFINE k == list[i]
  <2>1. /\ i \in DOMAIN edges /\ j \in DOMAIN edges
        /\ Beyond(edges[i], direction) = k /\ Beyond(edges[j], direction) = k
    BY <1>5
  <2>2. /\ i \in leadsTo(k) /\ \A m \in leadsTo(k) : i <= m
        /\ j \in leadsTo(k) /\ \A m \in leadsTo(k) : j <= m
    <3> HIDE DEF leadsTo, k
    <3> QED
      BY <2>1
  <2>3. i <= j /\ j <= i
    <3> HIDE DEF leadsTo
    <3> QED
      BY <2>2
  <2> QED
    BY <1>1, <2>1, <2>3
<1>10. fresh \in Seq(Range(fresh)) /\ Len(fresh) \in Nat
  BY <1>6
<1>11. fresh \in Bijection(1..Len(fresh), Range(fresh))
  <2>1. PICK at : Picks(at, fresh, list, first)
    BY <1>6
  <2> HIDE DEF first
  <2>2. \A n, m \in 1..Len(fresh) : fresh[n] = fresh[m] => n = m
    <3> TAKE n, m \in 1..Len(fresh)
    <3> HAVE fresh[n] = fresh[m]
    <3>1. at[n] \in first /\ at[m] \in first /\ list[at[n]] = list[at[m]]
      BY <2>1 DEF Picks
    <3>2. at[n] = at[m] /\ at[n] \in Nat
      BY <1>1, <1>2, <1>3, <1>9, <3>1
    <3>3. (at[n] < at[m] <=> n < m) /\ (at[m] < at[n] <=> m < n)
      BY <2>1 DEF Picks
    <3> QED
      BY <3>2, <3>3
  <2>3. fresh \in [1..Len(fresh) -> Range(fresh)]
    BY <1>10
  <2>4. \A x \in Range(fresh) : \E n \in 1..Len(fresh) : fresh[n] = x
    BY <1>10 DEF Range
  <2> QED
    BY <2>2, <2>3, <2>4 DEF Bijection, Injection, Surjection, IsInjective
<1>12. IsFiniteSet(Range(fresh)) /\ Len(fresh) = Cardinality(Range(fresh))
  <2>1. ExistsBijection(1..Len(fresh), Range(fresh))
    BY <1>11 DEF ExistsBijection
  <2>2. Cardinality(Range(fresh)) = Len(fresh)
    BY <1>10, <2>1, FS_CountingElements
  <2>3. IsFiniteSet(Range(fresh))
    BY <1>10, <2>1, FS_NatBijection
  <2> QED
    BY <2>2, <2>3
<1> QED
  BY <1>6, <1>7, <1>8, <1>10, <1>12

\* r is the queue q without its head, and behind it what is in F.
Follows(r, q, F) ==
    /\ \A i \in 1..Len(r) : \/ i + 1 <= Len(q) /\ r[i] = q[i + 1]
                            \/ i >= Len(q) /\ r[i] \in F
    /\ Range(r) \subseteq Range(q) \union F /\ F \subseteq Range(r)
    /\ \A x \in Range(q) : x = Head(q) \/ x \in Range(r)

\* A queue loses its head, and the fresh ones are behind the others.
LEMMA QueueGoesOn ==
    ASSUME NEW V, NEW q \in Seq(V), q # <<>>, NEW F, NEW fresh \in Seq(F), Range(fresh) = F,
           NEW r, r = Tail(q) \o fresh
    PROVE  r \in Seq(V \union F) /\ Len(r) = Len(q) - 1 + Len(fresh) /\ Follows(r, q, F)
<1>1. /\ Tail(q) \in Seq(V) /\ Len(Tail(q)) = Len(q) - 1 /\ Len(q) \in Nat \ {0}
      /\ \A i \in 1..(Len(q) - 1) : Tail(q)[i] = q[i + 1]
      /\ Head(q) = q[1] /\ DOMAIN q = 1..Len(q)
  OBVIOUS
<1>2. r \in Seq(V \union F) /\ Len(r) = Len(q) - 1 + Len(fresh) /\ DOMAIN r = 1..Len(r)
      /\ Len(fresh) \in Nat /\ DOMAIN fresh = 1..Len(fresh)
  BY <1>1
<1>3. \A i \in 1..Len(r) : r[i] = IF i <= Len(q) - 1 THEN Tail(q)[i] ELSE fresh[i - (Len(q) - 1)]
  BY <1>1, <1>2
<1>4. ASSUME NEW i \in 1..Len(r)
      PROVE  \/ i + 1 <= Len(q) /\ r[i] = q[i + 1]
             \/ i >= Len(q) /\ r[i] \in F
  <2>1. CASE i <= Len(q) - 1
    BY <1>1, <1>2, <1>3, <2>1
  <2>2. CASE i > Len(q) - 1
    <3>1. i - (Len(q) - 1) \in 1..Len(fresh)
      BY <1>1, <1>2, <2>2
    <3>2. r[i] \in F
      BY <1>1, <1>2, <1>3, <2>2, <3>1
    <3> QED
      BY <1>1, <1>2, <2>2, <3>2
  <2> QED
    BY <1>1, <1>2, <2>1, <2>2
<1>5. Range(r) \subseteq Range(q) \union F
  <2> SUFFICES ASSUME NEW i \in 1..Len(r)
               PROVE  r[i] \in Range(q) \union F
    BY <1>2 DEF Range
  <2>1. i + 1 <= Len(q) => i + 1 \in DOMAIN q
    BY <1>1, <1>2
  <2> QED
    BY <1>4, <2>1 DEF Range
<1>6. F \subseteq Range(r)
  <2> SUFFICES ASSUME NEW i \in 1..Len(fresh)
               PROVE  fresh[i] \in Range(r)
    BY <1>2 DEF Range
  <2>1. i + (Len(q) - 1) \in 1..Len(r) /\ r[i + (Len(q) - 1)] = fresh[i]
    BY <1>1, <1>2, <1>3
  <2> QED
    BY <1>2, <2>1 DEF Range
<1>7. \A x \in Range(q) : x = Head(q) \/ x \in Range(r)
  <2> SUFFICES ASSUME NEW i \in 1..Len(q)
               PROVE  q[i] = Head(q) \/ q[i] \in Range(r)
    BY <1>1 DEF Range
  <2>1. CASE i = 1
    BY <1>1, <2>1
  <2>2. CASE i # 1
    <3>1. i - 1 \in 1..Len(r) /\ i - 1 <= Len(q) - 1 /\ i - 1 \in 1..(Len(q) - 1) /\ i - 1 + 1 = i
      BY <1>1, <1>2, <2>2
    <3>2. r[i - 1] = Tail(q)[i - 1]
      BY <1>3, <3>1
    <3>3. Tail(q)[i - 1] = q[i]
      BY <1>1, <3>1
    <3>4. i - 1 \in DOMAIN r /\ r[i - 1] = q[i]
      BY <1>2, <3>1, <3>2, <3>3
    <3> QED
      BY <3>4 DEF Range
  <2> QED
    BY <2>1, <2>2
<1> QED
  BY <1>2, <1>4, <1>5, <1>6, <1>7 DEF Follows

\* What a traversal holds: keys to expand, and the depth of those visited.
Visits(U) ==
    [queue : Seq(U), depth : UNION {[V -> 0..MaxDepth] : V \in SUBSET U}]

\* What a round makes fresh.
FreshOf(edges, direction, s) ==
    IF s.depth[Head(s.queue)] >= MaxDepth THEN {}
    ELSE After(edges, direction, Head(s.queue)) \ DOMAIN s.depth

\* t is s after a round that made F fresh.
Grown(s, t, F) ==
    /\ \E fresh \in Seq(F) :
          /\ Range(fresh) = F /\ IsFiniteSet(F) /\ Len(fresh) = Cardinality(F)
          /\ t.queue = Tail(s.queue) \o fresh
    /\ DOMAIN t.depth = DOMAIN s.depth \union F
    /\ \A k \in DOMAIN s.depth \union F :
          t.depth[k] = IF k \in F THEN s.depth[Head(s.queue)] + 1 ELSE s.depth[k]
    /\ t = [queue |-> t.queue, depth |-> t.depth]
    /\ t.depth = [k \in DOMAIN t.depth |-> t.depth[k]]

\* A round takes the head of the queue, and puts what it makes fresh behind it,
\* one deeper.
LEMMA Expanded ==
    ASSUME NEW E, NEW graph, graph.edges \in Seq(E), NEW direction,
           NEW s, s.queue # <<>>, NEW t, t = Expand(graph, direction, s),
           NEW F, F = FreshOf(graph.edges, direction, s)
    PROVE  Grown(s, t, F)
<1> DEFINE key == Head(s.queue)
           fresh == IF s.depth[key] >= MaxDepth THEN <<>>
                    ELSE Fresh(graph.edges, key, direction, DOMAIN s.depth)
           deeper == [k \in DOMAIN s.depth \union Range(fresh) |->
                         IF k \in Range(fresh) THEN s.depth[key] + 1 ELSE s.depth[k]]
<1>1. t = [queue |-> Tail(s.queue) \o fresh, depth |-> deeper]
  BY DEF Expand, Enqueue
<1>2. /\ Range(fresh) = F /\ fresh \in Seq(F)
      /\ IsFiniteSet(F) /\ Len(fresh) = Cardinality(F)
  <2>1. CASE s.depth[key] >= MaxDepth
    <3>1. fresh = <<>> /\ F = {}
      BY <2>1 DEF FreshOf
    <3>2. IsFiniteSet({}) /\ Cardinality({}) = 0
      BY FS_EmptySet
    <3>3. Range(<<>>) = {} /\ <<>> \in Seq({}) /\ Len(<<>>) = 0
      BY DEF Range
    <3> QED
      BY <3>1, <3>2, <3>3
  <2>2. CASE ~(s.depth[key] >= MaxDepth)
    <3>1. /\ fresh = Fresh(graph.edges, key, direction, DOMAIN s.depth)
          /\ F = After(graph.edges, direction, key) \ DOMAIN s.depth
      BY <2>2 DEF FreshOf
    <3> HIDE DEF fresh, key
    <3>2. /\ Range(fresh) = After(graph.edges, direction, key) \ DOMAIN s.depth
          /\ fresh \in Seq(Range(fresh))
          /\ IsFiniteSet(Range(fresh)) /\ Len(fresh) = Cardinality(Range(fresh))
      BY <3>1, FreshKeys
    <3> QED
      BY <3>1, <3>2
  <2> QED
    BY <2>1, <2>2
<1> HIDE DEF fresh
<1>3. t.queue = Tail(s.queue) \o fresh /\ t.depth = deeper
  BY <1>1
<1>4. t = [queue |-> t.queue, depth |-> t.depth]
  BY <1>1, <1>3
<1>5. /\ DOMAIN deeper = DOMAIN s.depth \union F
      /\ \A k \in DOMAIN s.depth \union F :
            deeper[k] = IF k \in F THEN s.depth[key] + 1 ELSE s.depth[k]
      /\ deeper = [k \in DOMAIN deeper |-> deeper[k]]
  BY <1>2
<1> HIDE DEF deeper
<1> QED
  BY <1>2, <1>3, <1>4, <1>5 DEF Grown

\* What lies within a number of steps, computed.
LEMMA NearGrows ==
    ASSUME NEW starts, NEW pairs, NEW near, near = Within(starts, pairs)
    PROVE  /\ DOMAIN near = 0..MaxDepth /\ near[0] = starts
           /\ \A n \in 1..MaxDepth :
                 near[n] = near[n - 1] \union {p[2] : p \in {q \in pairs : q[1] \in near[n - 1]}}
<1> DEFINE next(S) == S \union {p[2] : p \in {q \in pairs : q[1] \in S}}
           U == starts \union {p[2] : p \in pairs}
           step == [x \in (1..MaxDepth) \X SUBSET U |-> next(x[2])]
           body(g) == [n \in 0..MaxDepth |-> IF n = 0 THEN starts ELSE next(g[n - 1])]
<1>1. near = CHOOSE g : g = body(g)
  BY DEF Within
<1>2. MaxDepth \in Nat
  BY QueryAssumption
<1>3. starts \in SUBSET U
  OBVIOUS
<1>4. step \in [(1..MaxDepth) \X SUBSET U -> SUBSET U]
  <2> SUFFICES ASSUME NEW S \in SUBSET U
               PROVE  next(S) \in SUBSET U
    OBVIOUS
  <2> QED
    OBVIOUS
<1>5. \A n \in 1..MaxDepth, S \in SUBSET U : step[<<n, S>>] = next(S)
  OBVIOUS
<1> HIDE DEF step, U, next
<1>6. PICK f \in [0..MaxDepth -> SUBSET U] : Recurs(f, MaxDepth, starts, step)
  BY <1>2, <1>3, <1>4, RecursionExists
<1>7. f = body(f)
  <2> SUFFICES ASSUME NEW n \in 0..MaxDepth
               PROVE  f[n] = IF n = 0 THEN starts ELSE next(f[n - 1])
    OBVIOUS
  <2>1. n # 0 => n \in 1..MaxDepth /\ n - 1 \in 0..MaxDepth
    BY <1>2
  <2>2. n # 0 => step[<<n, f[n - 1]>>] = next(f[n - 1])
    BY <1>5, <1>6, <2>1
  <2>3. f[n] = IF n = 0 THEN starts ELSE step[<<n, f[n - 1]>>]
    BY <1>6 DEF Recurs
  <2> QED
    BY <2>2, <2>3
<1>8. near = body(near)
  <2> HIDE DEF body
  <2> QED
    BY <1>1, <1>7
<1>9. \A n \in 1..MaxDepth : near[n] = next(near[n - 1])
  <2> TAKE n \in 1..MaxDepth
  <2>1. n \in 0..MaxDepth /\ n # 0
    BY <1>2
  <2> QED
    BY <1>8, <2>1
<1>10. DOMAIN near = 0..MaxDepth /\ near[0] = starts
  BY <1>2, <1>8
<1> QED
  BY <1>9, <1>10 DEF next

\* More steps lead to more.
LEMMA NearIsMonotone ==
    ASSUME NEW starts, NEW pairs, NEW near, near = Within(starts, pairs),
           NEW n \in 0..MaxDepth, NEW m \in 0..n
    PROVE  near[m] \subseteq near[n]
<1> DEFINE Less == {i \in m..n : ~(near[m] \subseteq near[i])}
<1>1. MaxDepth \in Nat
  BY QueryAssumption
<1>2. ASSUME Less # {}
      PROVE  FALSE
  <2>1. Less \in SUBSET Nat
    OBVIOUS
  <2>2. PICK i \in Less : \A j \in Less : i <= j
    <3> HIDE DEF Less
    <3> QED
      BY <1>2, <2>1, NatMinimum
  <2>3. i \in m..n /\ i # m
    OBVIOUS
  <2>4. i - 1 \in m..n /\ i - 1 \notin Less
    BY <2>2, <2>3
  <2>5. near[m] \subseteq near[i - 1]
    BY <2>4
  <2>6. i \in 1..MaxDepth
    BY <1>1, <2>3
  <2>7. near[i - 1] \subseteq near[i]
    BY <2>6, NearGrows
  <2> QED
    BY <2>5, <2>7
<1> QED
  BY <1>2

\* What holds of a traversal between two rounds.
Traversed(s, U, starts, near, pairs) ==
    /\ s \in Visits(U)
    /\ Range(s.queue) \subseteq DOMAIN s.depth
    /\ \A k \in starts : k \in DOMAIN s.depth /\ s.depth[k] = 0
    \* A path as long as its depth leads to a visited key.
    /\ \A k \in DOMAIN s.depth : k \in near[s.depth[k]]
    \* The queue is in order of depths, and its head is as deep as any key but one.
    /\ \A i, j \in 1..Len(s.queue) : i <= j => s.depth[s.queue[i]] <= s.depth[s.queue[j]]
    /\ s.queue # <<>> => \A k \in DOMAIN s.depth : s.depth[k] <= s.depth[s.queue[1]] + 1
    \* What was expanded has no edge to anything missed, or found too late.
    /\ \A p \in pairs :
          p[1] \in DOMAIN s.depth \ Range(s.queue) /\ s.depth[p[1]] < MaxDepth
          => p[2] \in DOMAIN s.depth /\ s.depth[p[2]] <= s.depth[p[1]] + 1

\* It holds at the start.
LEMMA TraversalStarts ==
    ASSUME NEW U, NEW list \in Seq(U), NEW pairs,
           NEW near, near = Within(Range(list), pairs),
           NEW s, s = [queue |-> list, depth |-> [k \in Range(list) |-> 0]]
    PROVE  Traversed(s, U, Range(list), near, pairs)
<1>1. MaxDepth \in Nat
  BY QueryAssumption
<1>2. Range(list) \in SUBSET U /\ DOMAIN list = 1..Len(list) /\ Len(list) \in Nat
  BY DEF Range
<1>3. s.queue = list /\ DOMAIN s.depth = Range(list) /\ \A k \in Range(list) : s.depth[k] = 0
  OBVIOUS
<1>4. s \in Visits(U)
  <2>1. [k \in Range(list) |-> 0] \in [Range(list) -> 0..MaxDepth]
    BY <1>1
  <2>2. s.depth \in UNION {[V -> 0..MaxDepth] : V \in SUBSET U}
    BY <1>2, <2>1
  <2> QED
    BY <1>3, <2>2 DEF Visits
<1>5. \A k \in DOMAIN s.depth : k \in near[s.depth[k]]
  BY <1>3, NearGrows
<1>6. \A i \in 1..Len(s.queue) : s.depth[s.queue[i]] = 0
  <2>1. \A i \in 1..Len(list) : list[i] \in Range(list)
    BY <1>2 DEF Range
  <2> QED
    BY <1>3, <2>1
<1>7. \A i, j \in 1..Len(s.queue) : i <= j => s.depth[s.queue[i]] <= s.depth[s.queue[j]]
  BY <1>6
<1>8. s.queue # <<>> => \A k \in DOMAIN s.depth : s.depth[k] <= s.depth[s.queue[1]] + 1
  <2>1. s.queue # <<>> => 1 \in 1..Len(s.queue)
    BY <1>2, <1>3
  <2> QED
    BY <1>3, <1>6, <2>1
<1> QED
  BY <1>3, <1>4, <1>5, <1>7, <1>8 DEF Traversed

\* A round keeps what holds of a traversal.
LEMMA RoundKeeps ==
    ASSUME NEW E, NEW graph, graph.edges \in Seq(E), NEW direction,
           NEW pairs, pairs = Pairs(graph.edges, direction),
           NEW starts, NEW near, near = Within(starts, pairs),
           NEW U, {p[2] : p \in pairs} \subseteq U,
           NEW s, Traversed(s, U, starts, near, pairs),
           NEW t, t = Expand(graph, direction, s)
    PROVE  Traversed(t, U, starts, near, pairs)
<1>1. CASE s.queue = <<>>
  BY <1>1 DEF Expand
<1>2. CASE s.queue # <<>>
  <2> DEFINE key == Head(s.queue)
             d == s.depth[key]
             F == FreshOf(graph.edges, direction, s)
             V == DOMAIN s.depth
  <2>1. /\ s.queue \in Seq(U) /\ V \in SUBSET U /\ s.depth \in [V -> 0..MaxDepth]
        /\ Range(s.queue) \subseteq V /\ MaxDepth \in Nat
    BY QueryAssumption DEF Traversed, Visits
  <2>2. /\ DOMAIN s.queue = 1..Len(s.queue) /\ Len(s.queue) \in Nat \ {0}
        /\ key = s.queue[1] /\ 1 \in 1..Len(s.queue)
    BY <1>2, <2>1
  <2>3. /\ \A i \in 1..Len(s.queue) : s.queue[i] \in Range(s.queue)
        /\ s.queue \in Seq(Range(s.queue))
    <3> DEFINE q == s.queue
    <3>1. q \in Seq(U)
      BY <2>1
    <3> HIDE DEF q
    <3>2. \A i \in 1..Len(q) : q[i] \in Range(q)
      BY <3>1 DEF Range
    <3>3. q \in Seq(Range(q))
      BY <3>1, <3>2
    <3> QED
      BY <3>2, <3>3 DEF q
  <2>4. key \in V /\ d \in 0..MaxDepth
    BY <2>1, <2>2, <2>3
  <2>g. Grown(s, t, F)
    <3> HIDE DEF F
    <3> QED
      BY <1>2, Expanded DEF F
  <2>5. PICK fresh \in Seq(F) :
           /\ Range(fresh) = F /\ IsFiniteSet(F) /\ Len(fresh) = Cardinality(F)
           /\ t.queue = Tail(s.queue) \o fresh
    BY <2>g DEF Grown
  <2>6. /\ DOMAIN t.depth = V \union F
        /\ \A k \in V \union F : t.depth[k] = IF k \in F THEN d + 1 ELSE s.depth[k]
        /\ t = [queue |-> t.queue, depth |-> t.depth]
        /\ t.depth = [k \in DOMAIN t.depth |-> t.depth[k]]
    BY <2>g DEF Grown
  <2>7. /\ F # {} => d + 1 \in 0..MaxDepth
        /\ \A k \in F : k \notin V /\ <<key, k>> \in pairs /\ k \in U
        /\ d < MaxDepth => \A p \in pairs : p[1] = key => p[2] \in V \union F
    <3>1. F # {} => d < MaxDepth
      BY <2>1, <2>4 DEF FreshOf
    <3>2. \A p \in pairs : p = <<p[1], p[2]>>
      BY DEF Pairs
    <3>3. ASSUME NEW k \in F
          PROVE  k \notin V /\ <<key, k>> \in pairs /\ k \in U
      <4>1. k \in After(graph.edges, direction, key) /\ k \notin V
        BY DEF FreshOf
      <4>2. PICK p \in pairs : p[1] = key /\ p[2] = k
        BY <4>1 DEF After
      <4> QED
        BY <3>2, <4>1, <4>2
    <3>4. ASSUME d < MaxDepth, NEW p \in pairs, p[1] = key
          PROVE  p[2] \in V \union F
      <4>1. p[2] \in After(graph.edges, direction, key)
        BY <3>4 DEF After
      <4>2. F = After(graph.edges, direction, key) \ V
        BY <2>1, <2>4, <3>4 DEF FreshOf
      <4> QED
        BY <4>1, <4>2
    <3> QED
      BY <2>1, <2>4, <3>1, <3>3, <3>4
  <2> DEFINE R == Range(s.queue)
  <2>8. /\ t.queue \in Seq(R \union F) /\ Len(t.queue) = Len(s.queue) - 1 + Len(fresh)
        /\ \A i \in 1..Len(t.queue) : \/ i + 1 <= Len(s.queue) /\ t.queue[i] = s.queue[i + 1]
                                      \/ i >= Len(s.queue) /\ t.queue[i] \in F
        /\ Range(t.queue) \subseteq R \union F /\ F \subseteq Range(t.queue)
        /\ \A x \in R : x = key \/ x \in Range(t.queue)
    <3> DEFINE q == s.queue
               r == t.queue
    <3>1. q \in Seq(R) /\ q # <<>> /\ fresh \in Seq(F) /\ Range(fresh) = F /\ r = Tail(q) \o fresh
      BY <1>2, <2>3, <2>5
    <3>2. R = Range(q) /\ key = Head(q)
      OBVIOUS
    <3> HIDE DEF q, r, R, F, key
    <3>a. r \in Seq(R \union F)
      BY <3>1, QueueGoesOn
    <3>b. Len(r) = Len(q) - 1 + Len(fresh)
      BY <3>1, QueueGoesOn
    <3>c. Follows(r, q, F)
      BY <3>1, QueueGoesOn
    <3>3. r \in Seq(R \union F) /\ Len(r) = Len(q) - 1 + Len(fresh) /\ Follows(r, q, F)
      BY <3>a, <3>b, <3>c
    <3> QED
      BY <3>2, <3>3 DEF Follows, q, r
  <2> HIDE DEF F, key, d, V
  <2>9. Range(t.queue) \subseteq DOMAIN t.depth
    BY <2>1, <2>6, <2>8
  <2>10. t \in Visits(U)
    <3>1. V \union F \in SUBSET U
      BY <2>1, <2>7
    <3>2. t.queue \in Seq(U)
      <4> DEFINE W == R \union F
      <4>1. t.queue \in Seq(W) /\ W \subseteq U
        BY <2>1, <2>7, <2>8
      <4> HIDE DEF W
      <4> QED
        BY <4>1
    <3>3. \A k \in V \union F : t.depth[k] \in 0..MaxDepth
      BY <2>1, <2>6, <2>7
    <3>4. t.depth \in [V \union F -> 0..MaxDepth]
      <4> DEFINE W == V \union F
      <4>1. DOMAIN t.depth = W /\ \A k \in W : t.depth[k] \in 0..MaxDepth
        BY <2>6, <3>3
      <4> HIDE DEF W
      <4>2. t.depth = [k \in W |-> t.depth[k]]
        BY <2>6, <4>1
      <4>3. t.depth \in [W -> 0..MaxDepth]
        BY <4>1, <4>2
      <4> QED
        BY <4>3 DEF W
    <3>5. t.depth \in UNION {[W -> 0..MaxDepth] : W \in SUBSET U}
      BY <3>1, <3>4
    <3> QED
      BY <2>6, <3>2, <3>5 DEF Visits
  <2>11. \A k \in starts : k \in DOMAIN t.depth /\ t.depth[k] = 0
    <3> TAKE k \in starts
    <3>1. k \in V /\ s.depth[k] = 0
      BY DEF Traversed, V
    <3>2. k \notin F
      BY <2>7, <3>1
    <3> QED
      BY <2>6, <3>1, <3>2
  <2>12. \A k \in DOMAIN t.depth : k \in near[t.depth[k]]
    <3> TAKE k \in DOMAIN t.depth
    <3>1. CASE k \in F
      <4>1. t.depth[k] = d + 1 /\ d + 1 \in 1..MaxDepth /\ <<key, k>> \in pairs
        BY <2>1, <2>4, <2>6, <2>7, <3>1
      <4>2. key \in near[d]
        BY <2>4 DEF Traversed, d, V
      <4> DEFINE n == d + 1
      <4>3. near[n] = near[n - 1] \union {p[2] : p \in {q \in pairs : q[1] \in near[n - 1]}}
        <5>1. n \in 1..MaxDepth
          BY <4>1
        <5> HIDE DEF n
        <5> QED
          BY <5>1, NearGrows
      <4>4. k \in near[n]
        <5>1. n - 1 = d
          BY <2>4
        <5> HIDE DEF n
        <5> QED
          BY <4>1, <4>2, <4>3, <5>1
      <4> QED
        BY <4>1, <4>4
    <3>2. CASE k \notin F
      <4>1. k \in V /\ t.depth[k] = s.depth[k]
        BY <2>6, <3>2
      <4> QED
        BY <4>1 DEF Traversed, V
    <3> QED
      BY <3>1, <3>2
  <2>13. /\ \A k \in V : s.depth[k] \in 0..MaxDepth /\ s.depth[k] <= d + 1
         /\ \A i, j \in 1..Len(s.queue) : i <= j => s.depth[s.queue[i]] <= s.depth[s.queue[j]]
         /\ \A i \in 1..Len(s.queue) : s.queue[i] \in V /\ s.queue[i] \notin F /\ d <= s.depth[s.queue[i]]
    <3>1. \A k \in V : s.depth[k] <= d + 1
      BY <1>2, <2>2 DEF Traversed, V, d
    <3>2. \A i, j \in 1..Len(s.queue) : i <= j => s.depth[s.queue[i]] <= s.depth[s.queue[j]]
      BY DEF Traversed
    <3>3. \A i \in 1..Len(s.queue) : s.queue[i] \in V /\ s.queue[i] \notin F
      BY <2>1, <2>3, <2>7
    <3>4. \A i \in 1..Len(s.queue) : d <= s.depth[s.queue[i]]
      BY <2>2, <3>2 DEF d
    <3> QED
      BY <2>1, <3>1, <3>2, <3>3, <3>4
  <2>14. ASSUME NEW i \in 1..Len(t.queue)
         PROVE  \/ /\ i + 1 \in 1..Len(s.queue) /\ t.queue[i] = s.queue[i + 1]
                   /\ t.depth[t.queue[i]] = s.depth[s.queue[i + 1]]
                \/ i >= Len(s.queue) /\ t.depth[t.queue[i]] = d + 1
    <3>1. CASE i + 1 <= Len(s.queue) /\ t.queue[i] = s.queue[i + 1]
      <4>1. i + 1 \in 1..Len(s.queue)
        BY <2>2, <3>1
      <4> QED
        BY <2>6, <2>13, <3>1, <4>1
    <3>2. CASE i >= Len(s.queue) /\ t.queue[i] \in F
      BY <2>6, <3>2
    <3> QED
      BY <2>8, <3>1, <3>2
  <2>15. \A i, j \in 1..Len(t.queue) : i <= j => t.depth[t.queue[i]] <= t.depth[t.queue[j]]
    <3> TAKE i, j \in 1..Len(t.queue)
    <3> HAVE i <= j
    <3>1. CASE i + 1 \in 1..Len(s.queue) /\ t.depth[t.queue[i]] = s.depth[s.queue[i + 1]]
               /\ j + 1 \in 1..Len(s.queue) /\ t.depth[t.queue[j]] = s.depth[s.queue[j + 1]]
      <4>1. i + 1 <= j + 1
        OBVIOUS
      <4> QED
        BY <2>13, <3>1, <4>1
    <3>2. CASE i + 1 \in 1..Len(s.queue) /\ t.depth[t.queue[i]] = s.depth[s.queue[i + 1]]
               /\ t.depth[t.queue[j]] = d + 1
      BY <2>13, <3>2
    <3>3. CASE t.depth[t.queue[i]] = d + 1 /\ t.depth[t.queue[j]] = d + 1
      BY <2>4, <3>3
    <3>4. ~(i >= Len(s.queue) /\ j + 1 \in 1..Len(s.queue))
      BY <2>2
    <3> QED
      BY <2>14, <3>1, <3>2, <3>3, <3>4
  <2>16. ASSUME t.queue # <<>>
         PROVE  \A k \in DOMAIN t.depth : t.depth[k] <= t.depth[t.queue[1]] + 1
    <3>1. 1 \in 1..Len(t.queue)
      BY <2>8, <2>16
    <3>2. d <= t.depth[t.queue[1]] /\ t.depth[t.queue[1]] \in Nat
      <4>1. CASE 1 + 1 \in 1..Len(s.queue) /\ t.depth[t.queue[1]] = s.depth[s.queue[1 + 1]]
        BY <2>1, <2>13, <4>1
      <4>2. CASE t.depth[t.queue[1]] = d + 1
        BY <2>4, <4>2
      <4> QED
        BY <2>14, <3>1, <4>1, <4>2
    <3>3. \A k \in DOMAIN t.depth : t.depth[k] <= d + 1 /\ t.depth[k] \in Int
      BY <2>1, <2>4, <2>6, <2>13
    <3> QED
      BY <2>4, <3>2, <3>3
  <2>17. ASSUME NEW p \in pairs, p[1] \in DOMAIN t.depth \ Range(t.queue), t.depth[p[1]] < MaxDepth
         PROVE  p[2] \in DOMAIN t.depth /\ t.depth[p[2]] <= t.depth[p[1]] + 1
    <3>1. p[1] \in V /\ p[1] \notin F /\ t.depth[p[1]] = s.depth[p[1]]
      BY <2>6, <2>8, <2>17
    <3>2. CASE p[1] = key
      <4>1. t.depth[p[1]] = d /\ d < MaxDepth
        BY <2>17, <3>1, <3>2 DEF d
      <4>2. p[2] \in V \union F
        BY <2>7, <3>2, <4>1
      <4>3. t.depth[p[2]] <= d + 1
        BY <2>4, <2>6, <2>13, <4>2
      <4> QED
        BY <2>6, <4>1, <4>2, <4>3
    <3>3. CASE p[1] # key
      <4>1. p[1] \notin R
        BY <2>8, <2>17, <3>3
      <4>2. p[2] \in V /\ s.depth[p[2]] <= s.depth[p[1]] + 1
        BY <2>17, <3>1, <4>1 DEF Traversed, V
      <4>3. t.depth[p[2]] = s.depth[p[2]]
        BY <2>6, <2>7, <4>2
      <4> QED
        BY <2>6, <3>1, <4>2, <4>3
    <3> QED
      BY <3>2, <3>3
  <2> QED
    BY <2>9, <2>10, <2>11, <2>12, <2>15, <2>16, <2>17 DEF Traversed
<1> QED
  BY <1>1, <1>2

\* From s to t a key was taken from the queue, and each key entered was not
\* visited before.
Counted(s, t, starts) ==
    /\ IsFiniteSet(DOMAIN t.depth \ starts)
    /\ Len(t.queue) + Cardinality(DOMAIN s.depth \ starts) + 1
          = Len(s.queue) + Cardinality(DOMAIN t.depth \ starts)

\* A round takes a key from the queue and enters each key once: no more keys are
\* expanded than were started from and found.
LEMMA RoundCounts ==
    ASSUME NEW E, NEW graph, graph.edges \in Seq(E), NEW direction,
           NEW s, s.queue # <<>>, NEW U, s \in Visits(U),
           NEW starts, starts \subseteq DOMAIN s.depth, IsFiniteSet(DOMAIN s.depth \ starts),
           NEW t, t = Expand(graph, direction, s)
    PROVE  Counted(s, t, starts)
<1> DEFINE F == FreshOf(graph.edges, direction, s)
           V == DOMAIN s.depth
<1>g. Grown(s, t, F)
  <2> HIDE DEF F
  <2> QED
    BY Expanded DEF F
<1>1. PICK fresh \in Seq(F) :
         /\ Range(fresh) = F /\ IsFiniteSet(F) /\ Len(fresh) = Cardinality(F)
         /\ t.queue = Tail(s.queue) \o fresh
  BY <1>g DEF Grown
<1>2. DOMAIN t.depth = V \union F
  BY <1>g DEF Grown
<1>3. F \cap V = {}
  BY DEF FreshOf
<1>4. s.queue \in Seq(U)
  BY DEF Visits
<1> HIDE DEF F
<1>5. Len(t.queue) = Len(s.queue) - 1 + Len(fresh) /\ Len(s.queue) \in Nat
  <2>1. Tail(s.queue) \in Seq(U) /\ Len(Tail(s.queue)) = Len(s.queue) - 1 /\ Len(s.queue) \in Nat
    BY <1>4
  <2>2. Len(Tail(s.queue) \o fresh) = Len(Tail(s.queue)) + Len(fresh)
    BY <2>1
  <2> QED
    BY <1>1, <2>1, <2>2
<1> DEFINE new == V \ starts
           new2 == DOMAIN t.depth \ starts
<1>6. new2 = new \union F /\ new \cap F = {}
  BY <1>2, <1>3
<1>7. IsFiniteSet(new) /\ IsFiniteSet(F)
  BY <1>1
<1> HIDE DEF new, new2
<1>8. /\ IsFiniteSet(new \union F)
      /\ Cardinality(new \union F) = Cardinality(new) + Cardinality(F) - Cardinality(new \cap F)
  BY <1>7, FS_Union
<1>9. Cardinality(new) \in Nat /\ Cardinality(F) \in Nat /\ Cardinality(new \cap F) = 0
  BY <1>6, <1>7, FS_CardinalityType, FS_EmptySet
<1>10. IsFiniteSet(new2) /\ Len(t.queue) + Cardinality(new) + 1 = Len(s.queue) + Cardinality(new2)
  BY <1>1, <1>5, <1>6, <1>8, <1>9
<1> QED
  BY <1>10 DEF Counted, new, new2

\* depths: the keys within MaxDepth steps, each with the number it takes.
Exact(depths, near) ==
    /\ DOMAIN depths = near[MaxDepth]
    /\ \A k \in near[MaxDepth], n \in 0..MaxDepth : k \in near[n] <=> depths[k] <= n

\* With nothing left to expand, a traversal has visited exactly what lies within
\* MaxDepth steps, by the shortest way.
LEMMA TraversalIsExact ==
    ASSUME NEW starts, NEW pairs, NEW near, near = Within(starts, pairs),
           NEW U, NEW s, Traversed(s, U, starts, near, pairs), s.queue = <<>>
    PROVE  Exact(s.depth, near)
<1> DEFINE V == DOMAIN s.depth
           Late == {n \in 0..MaxDepth : \E k \in near[n] : ~(k \in V /\ s.depth[k] <= n)}
<1>1. MaxDepth \in Nat /\ \A k \in V : s.depth[k] \in 0..MaxDepth
  BY QueryAssumption DEF Traversed, Visits
<1>2. \A k \in V : k \in near[s.depth[k]]
  BY DEF Traversed
<1>3. \A p \in pairs : p[1] \in V /\ s.depth[p[1]] < MaxDepth
                       => p[2] \in V /\ s.depth[p[2]] <= s.depth[p[1]] + 1
  <2>1. Range(s.queue) = {}
    BY DEF Range
  <2> QED
    BY <2>1 DEF Traversed
<1>4. \A k \in starts : k \in V /\ s.depth[k] = 0
  BY DEF Traversed
<1> HIDE DEF V
<1>5. ASSUME Late # {}
      PROVE  FALSE
  <2>1. Late \in SUBSET Nat
    BY <1>1
  <2>2. PICK n \in Late : \A i \in Late : n <= i
    <3> HIDE DEF Late
    <3> QED
      BY <1>5, <2>1, NatMinimum
  <2>3. PICK k \in near[n] : ~(k \in V /\ s.depth[k] <= n)
    BY <2>2
  <2>4. n # 0
    BY <1>4, <2>3, NearGrows
  <2>5. n \in 1..MaxDepth /\ n - 1 \in 0..MaxDepth /\ n - 1 \notin Late
    BY <1>1, <2>2, <2>4
  <2>6. near[n] = near[n - 1] \union {p[2] : p \in {q \in pairs : q[1] \in near[n - 1]}}
    BY <2>5, NearGrows
  <2>7. \A j \in near[n - 1] : j \in V /\ s.depth[j] <= n - 1
    BY <2>5
  <2>8. CASE k \in near[n - 1]
    BY <1>1, <2>3, <2>5, <2>7, <2>8
  <2>9. CASE k \notin near[n - 1]
    <3>1. PICK p \in pairs : p[1] \in near[n - 1] /\ p[2] = k
      BY <2>3, <2>6, <2>9
    <3>2. p[1] \in V /\ s.depth[p[1]] <= n - 1
      BY <2>7, <3>1
    <3>3. s.depth[p[1]] < MaxDepth
      BY <1>1, <2>5, <3>2
    <3>4. k \in V /\ s.depth[k] <= s.depth[p[1]] + 1
      BY <1>3, <3>1, <3>2, <3>3
    <3> QED
      BY <1>1, <2>3, <2>5, <3>2, <3>4
  <2> QED
    BY <2>8, <2>9
<1>6. \A n \in 0..MaxDepth : \A k \in near[n] : k \in V /\ s.depth[k] <= n
  BY <1>5
<1>7. \A n \in 0..MaxDepth : \A k \in V : s.depth[k] <= n => k \in near[n]
  <2> TAKE n \in 0..MaxDepth
  <2> TAKE k \in V
  <2> HAVE s.depth[k] <= n
  <2>1. s.depth[k] \in 0..n
    BY <1>1
  <2>2. near[s.depth[k]] \subseteq near[n]
    BY <2>1, NearIsMonotone
  <2> QED
    BY <1>2, <2>2
<1>8. V = near[MaxDepth]
  <2>1. MaxDepth \in 0..MaxDepth
    BY <1>1
  <2>2. V \subseteq near[MaxDepth]
    BY <1>1, <1>7, <2>1
  <2>3. near[MaxDepth] \subseteq V
    BY <1>6, <2>1
  <2> QED
    BY <2>2, <2>3
<1> QED
  BY <1>6, <1>7, <1>8 DEF Exact, V

\* The ends of the edges are at most as many as the edges.
LEMMA EndsAreFew ==
    ASSUME NEW E, NEW edges \in Seq(E), NEW direction
    PROVE  /\ IsFiniteSet({p[2] : p \in Pairs(edges, direction)})
           /\ Cardinality({p[2] : p \in Pairs(edges, direction)}) <= Len(edges)
<1> DEFINE list == [i \in 1..Len(edges) |-> Beyond(edges[i], direction)]
<1>1. Len(edges) \in Nat /\ DOMAIN edges = 1..Len(edges)
  OBVIOUS
<1>2. IsFiniteSet(1..Len(edges)) /\ Cardinality(1..Len(edges)) = Len(edges)
  <2>1. 1 \in Int /\ Len(edges) \in Int
    BY <1>1
  <2>2. /\ IsFiniteSet(1..Len(edges))
        /\ Cardinality(1..Len(edges)) = IF 1 > Len(edges) THEN 0 ELSE Len(edges) - 1 + 1
    BY <2>1, FS_Interval
  <2> QED
    BY <1>1, <2>2
<1>3. {p[2] : p \in Pairs(edges, direction)} = {list[i] : i \in 1..Len(edges)}
  <2>1. ASSUME NEW p \in Pairs(edges, direction)
        PROVE  \E i \in 1..Len(edges) : p[2] = list[i]
    BY <1>1 DEF Pairs
  <2>2. ASSUME NEW i \in 1..Len(edges)
        PROVE  \E p \in Pairs(edges, direction) : p[2] = list[i]
    <3>1. <<Here(edges[i], direction), Beyond(edges[i], direction)>> \in Pairs(edges, direction)
      BY <1>1 DEF Pairs
    <3> QED
      BY <3>1
  <2> HIDE DEF list
  <2> QED
    BY <2>1, <2>2
<1> HIDE DEF list
<1>4. /\ IsFiniteSet({list[i] : i \in 1..Len(edges)})
      /\ Cardinality({list[i] : i \in 1..Len(edges)}) <= Cardinality(1..Len(edges))
  BY <1>2, ImageIsFinite
<1> QED
  BY <1>2, <1>3, <1>4

\* A traversal after n rounds.
AfterRounds(after, graph, starts, direction) ==
    /\ after[0] = [queue |-> starts, depth |-> [k \in Range(starts) |-> 0]]
    /\ \A n \in 1..Rounds(graph) : after[n] = Expand(graph, direction, after[n - 1])

\* What a traversal returns is reached round by round, and every round leaves it
\* in order.
LEMMA TraversalByRounds ==
    ASSUME NEW graph, IsGraph(graph), NEW direction,
           NEW starts \in Seq(KeysIn(graph)),
           NEW pairs, pairs = Pairs(graph.edges, direction),
           NEW near, near = Within(Range(starts), pairs),
           NEW U, U = Range(starts) \union {p[2] : p \in pairs}
    PROVE  \E after :
              /\ bfsTraverse(graph, starts, direction) = after[Rounds(graph)].depth
              /\ AfterRounds(after, graph, starts, direction)
              /\ \A n \in 0..Rounds(graph) : Traversed(after[n], U, Range(starts), near, pairs)
<1> DEFINE N == Rounds(graph)
           base == [queue |-> starts, depth |-> [k \in Range(starts) |-> 0]]
           body(g) == [n \in 0..N |-> IF n = 0 THEN base ELSE Expand(graph, direction, g[n - 1])]
           S == {s \in Visits(U) : Traversed(s, U, Range(starts), near, pairs)}
           step == [x \in (1..N) \X S |-> Expand(graph, direction, x[2])]
           after == CHOOSE g : g = body(g)
<1>1. N \in Nat /\ graph.edges \in Seq([from : STRING, to : STRING])
  <2> DEFINE keys == graph.keys
             edges == graph.edges
  <2>1. keys \in Seq(SymbolKeys) /\ edges \in Seq([from : STRING, to : STRING])
    BY DEF IsGraph
  <2>2. N = Len(keys) + Len(edges)
    BY DEF Rounds
  <2> HIDE DEF keys, edges, N
  <2>3. Len(keys) \in Nat /\ Len(edges) \in Nat
    BY <2>1
  <2>4. N \in Nat
    BY <2>2, <2>3
  <2> QED
    BY <2>1, <2>4 DEF edges
<1>2. bfsTraverse(graph, starts, direction) = after[N].depth
  BY DEF bfsTraverse
<1>3. base \in S
  <2>1. starts \in Seq(U)
    <3>1. \A i \in 1..Len(starts) : starts[i] \in U
      BY DEF Range
    <3>2. starts \in [1..Len(starts) -> U] /\ Len(starts) \in Nat
      BY <3>1
    <3> QED
      BY <3>2, AsSequence
  <2> HIDE DEF base
  <2>2. base = [queue |-> starts, depth |-> [k \in Range(starts) |-> 0]]
    BY DEF base
  <2>3. Traversed(base, U, Range(starts), near, pairs)
    BY <2>1, <2>2, TraversalStarts
  <2> QED
    BY <2>3 DEF Traversed
<1>4. ASSUME NEW s \in S
      PROVE  Expand(graph, direction, s) \in S
  <2>1. {p[2] : p \in pairs} \subseteq U
    OBVIOUS
  <2>2. Traversed(Expand(graph, direction, s), U, Range(starts), near, pairs)
    BY <1>1, <2>1, RoundKeeps
  <2> QED
    BY <2>2 DEF Traversed
<1> HIDE DEF S, N, base
<1>5. step \in [(1..N) \X S -> S] /\ \A n \in 1..N, s \in S : step[<<n, s>>] = Expand(graph, direction, s)
  BY <1>4
<1> HIDE DEF step
<1>6. PICK f \in [0..N -> S] : Recurs(f, N, base, step)
  BY <1>1, <1>3, <1>5, RecursionExists
<1>7. ASSUME NEW n \in 1..N
      PROVE  n \in 0..N /\ n - 1 \in 0..N /\ f[n] = Expand(graph, direction, f[n - 1])
  <2>1. n \in 0..N /\ n - 1 \in 0..N /\ n # 0
    BY <1>1
  <2>2. f[n] = step[<<n, f[n - 1]>>]
    BY <1>6, <2>1 DEF Recurs
  <2> QED
    BY <1>5, <1>6, <2>1, <2>2
<1>8. f[0] = base
  <2>1. 0 \in 0..N
    BY <1>1
  <2>2. \A n \in 0..N : n = 0 => f[n] = base
    BY <1>6 DEF Recurs
  <2> QED
    BY <2>1, <2>2
<1>9. f = body(f)
  <2> SUFFICES ASSUME NEW n \in 0..N
               PROVE  f[n] = IF n = 0 THEN base ELSE Expand(graph, direction, f[n - 1])
    BY <1>6
  <2>1. n # 0 => n \in 1..N
    BY <1>1
  <2> QED
    BY <1>7, <1>8, <2>1
<1>10. after = body(after)
  <2> HIDE DEF body
  <2> QED
    BY <1>9
<1> HIDE DEF after
<1>11. /\ after[0] = base
       /\ \A n \in 1..N : after[n] = Expand(graph, direction, after[n - 1])
  <2>1. 0 \in 0..N /\ \A n \in 1..N : n \in 0..N /\ n # 0
    BY <1>1
  <2> QED
    BY <1>10, <2>1
<1> DEFINE Differ == {n \in 0..N : after[n] # f[n]}
<1>12. ASSUME Differ # {}
       PROVE  FALSE
  <2>1. Differ \in SUBSET Nat
    BY <1>1
  <2>2. PICK n \in Differ : \A i \in Differ : n <= i
    <3> HIDE DEF Differ
    <3> QED
      BY <1>12, <2>1, NatMinimum
  <2>3. n \in 1..N
    BY <1>1, <1>8, <1>11, <2>2
  <2>4. n - 1 \in 0..N /\ n - 1 \notin Differ
    BY <1>1, <2>2, <2>3
  <2>5. after[n - 1] = f[n - 1]
    BY <2>4
  <2>6. after[n] = f[n]
    BY <1>7, <1>11, <2>3, <2>5
  <2> QED
    BY <2>2, <2>6
<1>13. \A n \in 0..N : Traversed(after[n], U, Range(starts), near, pairs)
  <2>1. \A n \in 0..N : after[n] \in S
    BY <1>6, <1>12
  <2> QED
    BY <2>1 DEF S
<1> QED
  BY <1>2, <1>11, <1>13 DEF AfterRounds, N, base

\* A traversal visits exactly the keys within MaxDepth steps, each at the length
\* of the shortest way: there are rounds enough to empty the queue, as each key is
\* queued once.
LEMMA TraversalVisits ==
    ASSUME NEW graph, IsGraph(graph), NEW direction,
           NEW starts \in Seq(KeysIn(graph)), Len(starts) <= Len(graph.keys),
           NEW near, near = Within(Range(starts), Pairs(graph.edges, direction))
    PROVE  Exact(bfsTraverse(graph, starts, direction), near)
<1> DEFINE N == Rounds(graph)
           keys == graph.keys
           edges == graph.edges
           B == Range(starts)
           pairs == Pairs(edges, direction)
           ends == {p[2] : p \in pairs}
           U == B \union ends
<1>1. /\ keys \in Seq(SymbolKeys) /\ edges \in Seq([from : STRING, to : STRING])
      /\ N = Len(keys) + Len(edges)
  BY DEF IsGraph, Rounds
<1> HIDE DEF N
<1>2. Len(keys) \in Nat /\ Len(edges) \in Nat /\ N \in Nat
  <2> HIDE DEF keys, edges
  <2> QED
    BY <1>1
<1>3. PICK after :
         /\ bfsTraverse(graph, starts, direction) = after[N].depth
         /\ AfterRounds(after, graph, starts, direction)
         /\ \A n \in 0..N : Traversed(after[n], U, B, near, pairs)
  BY TraversalByRounds DEF N
<1>4. IsFiniteSet(ends) /\ Cardinality(ends) <= Len(edges)
  <2> HIDE DEF edges
  <2> QED
    BY <1>1, EndsAreFew
<1> HIDE DEF keys, edges, pairs, ends, B
<1> DEFINE new(n) == DOMAIN after[n].depth \ B
           waiting(n) == after[n].queue
<1>5. ASSUME NEW n \in 0..N
      PROVE  /\ after[n] \in Visits(U) /\ B \subseteq DOMAIN after[n].depth
             /\ waiting(n) \in Seq(U) /\ Len(waiting(n)) \in Nat
             /\ IsFiniteSet(new(n)) /\ Cardinality(new(n)) \in Nat
             /\ Cardinality(new(n)) <= Len(edges)
  <2>1. after[n] \in Visits(U) /\ B \subseteq DOMAIN after[n].depth
    BY <1>3 DEF Traversed
  <2>2. waiting(n) \in Seq(U) /\ DOMAIN after[n].depth \subseteq U
    BY <2>1 DEF Visits
  <2>3. new(n) \in SUBSET ends
    BY <2>2
  <2> DEFINE T == new(n)
  <2>4. IsFiniteSet(T) /\ Cardinality(T) <= Cardinality(ends)
    <3> HIDE DEF T
    <3> QED
      BY <1>4, <2>3, FS_Subset DEF T
  <2>5. Cardinality(T) \in Nat /\ Cardinality(ends) \in Nat
    <3> HIDE DEF T
    <3> QED
      BY <1>4, <2>4, FS_CardinalityType
  <2>6. Len(waiting(n)) \in Nat
    <3> DEFINE q == waiting(n)
    <3>1. q \in Seq(U)
      BY <2>2
    <3> HIDE DEF q
    <3>2. Len(q) \in Nat
      BY <3>1
    <3> QED
      BY <3>2 DEF q
  <2> HIDE DEF T
  <2>7. Cardinality(T) <= Len(edges)
    BY <1>2, <1>4, <2>4, <2>5
  <2> QED
    BY <2>1, <2>2, <2>4, <2>5, <2>6, <2>7 DEF T
<1> DEFINE Enough(n) == \/ waiting(n) = <<>>
                        \/ n + Len(waiting(n)) <= Len(starts) + Cardinality(new(n))
<1>6. Len(starts) \in Nat
  OBVIOUS
<1>7. Enough(0)
  <2>1. waiting(0) = starts
    BY <1>3 DEF AfterRounds
  <2>2. 0 \in 0..N
    BY <1>2
  <2> DEFINE c == Cardinality(new(0))
  <2>3. c \in Nat
    BY <1>5, <2>2
  <2>4. Len(waiting(0)) = Len(starts)
    BY <2>1
  <2> HIDE DEF c, waiting
  <2>5. 0 + Len(waiting(0)) <= Len(starts) + c
    BY <1>6, <2>3, <2>4
  <2> QED
    BY <2>5 DEF c
<1>8. ASSUME NEW n \in 1..N, Enough(n - 1)
      PROVE  Enough(n)
  <2> DEFINE s == after[n - 1]
             t == after[n]
  <2>1. t = Expand(graph, direction, s) /\ n - 1 \in 0..N /\ n \in 0..N
    BY <1>2, <1>3 DEF AfterRounds, N
  <2>2. CASE s.queue = <<>>
    BY <2>1, <2>2 DEF Expand
  <2>3. CASE s.queue # <<>>
    <3>1. /\ s \in Visits(U) /\ B \subseteq DOMAIN s.depth /\ IsFiniteSet(DOMAIN s.depth \ B)
          /\ graph.edges \in Seq([from : STRING, to : STRING])
      BY <1>1, <1>5, <2>1 DEF edges
    <3> HIDE DEF s, t, U
    <3>c. Counted(s, t, B)
      BY <2>1, <2>3, <3>1, RoundCounts
    <3>2. Len(t.queue) + Cardinality(DOMAIN s.depth \ B) + 1
            = Len(s.queue) + Cardinality(DOMAIN t.depth \ B)
      BY <3>c DEF Counted
    <3> USE DEF s, t
    <3> DEFINE lt == Len(waiting(n))
               ls == Len(waiting(n - 1))
               ct == Cardinality(new(n))
               cs == Cardinality(new(n - 1))
    <3>3. lt + cs + 1 = ls + ct
      BY <3>2
    <3>4. lt \in Nat /\ ls \in Nat /\ ct \in Nat /\ cs \in Nat
      BY <1>5, <2>1
    <3>5. n - 1 + ls <= Len(starts) + cs
      BY <1>8, <2>3
    <3> HIDE DEF lt, ls, ct, cs
    <3>6. n + lt <= Len(starts) + ct
      BY <1>2, <1>6, <3>3, <3>4, <3>5
    <3> QED
      BY <3>6 DEF lt, ct
  <2> QED
    BY <2>2, <2>3
<1> DEFINE Short == {n \in 0..N : ~Enough(n)}
<1>9. ASSUME Short # {}
      PROVE  FALSE
  <2> HIDE DEF Enough
  <2>1. Short \in SUBSET Nat
    BY <1>2
  <2>2. PICK n \in Short : \A i \in Short : n <= i
    <3> HIDE DEF Short
    <3> QED
      BY <1>9, <2>1, NatMinimum
  <2>3. n \in 1..N
    BY <1>2, <1>7, <2>2
  <2>4. n - 1 \in 0..N /\ n - 1 \notin Short
    BY <1>2, <2>2, <2>3
  <2> QED
    BY <1>8, <2>2, <2>3, <2>4
<1>10. waiting(N) = <<>>
  <2>1. N \in 0..N
    BY <1>2
  <2>2. Enough(N)
    BY <1>9, <2>1
  <2> DEFINE q == waiting(N)
             c == Cardinality(new(N))
  <2>3. /\ q \in Seq(U) /\ Len(q) \in Nat /\ c \in Nat /\ c <= Len(edges)
        /\ q = <<>> \/ N + Len(q) <= Len(starts) + c
    BY <1>5, <2>1, <2>2
  <2>4. Len(starts) <= Len(keys)
    BY DEF keys
  <2> HIDE DEF q, c
  <2>5. q # <<>> => Len(q) > 0
    BY <2>3
  <2>6. q = <<>>
    BY <1>1, <1>2, <1>6, <2>3, <2>4, <2>5
  <2> QED
    BY <2>6 DEF q
<1>11. Traversed(after[N], U, B, near, pairs)
  <2>1. N \in 0..N
    BY <1>2
  <2> HIDE DEF U
  <2> QED
    BY <1>3, <2>1
<1>12. near = Within(B, pairs)
  BY DEF B, pairs, edges
<1> QED
  <2> DEFINE s == after[N]
  <2>1. Traversed(s, U, B, near, pairs) /\ s.queue = <<>>
    BY <1>10, <1>11
  <2> HIDE DEF s, U
  <2>2. Exact(s.depth, near)
    BY <1>12, <2>1, TraversalIsExact
  <2> QED
    BY <1>3, <2>2 DEF s

\* depths answers a question about symbols exactly.
SymbolsExact(graph, kind, matches, depths) ==
    LET out == {<<e.from, e.to>> : e \in EdgesIn(graph)}
        edges == CASE kind = "depends_on" -> out
                   [] kind = "dependents" -> {<<p[2], p[1]>> : p \in out}
                   [] OTHER -> {}
        starts == IF kind = "search" THEN matches \intersect KeysIn(graph)
                  ELSE Starts(graph, matches)
    IN  Exact(depths, Within(starts, edges))

\* The pairs a traversal follows are the edges, or the edges backwards.
LEMMA PairsAreEdges ==
    ASSUME NEW graph, IsGraph(graph),
           NEW out, out = {<<e.from, e.to>> : e \in EdgesIn(graph)}
    PROVE  /\ Pairs(graph.edges, "outgoing") = out
           /\ Pairs(graph.edges, "incoming") = {<<p[2], p[1]>> : p \in out}
<1> DEFINE edges == graph.edges
<1>1. EdgesIn(graph) = {edges[i] : i \in DOMAIN edges}
  BY DEF EdgesIn, Range
<1>2. out = {<<edges[i].from, edges[i].to>> : i \in DOMAIN edges}
  <2> HIDE DEF edges
  <2> QED
    BY <1>1
<1>3. Pairs(edges, "outgoing") = {<<edges[i].from, edges[i].to>> : i \in DOMAIN edges}
  BY DEF Pairs, Here, Beyond
<1>4. Pairs(edges, "incoming") = {<<edges[i].to, edges[i].from>> : i \in DOMAIN edges}
  BY DEF Pairs, Here, Beyond
<1>5. {<<p[2], p[1]>> : p \in out} = {<<edges[i].to, edges[i].from>> : i \in DOMAIN edges}
  <2>1. ASSUME NEW i \in DOMAIN edges
        PROVE  \E p \in out : <<p[2], p[1]>> = <<edges[i].to, edges[i].from>>
    <3> DEFINE p == <<edges[i].from, edges[i].to>>
    <3>1. p \in out /\ p[1] = edges[i].from /\ p[2] = edges[i].to
      BY <1>2
    <3> HIDE DEF p
    <3> QED
      BY <3>1
  <2>2. ASSUME NEW p \in out
        PROVE  \E i \in DOMAIN edges : <<p[2], p[1]>> = <<edges[i].to, edges[i].from>>
    <3>1. PICK i \in DOMAIN edges : p = <<edges[i].from, edges[i].to>>
      BY <1>2
    <3> QED
      BY <3>1
  <2> QED
    BY <2>1, <2>2
<1> QED
  BY <1>2, <1>3, <1>4, <1>5

\* A search is a traversal without edges.
LEMMA SearchIsExact ==
    ASSUME NEW starts, NEW near, near = Within(starts, {})
    PROVE  Exact([k \in starts |-> 0], near)
<1> DEFINE s == [queue |-> <<>>, depth |-> [k \in starts |-> 0]]
<1>1. MaxDepth \in Nat
  BY QueryAssumption
<1>2. s.queue = <<>> /\ DOMAIN s.depth = starts /\ \A k \in starts : s.depth[k] = 0
  OBVIOUS
<1>3. s \in Visits(starts)
  <2>1. [k \in starts |-> 0] \in [starts -> 0..MaxDepth]
    BY <1>1
  <2>2. s.depth \in UNION {[V -> 0..MaxDepth] : V \in SUBSET starts}
    BY <2>1
  <2> QED
    BY <1>2, <2>2 DEF Visits
<1>4. Range(s.queue) = {} /\ Len(s.queue) = 0
  BY DEF Range
<1>5. \A k \in starts : k \in near[0]
  BY NearGrows
<1>6. s.depth = [k \in starts |-> 0]
  OBVIOUS
<1> HIDE DEF s
<1>7. Traversed(s, starts, starts, near, {})
  BY <1>2, <1>3, <1>4, <1>5 DEF Traversed
<1>8. Exact(s.depth, near)
  BY <1>2, <1>7, TraversalIsExact
<1> QED
  BY <1>6, <1>8

\* What is answered to a question about symbols is exact.
LEMMA SymbolsAnswered ==
    ASSUME NEW graph, IsGraph(graph), NEW kind \in SymbolTypes, NEW matches,
           NEW depths, depths = queryGraph(graph, kind, matches)
    PROVE  SymbolsExact(graph, kind, matches, depths)
<1> DEFINE found == findNodes(graph, matches)
           starts == SubSeq(found, 1, IF Len(found) < MaxStarts THEN Len(found) ELSE MaxStarts)
           out == {<<e.from, e.to>> : e \in EdgesIn(graph)}
<1>1. /\ Range(found) = matches \cap KeysIn(graph)
      /\ starts \in Seq(KeysIn(graph)) /\ Len(starts) <= Len(graph.keys)
      /\ Range(starts) = Starts(graph, matches)
  BY StartsFound
<1>2. /\ kind = "depends_on" => depths = bfsTraverse(graph, starts, "outgoing")
      /\ kind = "dependents" => depths = bfsTraverse(graph, starts, "incoming")
      /\ kind = "search" => depths = [k \in Range(found) |-> 0]
  BY DEF queryGraph
<1> HIDE DEF found, starts
<1>3. /\ Pairs(graph.edges, "outgoing") = out
      /\ Pairs(graph.edges, "incoming") = {<<p[2], p[1]>> : p \in out}
  BY PairsAreEdges
<1> HIDE DEF out
<1>4. CASE kind = "search"
  <2> DEFINE near == Within(matches \cap KeysIn(graph), {})
  <2>1. Exact([k \in matches \cap KeysIn(graph) |-> 0], near)
    BY SearchIsExact
  <2>2. Exact(depths, near)
    BY <1>1, <1>2, <1>4, <2>1
  <2> QED
    BY <1>4, <2>2 DEF SymbolsExact
<1>5. CASE kind = "depends_on"
  <2> DEFINE near == Within(Starts(graph, matches), out)
  <2>1. near = Within(Range(starts), Pairs(graph.edges, "outgoing"))
    BY <1>1, <1>3
  <2> HIDE DEF near
  <2>2. Exact(bfsTraverse(graph, starts, "outgoing"), near)
    BY <1>1, <2>1, TraversalVisits
  <2>3. Exact(depths, Within(Starts(graph, matches), out))
    BY <1>2, <1>5, <2>2 DEF near
  <2> QED
    BY <1>5, <2>3 DEF SymbolsExact, out
<1>6. CASE kind = "dependents"
  <2> DEFINE back == {<<p[2], p[1]>> : p \in out}
             near == Within(Starts(graph, matches), back)
  <2>1. near = Within(Range(starts), Pairs(graph.edges, "incoming"))
    BY <1>1, <1>3
  <2> HIDE DEF near
  <2>2. Exact(bfsTraverse(graph, starts, "incoming"), near)
    BY <1>1, <2>1, TraversalVisits
  <2>3. Exact(depths, Within(Starts(graph, matches), back))
    BY <1>2, <1>6, <2>2 DEF near
  <2> QED
    BY <1>6, <2>3 DEF SymbolsExact, out
<1> QED
  BY <1>4, <1>5, <1>6 DEF SymbolTypes

-----------------------------------------------------------------------------
(* A map within a budget, and the picture. *)

\* A set of numbers up to N has a greatest.
LEMMA GreatestExists ==
    ASSUME NEW N \in Nat, NEW S \in SUBSET (0..N), S # {}
    PROVE  Max(S) \in S
<1> DEFINE T == {N - x : x \in S}
<1>1. T \in SUBSET Nat /\ T # {}
  <2>1. ASSUME NEW x \in S
        PROVE  N - x \in Nat
    OBVIOUS
  <2>2. PICK x \in S : TRUE
    OBVIOUS
  <2>3. N - x \in T
    BY <2>2
  <2> QED
    BY <2>1, <2>3
<1>2. PICK d \in T : \A e \in T : d <= e
  <2> HIDE DEF T
  <2> QED
    BY <1>1, NatMinimum
<1>3. PICK x \in S : d = N - x
  BY <1>2
<1>4. \A y \in S : x >= y
  <2> TAKE y \in S
  <2>1. N - x <= N - y
    BY <1>2, <1>3
  <2> QED
    BY <2>1
<1>5. \E z \in S : \A y \in S : z >= y
  BY <1>4
<1> QED
  BY <1>5 DEF Max

\* What fits is a prefix, and if it is not empty, fits.
LEMMA PrefixFits ==
    ASSUME NEW costs, Len(costs) \in Nat, NEW tokens, NEW budget,
           NEW fit, fit = Fitting(costs, tokens, budget)
    PROVE  fit.count \in 0..Len(costs) /\ (fit.count > 0 => fit.tokens <= budget)
<1> DEFINE total[n \in 0..Len(costs)] == IF n = 0 THEN tokens ELSE total[n - 1] + costs[n] + 1
           fits == {n \in 0..Len(costs) : \A i \in 1..n : total[i] <= budget}
<1>1. fit = [count |-> Max(fits), tokens |-> total[Max(fits)]]
  BY DEF Fitting
<1> HIDE DEF total
<1>2. fits \in SUBSET (0..Len(costs)) /\ 0 \in fits
  OBVIOUS
<1>3. Max(fits) \in fits
  <2> HIDE DEF fits
  <2> QED
    BY <1>2, GreatestExists
<1> DEFINE n == Max(fits)
<1>4. n \in 0..Len(costs) /\ \A i \in 1..n : total[i] <= budget
  BY <1>3
<1>5. fit.count = n /\ fit.tokens = total[n]
  BY <1>1
<1> HIDE DEF n, fits
<1>6. n > 0 => n \in 1..n
  BY <1>4
<1> QED
  BY <1>4, <1>5, <1>6

\* A list computed from a list is as long.
LEMMA SameLength ==
    ASSUME NEW S, NEW list \in Seq(S), NEW T, NEW p, p = [i \in DOMAIN list |-> T[list[i]]]
    PROVE  Len(p) = Len(list)
<1>1. Len(list) \in Nat /\ DOMAIN list = 1..Len(list)
  OBVIOUS
<1>2. p \in [1..Len(list) -> {T[list[i]] : i \in DOMAIN list}]
  BY <1>1
<1> QED
  BY <1>1, <1>2, AsSequence

\* What decides whether a node is in the map.
ScoreOf(graph, matches, k) ==
    degreeMap(graph)[k] + (IF k \in matches THEN Boost ELSE 0)

\* ranked: all keys of the graph, none before one of a higher score.
RankedBy(ranked, graph, matches) ==
    /\ ranked \in Seq(KeysIn(graph)) /\ Range(ranked) = KeysIn(graph)
    /\ \A n, m \in 1..Len(ranked) :
          n < m => ScoreOf(graph, matches, ranked[m]) <= ScoreOf(graph, matches, ranked[n])

\* The ranking is by score, whatever the degrees.
LEMMA RankedInOrder ==
    ASSUME NEW graph, IsGraph(graph), NEW matches
    PROVE  RankedBy(Ranked(graph, matches), graph, matches)
<1> DEFINE keys == graph.keys
           edges == graph.edges
           S == KeysIn(graph)
           deg == degreeMap(graph)
           score == [k \in S |-> deg[k] + (IF k \in matches THEN Boost ELSE 0)]
           at == [k \in S |-> CHOOSE i \in DOMAIN keys : keys[i] = k]
           before == {p \in S \X S :
                        \/ score[p[1]] > score[p[2]]
                        \/ score[p[1]] = score[p[2]] /\ at[p[1]] < at[p[2]]}
           list == InOrder(S, before)
<1>1. Ranked(graph, matches) = list
  BY DEF Ranked
<1>2. keys \in Seq(SymbolKeys) /\ edges \in Seq([from : STRING, to : STRING])
  BY DEF IsGraph
<1>3. S = {keys[i] : i \in DOMAIN keys}
  BY DEF KeysIn, Range
<1>4. deg = [k \in S |-> Cardinality({i \in DOMAIN edges : edges[i].from = k})
                         + Cardinality({i \in DOMAIN edges : edges[i].to = k})]
  BY DEF degreeMap
<1> HIDE DEF keys, edges, S, deg
<1>5. /\ DOMAIN keys = 1..Len(keys) /\ Len(keys) \in Nat
      /\ DOMAIN edges = 1..Len(edges) /\ Len(edges) \in Nat
  BY <1>2
<1>6. \A n \in Nat : IsFiniteSet(1..n)
  <2> TAKE n \in Nat
  <2>1. 1 \in Int /\ n \in Int
    OBVIOUS
  <2> QED
    BY <2>1, FS_Interval
<1>7. IsFiniteSet(S)
  <2>1. IsFiniteSet({keys[i] : i \in 1..Len(keys)})
    BY <1>5, <1>6, ImageIsFinite
  <2> QED
    BY <1>3, <1>5, <2>1
<1>8. \A T \in SUBSET DOMAIN edges : Cardinality(T) \in Nat
  <2> TAKE T \in SUBSET DOMAIN edges
  <2>1. IsFiniteSet(DOMAIN edges)
    BY <1>5, <1>6
  <2>2. IsFiniteSet(T)
    BY <2>1, FS_Subset
  <2> QED
    BY <2>2, FS_CardinalityType
<1>9. \A k \in S : deg[k] \in Nat
  <2> TAKE k \in S
  <2> DEFINE out == {i \in DOMAIN edges : edges[i].from = k}
             in == {i \in DOMAIN edges : edges[i].to = k}
  <2>1. deg[k] = Cardinality(out) + Cardinality(in)
    BY <1>4
  <2>2. Cardinality(out) \in Nat /\ Cardinality(in) \in Nat
    BY <1>8
  <2> HIDE DEF out, in
  <2> QED
    BY <2>1, <2>2
<1>10. \A k \in S : score[k] \in Nat
  BY <1>9, QueryAssumption
<1>11. \A k \in S : at[k] \in Nat /\ at[k] \in DOMAIN keys /\ keys[at[k]] = k
  BY <1>3, <1>5
<1>12. \A k \in S : score[k] = ScoreOf(graph, matches, k)
  BY DEF ScoreOf, deg
<1> HIDE DEF score, at
<1>13. \A x, y \in S : <<x, y>> \in before <=>
          score[x] > score[y] \/ (score[x] = score[y] /\ at[x] < at[y])
  OBVIOUS
<1> HIDE DEF before
<1>14. Orders(before, S)
  <2>1. \A x \in S : <<x, x>> \notin before
    BY <1>10, <1>11, <1>13
  <2>2. \A x, y, z \in S : <<x, y>> \in before /\ <<y, z>> \in before => <<x, z>> \in before
    BY <1>10, <1>11, <1>13
  <2>3. \A x, y \in S : x = y \/ <<x, y>> \in before \/ <<y, x>> \in before
    <3> TAKE x, y \in S
    <3>1. at[x] = at[y] => x = y
      BY <1>11
    <3> QED
      BY <1>10, <1>11, <1>13, <3>1
  <2> QED
    BY <2>1, <2>2, <2>3 DEF Orders
<1> DEFINE size == Cardinality(S)
<1>15. /\ size \in Nat
       /\ list \in [1..size -> S]
       /\ \A x \in S : \E n \in 1..size : list[n] = x
       /\ \A n, m \in 1..size : <<list[n], list[m]>> \in before <=> n < m
  <2> HIDE DEF list
  <2> QED
    BY <1>7, <1>14, InOrderLists DEF list
<1> HIDE DEF list, size
<1>16. list \in Seq(S) /\ Len(list) = size
  BY <1>15, AsSequence
<1>17. Range(list) = S
  BY <1>15 DEF Range
<1>18. \A n, m \in 1..size : n < m => ScoreOf(graph, matches, list[m]) <= ScoreOf(graph, matches, list[n])
  <2> TAKE n, m \in 1..size
  <2> HAVE n < m
  <2>1. <<list[n], list[m]>> \in before /\ list[n] \in S /\ list[m] \in S
    BY <1>15
  <2>2. score[list[m]] <= score[list[n]]
    BY <1>10, <1>13, <2>1
  <2> QED
    BY <1>12, <2>1, <2>2
<1> QED
  BY <1>1, <1>16, <1>17, <1>18 DEF RankedBy, S

\* m is a map of the graph as it should be (GraphAnswersAreExact).
MapExact(graph, kind, matches, asked, m) ==
    LET score(k) == degreeMap(graph)[k]
                    + (IF kind = "symbol_map" /\ k \in matches THEN Boost ELSE 0)
        given == {m.nodes[i] : i \in DOMAIN m.nodes}
    IN  /\ \A i \in DOMAIN m.edges : {m.edges[i].from, m.edges[i].to} \subseteq given
        /\ \A k \in KeysIn(graph) \ given, g \in given : score(k) <= score(g)
        /\ \/ m.tokens <= Budget(asked)
           \/ Len(m.nodes) <= 1 /\ m.edges = <<>>
        /\ graph.keys # <<>> => m.nodes # <<>>

\* Nothing that is left out has a higher score than what is given.
Foremost(given, graph, matches) ==
    \A k \in KeysIn(graph) \ given, g \in given :
        ScoreOf(graph, matches, k) <= ScoreOf(graph, matches, g)

\* The edges have both ends among what is given.
Joined(edges, given) ==
    \A i \in DOMAIN edges : {edges[i].from, edges[i].to} \subseteq given

\* What is given are the first of the ranking.
FirstOf(given, ranked, count) ==
    \A x : x \in given <=> \E i \in 1..count : ranked[i] = x

\* The first nodes of a ranking leave none out that should come before one of them.
LEMMA FirstNodes ==
    ASSUME NEW graph, NEW matches, NEW ranked, RankedBy(ranked, graph, matches),
           NEW count \in 0..Len(ranked),
           NEW nodes, nodes = SubSeq(ranked, 1, count),
           NEW given, given = Range(nodes)
    PROVE  /\ Len(nodes) = count /\ Foremost(given, graph, matches)
           /\ FirstOf(given, ranked, count)
<1>1. /\ ranked \in Seq(KeysIn(graph)) /\ Range(ranked) = KeysIn(graph)
      /\ DOMAIN ranked = 1..Len(ranked) /\ Len(ranked) \in Nat
  BY DEF RankedBy
<1>2. Len(nodes) = count /\ DOMAIN nodes = 1..count /\ \A n \in 1..count : nodes[n] = ranked[n]
  BY <1>1
<1>3. \A x : x \in given <=> \E i \in 1..count : ranked[i] = x
  BY <1>2 DEF Range
<1>4. ASSUME NEW k \in KeysIn(graph) \ given, NEW g \in given
      PROVE  ScoreOf(graph, matches, k) <= ScoreOf(graph, matches, g)
  <2>1. PICK m \in 1..Len(ranked) : ranked[m] = k
    BY <1>1 DEF Range
  <2>2. PICK n \in 1..count : ranked[n] = g
    BY <1>3
  <2>3. m \notin 1..count
    BY <1>3, <2>1
  <2>4. n \in 1..Len(ranked) /\ n < m
    BY <1>1, <2>3
  <2> QED
    BY <2>1, <2>2, <2>4 DEF RankedBy
<1> QED
  BY <1>2, <1>3, <1>4 DEF Foremost, FirstOf

\* The edges picked among some keys have both ends among them.
LEMMA EdgesHaveEnds ==
    ASSUME NEW graph, IsGraph(graph), NEW given,
           NEW among, among = Picked(graph.edges, EdgesAmong(graph, given))
    PROVE  /\ among \in Seq([from : STRING, to : STRING])
           /\ Joined(among, given)
           /\ given = {} => among = <<>>
<1> DEFINE E == [from : STRING, to : STRING]
           edges == graph.edges
           places == EdgesAmong(graph, given)
           kept == {edges[i] : i \in places}
<1>1. edges \in Seq(E)
  BY DEF IsGraph
<1>2. /\ places \in SUBSET DOMAIN edges
      /\ \A i \in places : edges[i].from \in given /\ edges[i].to \in given
  BY DEF EdgesAmong
<1>3. among = Picked(edges, places)
  OBVIOUS
<1> HIDE DEF E, edges, places
<1>4. among \in Seq(kept)
  BY <1>1, <1>2, <1>3, PickedLists
<1>5. \A e \in kept : e \in E /\ e.from \in given /\ e.to \in given
  <2>1. \A i \in places : edges[i] \in E
    BY <1>1, <1>2
  <2> QED
    BY <1>2, <2>1
<1> HIDE DEF kept
<1>a. \A i \in DOMAIN among : among[i] \in kept
  BY <1>4
<1>b. among \in Seq(E)
  <2>1. kept \subseteq E
    BY <1>5
  <2> QED
    BY <1>4, <2>1
<1>6. given = {} => among = <<>>
  <2> SUFFICES ASSUME given = {}
               PROVE  among = <<>>
    OBVIOUS
  <2>1. kept = {}
    BY <1>5
  <2>2. DOMAIN among = {}
    BY <1>a, <2>1
  <2> QED
    BY <1>4, <2>2
<1> QED
  BY <1>5, <1>a, <1>b, <1>6 DEF E, Joined

\* A budget is never below the least one.
LEMMA BudgetIsNatural ==
    ASSUME NEW asked, asked = NoBudget \/ asked \in Int
    PROVE  Budget(asked) \in Nat
  BY QueryAssumption DEF Budget

\* The picture is exact.
LEMMA PictureIsExact ==
    ASSUME NEW graph, IsGraph(graph), NEW matches, NEW asked, asked = NoBudget \/ asked \in Int,
           NEW m, m = writeSymbolGraphHtml(graph, MaxNodes)
    PROVE  MapExact(graph, "export_html", matches, asked, m)
<1> DEFINE ranked == Ranked(graph, {})
           count == IF Len(ranked) < MaxNodes THEN Len(ranked) ELSE MaxNodes
           kept == SubSeq(ranked, 1, count)
           among == Picked(graph.edges, EdgesAmong(graph, Range(kept)))
           given == Range(kept)
<1>1. m = [nodes |-> kept, edges |-> among, tokens |-> 0]
  BY DEF writeSymbolGraphHtml
<1>2. RankedBy(ranked, graph, {})
  BY RankedInOrder
<1> HIDE DEF ranked
<1>3. /\ ranked \in Seq(KeysIn(graph)) /\ Range(ranked) = KeysIn(graph)
      /\ DOMAIN ranked = 1..Len(ranked) /\ Len(ranked) \in Nat
  BY <1>2 DEF RankedBy
<1>4. count \in 0..Len(ranked) /\ (count = 0 => Len(ranked) = 0)
  BY <1>3, GatewayAssumption
<1> HIDE DEF count
<1>5. Len(kept) = count /\ Foremost(given, graph, {})
  <2>1. kept = SubSeq(ranked, 1, count) /\ given = Range(kept)
    OBVIOUS
  <2> HIDE DEF kept, given
  <2>2. Len(kept) = count
    BY <1>2, <1>4, <2>1, FirstNodes
  <2>3. Foremost(given, graph, {})
    BY <1>2, <1>4, <2>1, FirstNodes
  <2> QED
    BY <2>2, <2>3
<1> HIDE DEF kept
<1>6. Joined(among, given)
  <2>1. among = Picked(graph.edges, EdgesAmong(graph, given))
    OBVIOUS
  <2> HIDE DEF among, given
  <2> QED
    BY <2>1, EdgesHaveEnds
<1> HIDE DEF among
<1>7. graph.keys # <<>> => kept # <<>>
  <2> SUFFICES ASSUME graph.keys # <<>>
               PROVE  kept # <<>>
    OBVIOUS
  <2> DEFINE keys == graph.keys
  <2>1. keys \in Seq(SymbolKeys) /\ keys # <<>>
    BY DEF IsGraph
  <2>2. KeysIn(graph) = {keys[i] : i \in DOMAIN keys}
    BY DEF KeysIn, Range
  <2> HIDE DEF keys
  <2>3. 1 \in DOMAIN keys
    BY <2>1
  <2>4. Len(ranked) # 0
    <3>1. keys[1] \in Range(ranked)
      BY <1>3, <2>2, <2>3
    <3>2. PICK n \in DOMAIN ranked : ranked[n] = keys[1]
      BY <3>1 DEF Range
    <3> QED
      BY <1>3
  <2>5. Len(kept) # 0
    BY <1>4, <1>5, <2>4
  <2> QED
    BY <2>5
<1>8. m.nodes = kept /\ m.edges = among /\ m.tokens = 0
  BY <1>1
<1>9. m.tokens <= Budget(asked)
  BY <1>8, BudgetIsNatural
<1> HIDE DEF given
<1>10. \A k : ScoreOf(graph, {}, k) = degreeMap(graph)[k] + (IF FALSE THEN Boost ELSE 0)
  BY DEF ScoreOf
<1> QED
  BY <1>5, <1>6, <1>7, <1>8, <1>9, <1>10 DEF MapExact, Foremost, Joined, Range, given

\* The map within a budget is exact.
LEMMA MapIsExact ==
    ASSUME NEW graph, IsGraph(graph), NEW matches, NEW asked,
           NEW m, m = buildBudgetedSymbolMap(graph, matches, asked)
    PROVE  MapExact(graph, "symbol_map", matches, asked, m)
<1> DEFINE budget == Budget(asked)
           ranked == Ranked(graph, matches)
           nodes == NodesFitting(ranked, budget)
           included == {ranked[i] : i \in 1..nodes.count}
           among == Picked(graph.edges, EdgesAmong(graph, included))
           costs == [i \in DOMAIN among |-> EdgeCost]
           fit == IF nodes.tokens + EdgeHeaderCost + 1 > budget THEN [count |-> 0, tokens |-> 0]
                  ELSE Fitting(costs, nodes.tokens + EdgeHeaderCost + 1, budget)
           kept == SubSeq(ranked, 1, nodes.count)
           edges == SubSeq(among, 1, fit.count)
           given == Range(kept)
<1>1. m = [nodes |-> kept, edges |-> edges,
           tokens |-> IF fit.count > 0 THEN fit.tokens ELSE nodes.tokens]
  BY DEF buildBudgetedSymbolMap
<1>2. RankedBy(ranked, graph, matches)
  BY RankedInOrder
<1> HIDE DEF ranked
<1>3. /\ ranked \in Seq(KeysIn(graph)) /\ Range(ranked) = KeysIn(graph)
      /\ DOMAIN ranked = 1..Len(ranked) /\ Len(ranked) \in Nat
  BY <1>2 DEF RankedBy
<1>4. /\ nodes.count \in 0..Len(ranked)
      /\ nodes.count = 0 => Len(ranked) = 0
      /\ nodes.count > 1 => nodes.tokens <= budget
  <2> DEFINE prices == [i \in DOMAIN ranked |-> LineCost[ranked[i]]]
             first == Fitting(prices, HeaderCost, budget)
  <2>1. Len(prices) = Len(ranked)
    BY <1>3, SameLength
  <2>2. nodes = IF first.count = 0 /\ ranked # <<>>
                THEN [count |-> 1, tokens |-> HeaderCost + LineCost[ranked[1]] + 1] ELSE first
    BY DEF NodesFitting
  <2> HIDE DEF prices
  <2>3. first.count \in 0..Len(ranked) /\ (first.count > 0 => first.tokens <= budget)
    BY <1>3, <2>1, PrefixFits
  <2> HIDE DEF first, nodes, budget
  <2>4. CASE first.count = 0 /\ ranked # <<>>
    <3>1. nodes.count = 1
      BY <2>2, <2>4
    <3>2. Len(ranked) >= 1
      BY <1>3, <2>4
    <3> QED
      BY <1>3, <3>1, <3>2
  <2>5. CASE ~(first.count = 0 /\ ranked # <<>>)
    <3>1. nodes = first
      BY <2>2, <2>5
    <3>2. ranked = <<>> => Len(ranked) = 0
      OBVIOUS
    <3> QED
      BY <1>3, <2>3, <2>5, <3>1, <3>2
  <2> QED
    BY <2>4, <2>5
<1> HIDE DEF nodes
<1>5. /\ Len(kept) = nodes.count
      /\ Foremost(given, graph, matches)
      /\ \A x : x \in given <=> \E i \in 1..nodes.count : ranked[i] = x
  <2> DEFINE count == nodes.count
  <2>1. kept = SubSeq(ranked, 1, count) /\ given = Range(kept) /\ count \in 0..Len(ranked)
    BY <1>4
  <2> HIDE DEF kept, given, count
  <2>2. Len(kept) = count
    BY <1>2, <2>1, FirstNodes
  <2>3. Foremost(given, graph, matches)
    BY <1>2, <2>1, FirstNodes
  <2>4. FirstOf(given, ranked, count)
    BY <1>2, <2>1, FirstNodes
  <2> QED
    BY <2>2, <2>3, <2>4 DEF FirstOf, count
<1> HIDE DEF kept, given
<1>8. included = given
  BY <1>5
<1> HIDE DEF included
<1>9. /\ among \in Seq([from : STRING, to : STRING])
      /\ Joined(among, given) /\ (given = {} => among = <<>>)
  <2> HIDE DEF among
  <2> QED
    BY <1>8, EdgesHaveEnds DEF among
<1> HIDE DEF among
<1>10. Len(among) \in Nat /\ DOMAIN among = 1..Len(among)
  BY <1>9
<1>11. fit.count \in 0..Len(among) /\ (fit.count > 0 => fit.tokens <= budget)
  <2>1. Len(costs) = Len(among)
    <3>1. costs \in [1..Len(among) -> {EdgeCost}]
      BY <1>10
    <3> HIDE DEF costs
    <3> QED
      BY <1>10, <3>1, AsSequence
  <2> HIDE DEF costs, budget
  <2>2. CASE nodes.tokens + EdgeHeaderCost + 1 > budget
    <3>1. fit.count = 0
      BY <2>2
    <3> HIDE DEF fit
    <3> QED
      BY <1>10, <3>1
  <2>3. CASE ~(nodes.tokens + EdgeHeaderCost + 1 > budget)
    <3>1. fit = Fitting(costs, nodes.tokens + EdgeHeaderCost + 1, budget)
      BY <2>3
    <3> HIDE DEF fit
    <3> QED
      BY <1>10, <2>1, <3>1, PrefixFits
  <2> QED
    BY <2>2, <2>3
<1> HIDE DEF fit, budget
<1>12. Joined(edges, given)
  <2>1. Len(edges) = fit.count /\ DOMAIN edges = 1..fit.count
        /\ \A i \in 1..fit.count : edges[i] = among[i]
    BY <1>9, <1>10, <1>11
  <2>2. \A i \in 1..fit.count : i \in DOMAIN among
    BY <1>10, <1>11
  <2> HIDE DEF edges
  <2> QED
    BY <1>9, <2>1, <2>2 DEF Joined
<1>13. fit.count = 0 => edges = <<>>
  BY <1>9
<1> HIDE DEF edges
<1>14. m.nodes = kept /\ m.edges = edges
       /\ m.tokens = IF fit.count > 0 THEN fit.tokens ELSE nodes.tokens
  BY <1>1
<1>15. m.tokens <= budget \/ (Len(m.nodes) <= 1 /\ m.edges = <<>>)
  <2>1. CASE fit.count > 0
    BY <1>11, <1>14, <2>1
  <2>2. CASE ~(fit.count > 0)
    <3>1. fit.count = 0 /\ m.edges = <<>> /\ m.tokens = nodes.tokens
      BY <1>10, <1>11, <1>13, <1>14, <2>2
    <3>2. nodes.count > 1 \/ Len(m.nodes) <= 1
      BY <1>3, <1>4, <1>5, <1>14
    <3> QED
      BY <1>4, <3>1, <3>2
  <2> QED
    BY <2>1, <2>2
<1>16. graph.keys # <<>> => kept # <<>>
  <2> SUFFICES ASSUME graph.keys # <<>>
               PROVE  kept # <<>>
    OBVIOUS
  <2> DEFINE keys == graph.keys
  <2>1. keys \in Seq(SymbolKeys) /\ keys # <<>>
    BY DEF IsGraph
  <2>2. KeysIn(graph) = {keys[i] : i \in DOMAIN keys}
    BY DEF KeysIn, Range
  <2> HIDE DEF keys
  <2>3. 1 \in DOMAIN keys
    BY <2>1
  <2>4. Len(ranked) # 0
    <3>1. keys[1] \in Range(ranked)
      BY <1>3, <2>2, <2>3
    <3>2. PICK n \in DOMAIN ranked : ranked[n] = keys[1]
      BY <3>1 DEF Range
    <3> QED
      BY <1>3
  <2>5. Len(kept) # 0
    BY <1>4, <1>5, <2>4
  <2> QED
    BY <2>5
<1>17. \A k : ScoreOf(graph, matches, k)
              = degreeMap(graph)[k] + (IF "symbol_map" = "symbol_map" /\ k \in matches THEN Boost ELSE 0)
  BY DEF ScoreOf
<1> QED
  BY <1>5, <1>12, <1>14, <1>15, <1>16, <1>17 DEF MapExact, Foremost, Joined, Range, given, budget

-----------------------------------------------------------------------------
(* Answers about the graph, step by step. *)

GraphTypes == SymbolTypes \union MapTypes

\* What was found in the graph is exact from the step on that finds it.
GraphInv ==
    /\ result.kind \in SymbolTypes =>
          SymbolsExact(subject.graph, result.kind, subject.matches, result.depths)
    /\ result.kind \in MapTypes =>
          MapExact(subject.graph, result.kind, subject.matches, subject.asked, result.map)

\* Which is what is promised of the answers.
LEMMA ExactAnswers ==
    ASSUME GraphInv
    PROVE  GraphAnswersAreExact
<1>1. CASE pc = "done" /\ result.kind \in MapTypes
  <2>1. MapExact(subject.graph, result.kind, subject.matches, subject.asked, result.map)
    BY <1>1 DEF GraphInv
  <2> QED
    BY <1>1, <2>1 DEF GraphAnswersAreExact, MapExact
<1>2. CASE pc = "done" /\ result.kind \in SymbolTypes
  <2>1. SymbolsExact(subject.graph, result.kind, subject.matches, result.depths)
    BY <1>2 DEF GraphInv
  <2>2. result.kind \notin MapTypes
    BY <1>2 DEF SymbolTypes, MapTypes
  <2> QED
    BY <1>2, <2>1, <2>2 DEF GraphAnswersAreExact, SymbolsExact, Exact
<1>3. CASE ~(pc = "done" /\ result.kind \in GraphTypes)
  BY <1>3 DEF GraphAnswersAreExact, GraphTypes
<1> QED
  BY <1>1, <1>2, <1>3 DEF GraphTypes

\* A result that is not of the graph, or was there before.
LEMMA GraphUntouched ==
    ASSUME GraphInv, (UNCHANGED <<result, subject>>) \/ result'.kind \notin GraphTypes
    PROVE  GraphInv'
  BY DEF GraphInv, GraphTypes

\* Kinds of answers that are not of the graph.
LEMMA OtherKinds ==
    GraphTypes \cap ({"none", "refused", "no report", "stats", "cleared", "score", "prompts",
              "passthrough", "compact", "dropped", "counted", "table", "throws"} \union GraphifyTypes) = {}
  BY DEF GraphTypes, SymbolTypes, MapTypes, GraphifyTypes

\* A map is exact when it is given.
LEMMA SymbolMapIsExact ==
    ASSUME GatewayInv, NEW graph \in Graphs, NEW matches \in Matches, NEW asked \in Budgets,
           SymbolMap(graph, matches, asked)
    PROVE  GraphInv'
<1> DEFINE m == IF query = "symbol_map" THEN buildBudgetedSymbolMap(graph, matches, asked)
                ELSE writeSymbolGraphHtml(graph, MaxNodes)
<1>1. /\ pc = "map" /\ subject' = [graph |-> graph, matches |-> matches, asked |-> asked]
      /\ result' = [kind |-> query, map |-> m]
  BY DEF SymbolMap, Answer
<1>2. query \in MapTypes
  BY <1>1 DEF GatewayInv, QueryInv
<1>3. IsGraph(graph) /\ (asked = NoBudget \/ asked \in Int)
  BY GatewayAssumption
<1>4. MapExact(graph, query, matches, asked, m)
  <2>1. CASE query = "symbol_map"
    <3>1. m = buildBudgetedSymbolMap(graph, matches, asked)
      BY <2>1
    <3> HIDE DEF m
    <3> QED
      BY <1>3, <2>1, <3>1, MapIsExact
  <2>2. CASE query = "export_html"
    <3>1. m = writeSymbolGraphHtml(graph, MaxNodes)
      BY <2>2
    <3> HIDE DEF m
    <3> QED
      BY <1>3, <2>2, <3>1, PictureIsExact
  <2> QED
    BY <1>2, <2>1, <2>2 DEF MapTypes
<1> HIDE DEF m
<1>5. /\ result'.kind = query /\ result'.map = m /\ subject'.graph = graph
      /\ subject'.matches = matches /\ subject'.asked = asked
  BY <1>1
<1>6. query \notin SymbolTypes
  BY <1>2 DEF SymbolTypes, MapTypes
<1> QED
  BY <1>4, <1>5, <1>6 DEF GraphInv

\* And the answer of a query about symbols.
LEMMA SymbolsAreExact ==
    ASSUME GatewayInv, NEW graph \in Graphs, NEW matches \in Matches, Symbols(graph, matches)
    PROVE  GraphInv'
<1> DEFINE depths == queryGraph(graph, query, matches)
<1>1. /\ pc = "symbols" /\ subject' = [graph |-> graph, matches |-> matches, asked |-> NoBudget]
      /\ result' = [kind |-> query, depths |-> depths]
  BY DEF Symbols
<1>2. query \in SymbolTypes
  BY <1>1 DEF GatewayInv, QueryInv
<1>3. IsGraph(graph)
  BY GatewayAssumption
<1>4. SymbolsExact(graph, query, matches, depths)
  BY <1>2, <1>3, SymbolsAnswered
<1> HIDE DEF depths
<1>5. /\ result'.kind = query /\ result'.depths = depths /\ subject'.graph = graph
      /\ subject'.matches = matches
  BY <1>1
<1>6. query \notin MapTypes
  BY <1>2 DEF SymbolTypes, MapTypes
<1> QED
  BY <1>4, <1>5, <1>6 DEF GraphInv

\* No other step puts anything of the graph into an answer: not the conclusion
\* of a query,
LEMMA ConcludedUntouched ==
    ASSUME GatewayInv, GraphInv, pc \in ReadingReport, Conclude, subject' = subject
    PROVE  GraphInv'
<1>1. CASE result.kind = "none"
  <2>1. query \in GraphifyTypes
    <3>1. result.kind \notin SymbolTypes
      BY <1>1 DEF SymbolTypes
    <3> QED
      BY <3>1 DEF GatewayInv, QueryInv
  <2>2. result'.kind = query
    BY <1>1 DEF Conclude, Answer
  <2> QED
    BY <2>1, <2>2, OtherKinds, GraphUntouched
<1>2. CASE result.kind # "none"
  <2>1. result' = result
    BY <1>2 DEF Conclude, Answer
  <2> QED
    BY <2>1, GraphUntouched
<1> QED
  BY <1>1, <1>2

\* not the steps that read the report,
LEMMA QueryUntouched ==
    ASSUME GatewayInv, GraphInv,
           \/ Rebuild \/ runGraphifyUpdate \/ Find \/ Refind \/ Load \/ Stale \/ CheckHead
    PROVE  GraphInv'
<1>1. CASE Rebuild \/ runGraphifyUpdate \/ Find
  <2>1. UNCHANGED <<result, subject>>
    BY <1>1 DEF Rebuild, runGraphifyUpdate, Find
  <2> QED
    BY <2>1, GraphUntouched
<1>2. CASE Refind
  <2>1. subject' = subject
    BY <1>2 DEF Refind
  <2>2. result' = result \/ Answer([kind |-> "no report"])
    BY <1>2 DEF Refind
  <2>3. ASSUME Answer([kind |-> "no report"])
        PROVE  result'.kind = "no report"
    BY <2>3 DEF Answer
  <2> QED
    BY <2>1, <2>2, <2>3, OtherKinds, GraphUntouched
<1>3. CASE Load
  <2>1. subject' = subject
    BY <1>3 DEF Load
  <2>2. result' = result \/ Answer(Refused("report is gone"))
    BY <1>3 DEF Load
  <2>3. ASSUME Answer(Refused("report is gone"))
        PROVE  result'.kind = "refused"
    BY <2>3 DEF Answer, Refused
  <2> QED
    BY <2>1, <2>2, <2>3, OtherKinds, GraphUntouched
<1>4. CASE Stale
  <2>1. subject' = subject /\ pc \in ReadingReport
    BY <1>4 DEF Stale, ReadingReport
  <2>2. result' = result \/ Conclude
    BY <1>4 DEF Stale
  <2> QED
    BY <2>1, <2>2, GraphUntouched, ConcludedUntouched
<1>5. CASE CheckHead
  <2>1. subject' = subject /\ pc \in ReadingReport /\ Conclude
    BY <1>5 DEF CheckHead, ReadingReport
  <2> QED
    BY <2>1, ConcludedUntouched
<1> QED
  BY <1>1, <1>2, <1>3, <1>4, <1>5

\* nor those of other calls and programs.
LEMMA OthersUntouched ==
    ASSUME GatewayInv, GraphInv, Ask \/ Begin \/ AnswerPrompt \/ ProviderSettles \/ Score \/ Move
    PROVE  GraphInv'
<1>1. CASE Ask
  <2>1. ASSUME NEW raw, NEW t, NEW route, NEW given, NEW illTyped, Call(raw, t, route, given, illTyped)
        PROVE  GraphInv'
    <3> DEFINE outcome == Outcome(resolveToolMode(raw), t, route, given, illTyped)
    <3>1. subject' = subject
      BY <2>1 DEF Call
    <3>2. result' = result \/ Answer(Refused(outcome))
      BY <2>1 DEF Call
    <3>3. result' = result \/ result'.kind = "refused"
      BY <3>2 DEF Answer, Refused
    <3> QED
      BY <3>1, <3>3, OtherKinds, GraphUntouched
  <2>2. CASE NextCall
    <3>1. result'.kind = "none"
      BY <2>2 DEF NextCall, Nothing
    <3> QED
      BY <3>1, OtherKinds, GraphUntouched
  <2> QED
    BY <1>1, <2>1, <2>2 DEF Ask
<1>2. ASSUME NEW data \in Responses, NEW fields \in Whitelists, NEW max \in Limits,
             NEW format \in {"toon", "compact", "whitelist"}, CleanResponse(format, data, fields, max)
      PROVE  GraphInv'
  <2>1. result' = handleCleanResponse(format, data, fields, max) /\ data.json \in BOOLEAN
    BY <1>2, GatewayAssumption DEF CleanResponse, Answer
  <2>2. result'.kind \in {"passthrough", "compact", "dropped", "counted", "table", "throws"}
    BY <2>1, CleaningEnds
  <2> QED
    BY <2>2, OtherKinds, GraphUntouched
<1>3. ASSUME NEW source, NEW native, NEW provider, AskProvider(source, native, provider)
      PROVE  GraphInv'
  <2>1. result.kind = "none"
    <3>1. pc = "called"
      BY <1>3 DEF AskProvider
    <3>2. result = Nothing
      BY <3>1, JustCalled
    <3> QED
      BY <3>2 DEF Nothing
  <2>2. \/ result' = result
        \/ Answer(Refused(provider)) \/ Answer([kind |-> "prompts"])
    BY <1>3 DEF AskProvider
  <2>3. result'.kind \in {"none", "refused", "prompts"}
    BY <2>1, <2>2 DEF Answer, Refused
  <2> QED
    BY <2>3, OtherKinds, GraphUntouched
<1>4. ASSUME NEW source, NEW native, NEW given, ScoreGiven(source, native, given)
      PROVE  GraphInv'
  <2>1. result'.kind = "score"
    BY <1>4 DEF ScoreGiven, Answer, Scored
  <2> QED
    BY <2>1, OtherKinds, GraphUntouched
<1>5. ASSUME NEW requested, NEW type, NEW rebuild, GraphQuery(requested, type, rebuild)
      PROVE  GraphInv'
  <2>1. subject' = subject /\ (result' = result \/ result'.kind = "refused")
    BY <1>5 DEF GraphQuery, Answer, Refused
  <2> QED
    BY <2>1, OtherKinds, GraphUntouched
<1>6. ASSUME NEW requested, NEW rows, Scoped(requested, rows)
      PROVE  GraphInv'
  <2>1. result'.kind \in {"refused", "stats", "cleared"}
    <3>1. CASE resolveProjectRoot(requested) = {}
      BY <1>6, <3>1 DEF Scoped, Answer, Refused
    <3>2. CASE resolveProjectRoot(requested) # {}
      <4>1. PICK scope \in resolveProjectRoot(requested) :
              Answer(IF tool = "gate_session_stats"
                     THEN [kind |-> "stats", told |-> getScopedStats(rows, scope)]
                     ELSE [kind |-> "cleared", cleared |-> clearScoped(rows, scope)])
        BY <1>6, <3>2 DEF Scoped
      <4> QED
        BY <4>1 DEF Answer
    <3> QED
      BY <3>1, <3>2
  <2> QED
    BY <2>1, OtherKinds, GraphUntouched
<1>7. CASE Begin
  BY <1>2, <1>3, <1>4, <1>5, <1>6, <1>7 DEF Begin
<1>8. CASE AnswerPrompt \/ ProviderSettles
  <2>1. UNCHANGED <<result, subject>>
    BY <1>8 DEF AnswerPrompt, ProviderSettles
  <2> QED
    BY <2>1, GraphUntouched
<1>9. CASE Score
  <2>1. result'.kind = "score"
    BY <1>9 DEF Score, Answer, Scored
  <2> QED
    BY <2>1, OtherKinds, GraphUntouched
<1>10. CASE Move
  <2>1. UNCHANGED <<result, subject>>
    BY <1>10 DEF Move, WriteReport, Commit
  <2> QED
    BY <2>1, GraphUntouched
<1> QED
  BY <1>1, <1>7, <1>8, <1>9, <1>10

\* What is answered of the graph is exact, for graphs of any size and shape, any
\* number of matches and any budget.
THEOREM GraphAnswersExact == Spec => []GraphAnswersAreExact
<1>1. Init => GraphInv
  <2> SUFFICES ASSUME Init
               PROVE  GraphInv
    OBVIOUS
  <2>1. result.kind = "none"
    BY DEF Init, Nothing
  <2> QED
    BY <2>1 DEF GraphInv, SymbolTypes, MapTypes
<1>2. GatewayInv /\ GraphInv /\ [Next]_vars => GraphInv'
  <2> SUFFICES ASSUME GatewayInv, GraphInv, [Next]_vars
               PROVE  GraphInv'
    OBVIOUS
  <2>1. CASE Ask \/ Begin \/ ProviderSettles \/ Move
    BY <2>1, OthersUntouched
  <2>2. CASE Continue
    <3>1. ASSUME NEW graph \in Graphs, NEW matches \in Matches, Symbols(graph, matches)
          PROVE  GraphInv'
      BY <3>1, SymbolsAreExact
    <3>2. ASSUME NEW graph \in Graphs, NEW matches \in Matches, NEW asked \in Budgets,
                 SymbolMap(graph, matches, asked)
          PROVE  GraphInv'
      BY <3>2, SymbolMapIsExact
    <3> QED
      BY <2>2, <3>1, <3>2, QueryUntouched, OthersUntouched DEF Continue
  <2>3. CASE UNCHANGED vars
    <3>1. UNCHANGED <<result, subject>>
      BY <2>3 DEF vars
    <3> QED
      BY <3>1, GraphUntouched
  <2> QED
    BY <2>1, <2>2, <2>3 DEF Next
<1>3. GraphInv => GraphAnswersAreExact
  BY ExactAnswers
<1> QED
  BY <1>1, <1>2, <1>3, GatewayInvariant, PTL DEF Spec
==============================================================================
