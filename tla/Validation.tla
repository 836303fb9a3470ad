----------------------------- MODULE Validation -----------------------------
(***************************************************************************)
(* lib/validation.ts, tools/validateCompression.ts, lib/llmProvider.ts:    *)
(* four questions about a compressed view, the answers of a provider, and  *)
(* the score of 0 to 100 made of them.  An answer is what its scorer reads *)
(* in it: how many of the exported names it mentions, and whether it       *)
(* imports the file.  Fractions are exact: the score is a fraction of 12n. *)
(***************************************************************************)
EXTENDS Integers, Sequences, FiniteSets, Collectors

CONSTANT Dollared  \* names that begin or end with a $

Scorers == <<"recall", "usage", "specificity", "specificity">>
Prompts == DOMAIN Scorers

Least(a, b) == IF a < b THEN a ELSE b

\* More names than the scorer wants are as good as one more.
NoAnswer == [named |-> 0, imports |-> FALSE]
Answers(scorer, n) ==
    [named : 0..(IF scorer = "recall" THEN n ELSE Least(n, 4)),
     imports : IF scorer = "usage" THEN BOOLEAN ELSE {FALSE}]

\* The mock's three names are the first in the order of their letters, which
\* the model does not know.  How many of them a scorer can find that looks for
\* whole words, \b...\b: at a $ no word begins or ends.
PlainFirst(names) ==
    {Cardinality(first \ Dollared) :
        first \in {S \in SUBSET names : Cardinality(S) = Least(Cardinality(names), 3)}}

\* What is read in the text of the mock on n names, plain of its three being
\* found.  It lists the names, or half of them; it imports the file and gives
\* three, or gives none.  Names that are among its other words, or are part of
\* a name it gives, are found as well; so is, in the faulty text, the file.
MockProvider(faulty, scorer, n, plain) ==
    CASE scorer = "recall" ->
            [named : (IF faulty THEN (n + 1) \div 2 ELSE n)..n, imports : {FALSE}]
      [] scorer # "recall" /\ ~faulty ->
            [named : plain..Least(n, 4), imports : {scorer = "usage" /\ n > 0}]
      [] OTHER -> Answers(scorer, n)

\* Mentioned names, of n; with nothing to mention nothing is missing: n of n
\* with n = 1.
scoreSymbolRecall(answer, n) == IF n = 0 THEN 1 ELSE answer.named

\* Mutant of scoreUsageCode: the import is not looked for.
usageUnlinked(answer, n) == IF n = 0 THEN 0 ELSE 2 * Least(answer.named, 3)

\* Sixths: three names are enough, without the import they count half.
scoreUsageCode(answer, n) ==
    IF n = 0 THEN 0 ELSE (IF answer.imports THEN 2 ELSE 1) * Least(answer.named, 3)

\* Halves: two names are enough.
scoreSpecificity(answer, n) == IF n = 0 THEN 0 ELSE Least(answer.named, 2)

Rounded(num, den) == (2 * num + den) \div (2 * den)

\* 40 for recall, 35 for usage, 25 for the mean of the two specificities.
aggregateScores(recall, usage, specificity, n) ==
    LET m == IF n = 0 THEN 1 ELSE n
    IN  Rounded(40 * 12 * recall + 35 * 2 * m * usage + 25 * 3 * m * specificity, 12 * m)

scoreAnswers(answers, n) ==
    aggregateScores(scoreSymbolRecall(answers[1], n), scoreUsageCode(answers[2], n),
                    scoreSpecificity(answers[3], n) + scoreSpecificity(answers[4], n), n)

Verdict(aggregate) ==
    CASE aggregate >= 90 -> "excellent" [] aggregate \in 75..89 -> "good"
      [] aggregate \in 60..74 -> "acceptable" [] aggregate \in 30..59 -> "lossy"
      [] OTHER -> "broken"

\* The names the questions are about: what the view itself declares, read by
\* the grammar if there is one.
buildGroundTruth(source, native) ==
    canonicalExportNames(
        IF native
        THEN augmentWithCjsExports(source.lang, traverseNode(source.lang, source.nodes), source.lines)
        ELSE extractSignaturesRegex(source.lang, source.lines))

\* What a request to an Ollama or OpenAI server brings, if it is ever settled:
\* an answer (the body itself when it cannot be parsed), or none (no connection,
\* an HTTP error, 120 s without a byte).  A body that goes on trickling, or ends
\* before it is complete, settles nothing.
postJson(scorer, n) == Answers(scorer, n) \union {NoAnswer}
=============================================================================
