----------------------------- MODULE Signatures -----------------------------
(***************************************************************************)
(* lib/astParser.ts: which declarations of a source file Gate sees.  A     *)
(* source is what its readers make of it: the collectors of its language   *)
(* over a syntax tree, the line patterns of the fallback, and the patterns *)
(* for CommonJS exports.  Which of them read it depends on the grammars    *)
(* that could be loaded, which the process finds out once per grammar.     *)
(***************************************************************************)
EXTENDS Naturals, FiniteSets

CONSTANTS
    Decls   \* declarations: imports, classes, functions, exports

\* What extname says, by the language it stands for.
ExtensionsOf ==
    [javascript |-> {".js", ".jsx", ".mjs", ".cjs"}, typescript |-> {".ts", ".mts", ".cts"},
     tsx |-> {".tsx"}, python |-> {".py", ".pyi"}, java |-> {".java"}, csharp |-> {".cs"},
     cpp |-> {".cpp", ".cc", ".cxx", ".hpp", ".hxx", ".h"}, c |-> {".c"}, go |-> {".go"},
     rust |-> {".rs"}, ruby |-> {".rb"}, php |-> {".php"}, kotlin |-> {".kt", ".kts"},
     swift |-> {".swift"}, scala |-> {".scala", ".sc"}, html |-> {".html", ".htm"},
     css |-> {".css", ".scss", ".sass", ".less"}, json |-> {".json", ".jsonc"},
     yaml |-> {".yaml", ".yml"}, sql |-> {".sql"}, bash |-> {".sh", ".bash", ".zsh"},
     vue |-> {".vue"}, svelte |-> {".svelte"}, markdown |-> {".md", ".markdown", ".mdx"}]

Languages == DOMAIN ExtensionsOf \union {"unknown"}

detectLanguage(ext) ==
    IF \E l \in DOMAIN ExtensionsOf : ext \in ExtensionsOf[l]
    THEN CHOOSE l \in DOMAIN ExtensionsOf : ext \in ExtensionsOf[l]
    ELSE "unknown"

\* Languages without a grammar to load.
Ungrammared == {"vue", "yaml", "svelte", "sql", "scala", "markdown", "unknown"}
JsLanguages == {"javascript", "typescript", "tsx"}

\* native, cjs, regex: the declarations each reader finds (native is the outline
\* of JSON that can be parsed); json: whether JSON.parse accepts the source;
\* tree: whether the grammar makes sense of it, gives up with an ERROR root, or
\* throws.
Source ==
    [lang : Languages, flow : BOOLEAN, json : BOOLEAN, tree : {"ok", "error", "throws"},
     native : SUBSET Decls, cjs : SUBSET Decls, regex : SUBSET Decls]

\* parserCache and parserLoadFailures.
Grammars == [Languages -> {"untried", "loaded", "failed"}]
NoGrammars == [l \in Languages |-> "untried"]

\* Flow-typed JavaScript is parsed as TSX.
pickGrammarLanguage(source) ==
    IF source.lang = "javascript" /\ source.flow THEN "tsx" ELSE source.lang

\* Any other JSON goes the way of the languages with a grammar.
IsOutlined(source) == source.lang = "json" /\ source.json

\* The grammars after those for a source were looked up: loading may fail, once.
getParser(grammars, source) ==
    LET l == pickGrammarLanguage(source)
    IN  IF IsOutlined(source) \/ l \in Ungrammared \/ grammars[l] # "untried"
        THEN {grammars}
        ELSE {[grammars EXCEPT ![l] = "loaded"], [grammars EXCEPT ![l] = "failed"]}

augmentWithCjsExports(source) ==
    IF source.lang \in JsLanguages THEN source.native \union source.cjs ELSE source.native

\* Whatever goes wrong with the tree, the fallback reads the lines.
extractSignatures(grammars, source) ==
    IF IsOutlined(source) THEN source.native
    ELSE IF grammars[pickGrammarLanguage(source)] = "loaded" /\ source.tree = "ok"
         THEN augmentWithCjsExports(source)
         ELSE source.regex
=============================================================================
