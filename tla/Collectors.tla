----------------------------- MODULE Collectors -----------------------------
(***************************************************************************)
(* lib/astParser.ts, the collectors: which nodes of a syntax tree go into  *)
(* which list of a signature, and which lines the patterns of the fallback *)
(* take; and canonicalExportNames (lib/validation.ts), which recovers from *)
(* the entries the names a module is taken to export.                      *)
(***************************************************************************)
EXTENDS Naturals, FiniteSets

Lists == {"imports", "exports", "functions", "classes"}
Collects(i, e, f, c) == [imports |-> i, exports |-> e, functions |-> f, classes |-> c]
NoneOf == Collects({}, {}, {}, {})

collectJsTsNode ==
    Collects({"import_statement", "import_declaration"},
             {"export_statement", "export_declaration"},
             {"function_declaration", "method_definition", "arrow_function"},
             {"class_declaration", "interface_declaration"})
collectPythonNode ==
    Collects({"import_statement", "import_from_statement"}, {},
             {"function_definition"}, {"class_definition"})
collectJavaNode ==
    Collects({"import_declaration"}, {}, {"method_declaration", "constructor_declaration"},
             {"class_declaration", "interface_declaration", "enum_declaration"})
collectCsharpNode ==
    Collects({"using_directive"}, {}, {"method_declaration", "constructor_declaration"},
             {"class_declaration", "interface_declaration", "struct_declaration",
              "enum_declaration", "record_declaration"})
collectCppNode ==
    Collects({"preproc_include"}, {}, {"function_definition", "function_declarator"},
             {"class_specifier", "struct_specifier"})
collectGoNode ==
    Collects({"import_spec", "import_declaration"}, {},
             {"function_declaration", "method_declaration"}, {"type_declaration"})
collectRustNode ==
    Collects({"use_declaration"}, {}, {"function_item"},
             {"struct_item", "enum_item", "trait_item", "impl_item"})
collectHtmlNode == Collects({"script_element", "style_element"}, {}, {}, {"element"})
collectCssNode == Collects({"import_statement"}, {}, {"rule_set"}, {})
collectJsonNode == Collects({}, {}, {}, {"pair"})
collectPhpNode ==
    Collects({"namespace_use_declaration"}, {}, {"function_definition", "method_declaration"},
             {"class_declaration", "interface_declaration"})
collectRubyNode == Collects({"call"}, {}, {"method"}, {"module", "class"})
collectKotlinNode ==
    Collects({"import_header"}, {}, {"function_declaration"}, {"class_declaration"})
collectSwiftNode ==
    Collects({"import_declaration"}, {}, {"function_declaration"},
             {"class_declaration", "protocol_declaration"})
collectBashNode == Collects({"command"}, {}, {"function_definition"}, {})

\* The keyword an entry starts with is the collector's, not the source's: that
\* of functions by language, that of types by node.
FunctionKeyword ==
    [javascript |-> "function", typescript |-> "function", tsx |-> "function",
     php |-> "function", python |-> "def", ruby |-> "def", go |-> "func", rust |-> "fn",
     kotlin |-> "fun", swift |-> "func", java |-> "", csharp |-> "", cpp |-> "", c |-> "",
     bash |-> "", css |-> ""]

ClassKeywords ==
    [class |-> {"class_declaration", "class_definition", "class_specifier", "class"},
     interface |-> {"interface_declaration"}, struct |-> {"struct_declaration", "struct_specifier",
     "struct_item"}, enum |-> {"enum_declaration", "enum_item"}, record |-> {"record_declaration"},
     trait |-> {"trait_item"}, impl |-> {"impl_item"}, module |-> {"module"},
     protocol |-> {"protocol_declaration"}, type |-> {"type_declaration"}]

ClassKeyword(type) ==
    IF \E w \in DOMAIN ClassKeywords : type \in ClassKeywords[w]
    THEN CHOOSE w \in DOMAIN ClassKeywords : type \in ClassKeywords[w] ELSE ""

CollectorOf(lang) ==
    CASE lang \in {"javascript", "typescript", "tsx"} -> collectJsTsNode
      [] lang = "python" -> collectPythonNode [] lang = "java" -> collectJavaNode
      [] lang = "csharp" -> collectCsharpNode [] lang \in {"cpp", "c"} -> collectCppNode
      [] lang = "go" -> collectGoNode [] lang = "rust" -> collectRustNode
      [] lang = "html" -> collectHtmlNode [] lang = "css" -> collectCssNode
      [] lang = "json" -> collectJsonNode [] lang = "php" -> collectPhpNode
      [] lang = "ruby" -> collectRubyNode [] lang = "kotlin" -> collectKotlinNode
      [] lang = "swift" -> collectSwiftNode [] lang = "bash" -> collectBashNode
      [] OTHER -> NoneOf

\* A node: its type; the form of what it exports; its name; and whether it has
\* what its collector asks for (a name field, a short head, an id, the word
\* require or source, a JSON depth of at most 8).
Entry(lang, list, node) ==
    [keyword |-> CASE list = "exports" -> node.form
                   [] list = "functions" -> FunctionKeyword[lang]
                   [] list = "classes" -> ClassKeyword(node.type)
                   [] OTHER -> "import",
     name |-> node.name]

\* Every node of the tree is visited.
traverseNode(lang, nodes) ==
    [list \in Lists |->
        {Entry(lang, list, n) : n \in {m \in nodes : m.fits /\ m.type \in CollectorOf(lang)[list]}}]

\* The fallback, line by line: how the lines it takes start.
LineStarts ==
    Collects({"import", "from", "require", "use", "using", "#include", "@import"},
             {"export function", "export class", "export const", "export group",
              "exports.", "module.exports", "module.exports."},
             {"function", "export function", "def", "func", "fn", "sub", "public method"},
             {"class", "export class", "interface", "struct", "trait", "enum", "type struct"})

LineStartsOf(lang, list) ==
    LineStarts[list] \union
    CASE lang = "sql" /\ list = "functions" -> {"create table"}
      [] lang = "yaml" /\ list = "classes" -> {"key:"}
      [] lang = "bash" /\ list = "functions" -> {"name()"}
      [] lang = "markdown" /\ list = "classes" -> {"heading"}
      [] OTHER -> {}

extractSignaturesRegex(lang, lines) ==
    [list \in Lists |->
        {[keyword |-> l.form, name |-> l.name] : l \in {m \in lines : m.form \in LineStartsOf(lang, list)}}]

\* CommonJS exports, which are no export nodes, are added by line.
augmentWithCjsExports(lang, sig, lines) ==
    LET Lines(forms) == {l \in lines : l.form \in forms}
    IN  IF lang \notin {"javascript", "typescript", "tsx"} THEN sig
        ELSE [sig EXCEPT !.exports = @
                \union {[keyword |-> "exports.", name |-> l.name] :
                            l \in Lines({"exports.", "module.exports."})}
                \union {[keyword |-> "module.exports", name |-> l.name] :
                            l \in Lines({"module.exports"})}]

-----------------------------------------------------------------------------
(* The reader of the entries. *)

\* The first word after "export", "default", "async" and a keyword it knows:
\* for "abstract class", "exports.", "module.exports" (with a name or without)
\* and, without its braces, an export list, that is not the name.
canonicalExportNames(sig) ==
    {e.name : e \in {x \in sig.exports : x.keyword \in
        {"function", "class", "const", "interface", "type", "group", "default",
         "export function", "export class", "export const"}}}
    \union {"abstract" : e \in {x \in sig.exports : x.keyword = "abstract class"}}
    \union {"exports" : e \in {x \in sig.exports : x.keyword = "exports."}}
    \union {"module" : e \in {x \in sig.exports :
                                    x.keyword \in {"module.exports", "module.exports."}}}
    \union {"export" : e \in {x \in sig.exports : x.keyword = "export group"}}
    \union {e.name : e \in {x \in sig.functions : x.keyword = "function"}}
    \union {e.name : e \in {x \in sig.classes : x.keyword = "class"}}
=============================================================================
