----------------------------- MODULE ToolSurface -----------------------------
(***************************************************************************)
(* lib/toolMode.ts, lib/toolSchemas.ts, tools/invoke.ts and the            *)
(* registrations of main.ts: the two ways to reach a tool.  In full mode   *)
(* every tool is listed; in catalog mode a few are, and gate_invoke        *)
(* dispatches to the rest after it has checked the arguments itself.       *)
(***************************************************************************)
EXTENDS Naturals

Modes == {"catalog", "full"}

CATALOG_CORE_TOOLS ==
    {"gate_help", "gate_init", "gate_compress_file", "gate_graph_query",
     "gate_session_stats", "gate_invoke"}

\* Arguments of each tool: those without a default or .optional(), and all.
TOOL_ARG_SCHEMAS ==
    [gate_optimize_image |-> [required |-> {"imagePath"}, fields |-> {"imagePath", "intent"}],
     gate_compress_file |->
        [required |-> {"filePath"}, fields |-> {"filePath", "depth", "projectRoot"}],
     gate_graph_query |->
        [required |-> {"query"},
         fields |-> {"query", "projectRoot", "queryType", "rebuild", "tokenBudget"}],
     gate_memory |->
        [required |-> {"action", "key"}, fields |-> {"action", "key", "value", "projectRoot"}],
     gate_dedup_context |->
        [required |-> {"action"},
         fields |-> {"action", "filePath", "content", "originalTokens", "projectRoot"}],
     gate_clean_response |->
        [required |-> {"data"}, fields |-> {"data", "format", "whitelist", "maxArrayItems"}],
     gate_proxy_tools |->
        [required |-> {},
         fields |-> {"action", "server", "tool", "maxPerServer", "projectRoot"}],
     gate_proxy_call |->
        [required |-> {"server", "tool"},
         fields |-> {"server", "tool", "args", "format", "whitelist", "maxArrayItems",
                     "projectRoot", "timeoutMs"}],
     gate_validate_compression |->
        [required |-> {"filePath"},
         fields |-> {"filePath", "mode", "responses", "provider", "providerOpts",
                     "projectRoot"}],
     gate_init |-> [required |-> {}, fields |-> {"projectRoot"}],
     gate_session_stats |-> [required |-> {}, fields |-> {"projectRoot"}],
     gate_help |-> [required |-> {}, fields |-> {"tool"}]]

ALL_GATE_TOOLS == DOMAIN TOOL_ARG_SCHEMAS

resolveToolMode(raw) == IF raw = "full" THEN "full" ELSE "catalog"

\* gate_invoke is for the catalog only.
shouldRegisterTool(tool, mode) ==
    IF mode = "full" THEN tool # "gate_invoke" ELSE tool \in CATALOG_CORE_TOOLS

\* given: the arguments that are there; illTyped: those not of their type.
\* Arguments the schema does not know are dropped.
Parses(tool, given, illTyped) ==
    LET schema == TOOL_ARG_SCHEMAS[tool]
    IN  schema.required \subseteq given /\ schema.fields \cap illTyped = {}

\* What gate_invoke says of a call, before any handler is run.
handleInvoke(tool, given, illTyped) ==
    IF tool = "" THEN "requires tool"
    ELSE IF tool = "gate_invoke" THEN "cannot invoke itself"
    ELSE IF tool \notin ALL_GATE_TOOLS THEN "unknown tool"
    ELSE IF ~Parses(tool, given, illTyped) THEN "invalid args"
    ELSE "dispatched"

\* What becomes of a call by name: a tool that is not listed cannot be called.
registerGateTool(tool, mode, given, illTyped) ==
    IF ~shouldRegisterTool(tool, mode) THEN "not listed"
    ELSE IF tool \in ALL_GATE_TOOLS /\ ~Parses(tool, given, illTyped) THEN "invalid args"
    ELSE "dispatched"
==============================================================================
