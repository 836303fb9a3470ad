-------------------------- MODULE MemoryMigration --------------------------
(***************************************************************************)
(* gate_memory on SQLite: lib/memoryDb.ts from openSqlite and              *)
(* migrateMemorySchema over maybeMigrateJsonToSqlite to the operations.    *)
(*                                                                         *)
(* Several Gate processes open the database of one project, whose tables   *)
(* may be those of an earlier version, and which is not there at all when  *)
(* an earlier version has run on memory.json.  Nothing runs in a           *)
(* transaction: a step is one statement or one file-system call, those of  *)
(* two processes interleave, and a process may be killed between any two.  *)
(* The scope (root_key) is that of the project; ages are left out.         *)
(***************************************************************************)
EXTENDS Naturals, FiniteSets

CONSTANTS
    Procs,         \* Gate servers
    Keys, Values,  \* what agents remember
    MaxEntries,    \* MAX_MEMORY_ENTRIES
    None           \* "no row", "no file"

Rows == [Keys -> Values \union {None}]

ASSUME LimitAssumption == MaxEntries \in Nat \ {0}
ASSUME NoneAssumption == None \notin Values \union Rows

VARIABLES
    legacy,       \* memory_entries: absent, as of v0.5.5, or of a release candidate
    table,        \* memory_entries_v2: absent, of unknown columns, or in use
    json,         \* memory.json
    proc,         \* the processes
    origin,       \* history: the rows of memory_entries before the first open
    touched,      \* history: the keys that operations on the table have changed
    interrupted,  \* history: an import of legacy rows was given up
    redropped     \* history: a table in use was dropped as incompatible

vars == <<legacy, table, json, proc, origin, touched, interrupted, redropped>>

\* Where an open is, by the next thing it does; where an operation is.
Opening == {"scoped", "drop", "create", "move", "dropLegacy", "import", "restore", "prepare"}
Importing == {"exists", "count", "load", "row", "lru", "rename"}
PCs == {"closed", "open", "evict", "json", "save"} \union Opening \union Importing

Proc == [pc : PCs,
         seen : {"none", "v1", "rc"},  \* the layout legacyColumns show
         fresh : BOOLEAN,              \* shouldImportLegacy
         payload : Rows,               \* what memory.json held, or is to hold
         left : SUBSET Keys]           \* its rows that are not imported yet

TypeOK ==
    /\ legacy \in [layout : {"none", "v1", "rc"}, rows : Rows]
    /\ table \in [layout : {"none", "odd", "v2"}, rows : Rows]
    /\ json \in Rows \union {None}
    /\ proc \in [Procs -> Proc]
    /\ origin \in Rows
    /\ touched \subseteq Keys
    /\ interrupted \in BOOLEAN
    /\ redropped \in BOOLEAN

NoRows == [k \in Keys |-> None]
Absent == [layout |-> "none", rows |-> NoRows]
Used(rows) == {k \in Keys : rows[k] # None}

Closed == [pc |-> "closed", seen |-> "none", fresh |-> FALSE, payload |-> NoRows, left |-> {}]

Init ==
    /\ \/ legacy = Absent
       \/ \E layout \in {"v1", "rc"}, rows \in Rows :
            legacy = [layout |-> layout, rows |-> rows]
    /\ \E layout \in {"none", "odd"} : table = [Absent EXCEPT !.layout = layout]
    /\ json \in Rows \union {None}
    /\ proc = [p \in Procs |-> Closed]
    /\ origin = legacy.rows
    /\ touched = {}
    /\ interrupted = FALSE
    /\ redropped = FALSE

-----------------------------------------------------------------------------
(* Helpers *)

At(p, pc) == proc[p].pc = pc
Goto(p, pc) == proc' = [proc EXCEPT ![p].pc = pc]

\* A function returns: its locals are gone.
Return(p, pc) == proc' = [proc EXCEPT ![p] = [Closed EXCEPT !.pc = pc]]

\* What INSERT OR REPLACE leaves of two sets of rows.
Merged(rows, new) == [k \in Keys |-> IF new[k] # None THEN new[k] ELSE rows[k]]
Without(rows, gone) == [k \in Keys |-> IF k \in gone THEN None ELSE rows[k]]

\* What loadJsonPayload finds: a file that has gone, or cannot be looked up,
\* read or parsed, has no entries.
Stored == IF json = None THEN {NoRows} ELSE {NoRows, json}

\* What an eviction may remove: the excess of entries, and for the sake of the
\* byte limit any number more.
Evictable(rows) ==
    {gone \in SUBSET Used(rows) : Cardinality(Used(rows)) <= MaxEntries + Cardinality(gone)}

-----------------------------------------------------------------------------
(* migrateMemorySchema *)

\* Mutant of Open: the columns of the wrong table.
OpenOther(p) ==
    /\ At(p, "closed")
    /\ proc' = [proc EXCEPT ![p].pc = "scoped", ![p].seen = table.layout]
    /\ UNCHANGED <<legacy, table, json, origin, touched, interrupted, redropped>>

\* The first request of a process: the columns of memory_entries...
Open(p) ==
    /\ At(p, "closed")
    /\ proc' = [proc EXCEPT ![p].pc = "scoped", ![p].seen = legacy.layout]
    /\ UNCHANGED <<legacy, table, json, origin, touched, interrupted, redropped>>

\* ...and those of memory_entries_v2 decide what is to be done.
ReadScoped(p) ==
    /\ At(p, "scoped")
    /\ proc' = [proc EXCEPT ![p].pc = IF table.layout = "odd" THEN "drop" ELSE "create",
                            ![p].fresh = table.layout # "v2"]
    /\ UNCHANGED <<legacy, table, json, origin, touched, interrupted, redropped>>

DropIncompatible(p) ==
    /\ At(p, "drop")
    /\ table' = Absent
    /\ redropped' = (redropped \/ table.layout = "v2")
    /\ Goto(p, "create")
    /\ UNCHANGED <<legacy, json, origin, touched, interrupted>>

\* Mutant of CreateTable: shouldImportLegacy is computed after the creation.
CreateTableThenLook(p) ==
    /\ At(p, "create")
    /\ table' = IF table.layout = "none" THEN [table EXCEPT !.layout = "v2"] ELSE table
    /\ Goto(p, IF proc[p].seen = "rc" THEN "move" ELSE "restore")
    /\ UNCHANGED <<legacy, json, origin, touched, interrupted, redropped>>

\* createMemorySchema.
CreateTable(p) ==
    /\ At(p, "create")
    /\ table' = IF table.layout = "none" THEN [table EXCEPT !.layout = "v2"] ELSE table
    /\ Goto(p, CASE proc[p].seen = "rc" -> "move"
                 [] proc[p].seen = "v1" /\ proc[p].fresh -> "import"
                 [] OTHER -> "restore")
    /\ UNCHANGED <<legacy, json, origin, touched, interrupted, redropped>>

\* Mutant of MoveRows: an error of the copy is not noticed.
MoveRowsUnnoticed(p) ==
    /\ At(p, "move")
    /\ Goto(p, "dropLegacy")
    /\ UNCHANGED <<legacy, table, json, origin, touched, interrupted, redropped>>

\* The rows of a release candidate are copied...
MoveRows(p) ==
    /\ At(p, "move")
    /\ legacy.layout = "rc" /\ table.layout = "v2"
    /\ table' = [table EXCEPT !.rows = Merged(@, legacy.rows)]
    /\ Goto(p, "dropLegacy")
    /\ UNCHANGED <<legacy, json, origin, touched, interrupted, redropped>>

\* Mutant of DropLegacy: the table is kept.
DropLegacyKept(p) ==
    /\ At(p, "dropLegacy")
    /\ Goto(p, "restore")
    /\ UNCHANGED <<legacy, table, json, origin, touched, interrupted, redropped>>

\* ...and their table dropped, whatever it is by now.
DropLegacy(p) ==
    /\ At(p, "dropLegacy")
    /\ legacy.layout # "none"
    /\ legacy' = Absent
    /\ Goto(p, "restore")
    /\ UNCHANGED <<table, json, origin, touched, interrupted, redropped>>

\* The rows of a v0.5.5 table are copied and stay where they are.
ImportLegacy(p) ==
    /\ At(p, "import")
    /\ legacy.layout # "none" /\ table.layout = "v2"
    /\ table' = [table EXCEPT !.rows = Merged(@, legacy.rows)]
    /\ Goto(p, "restore")
    /\ UNCHANGED <<legacy, json, origin, touched, interrupted, redropped>>

\* createLegacyMemorySchema.
RestoreLegacy(p) ==
    /\ At(p, "restore")
    /\ legacy' = IF legacy.layout = "none" THEN [legacy EXCEPT !.layout = "v1"] ELSE legacy
    /\ Goto(p, "prepare")
    /\ UNCHANGED <<table, json, origin, touched, interrupted, redropped>>

Prepare(p) ==
    /\ At(p, "prepare")
    /\ table.layout = "v2"
    /\ Return(p, "exists")
    /\ UNCHANGED <<legacy, table, json, origin, touched, interrupted, redropped>>

\* A statement fails, as one does whose table another process has dropped: the
\* process works on memory.json from now on.
OpenFails(p) ==
    /\ proc[p].pc \in Opening
    /\ Return(p, "json")
    /\ interrupted' = (interrupted \/ At(p, "import"))
    /\ UNCHANGED <<legacy, table, json, origin, touched, redropped>>

-----------------------------------------------------------------------------
(* maybeMigrateJsonToSqlite *)

FileExists(p) ==
    /\ At(p, "exists")
    /\ Goto(p, IF json = None THEN "open" ELSE "count")
    /\ UNCHANGED <<legacy, table, json, origin, touched, interrupted, redropped>>

CountRows(p) ==
    /\ At(p, "count")
    /\ table.layout = "v2"
    /\ Goto(p, IF Used(table.rows) = {} THEN "load" ELSE "open")
    /\ UNCHANGED <<legacy, table, json, origin, touched, interrupted, redropped>>

\* The rows to import.
LoadFile(p) ==
    /\ At(p, "load")
    /\ \E payload \in Stored :
        proc' = [proc EXCEPT ![p].payload = payload,
                             ![p].left = Used(payload),
                             ![p].pc = IF Used(payload) = {} THEN "open" ELSE "row"]
    /\ UNCHANGED <<legacy, table, json, origin, touched, interrupted, redropped>>

\* stmtPut, one row at a time.
ImportRow(p, k) ==
    /\ At(p, "row")
    /\ k \in proc[p].left
    /\ table.layout = "v2"
    /\ table' = [table EXCEPT !.rows[k] = proc[p].payload[k]]
    /\ proc' = [proc EXCEPT ![p].left = @ \ {k},
                            ![p].pc = IF proc[p].left = {k} THEN "lru" ELSE "row"]
    /\ UNCHANGED <<legacy, json, origin, touched, interrupted, redropped>>

\* enforceLruSqlite after an import or a put, taken as one step: what other
\* sessions do between its statements can only change which rows go.
EnforceLru(p, from, to) ==
    /\ At(p, from)
    /\ table.layout = "v2"
    /\ \E gone \in Evictable(table.rows) :
        /\ table' = [table EXCEPT !.rows = Without(@, gone)]
        /\ touched' = touched \union gone
    /\ Goto(p, to)
    /\ UNCHANGED <<legacy, json, origin, interrupted, redropped>>

\* memory.json becomes memory.json.migrated; a failure is only logged.
RenameFile(p) ==
    /\ At(p, "rename")
    /\ json' \in {None, json}
    /\ Return(p, "open")
    /\ UNCHANGED <<legacy, table, origin, touched, interrupted, redropped>>

\* Mutant of StatementFails: the import goes on without the row.
StatementFailsUnnoticed(p) ==
    /\ proc[p].pc \in {"row", "lru"}
    /\ Goto(p, "rename")
    /\ UNCHANGED <<legacy, table, json, origin, touched, interrupted, redropped>>

\* A statement throws: the request fails, and an import is not tried again.
StatementFails(p) ==
    /\ proc[p].pc \in {"count", "row", "lru", "evict"}
    /\ Return(p, "open")
    /\ UNCHANGED <<legacy, table, json, origin, touched, interrupted, redropped>>

-----------------------------------------------------------------------------
(* The operations, on the table... *)

Put(p, k, v) ==
    /\ At(p, "open")
    /\ table.layout = "v2"
    /\ table' = [table EXCEPT !.rows[k] = v]
    /\ touched' = touched \union {k}
    /\ Goto(p, "evict")
    /\ UNCHANGED <<legacy, json, origin, interrupted, redropped>>

\* memoryDelete is of one key, memoryClear of all.
Removals == {{k} : k \in Keys} \union {Keys}

Remove(p, gone) ==
    /\ At(p, "open")
    /\ table.layout = "v2"
    /\ table' = [table EXCEPT !.rows = Without(@, gone)]
    /\ touched' = touched \union gone
    /\ UNCHANGED <<legacy, json, proc, origin, interrupted, redropped>>

\* ...and on memory.json, under the lock that JsonMemory is about: the process
\* loads the payload, changes it and saves it.
JsonLoad(p, payload) ==
    /\ At(p, "json")
    /\ \A q \in Procs : ~At(q, "save")
    /\ proc' = [proc EXCEPT ![p].pc = "save", ![p].payload = payload]
    /\ UNCHANGED <<legacy, table, json, origin, touched, interrupted, redropped>>

JsonPut(p, k, v) ==
    \E payload \in Stored : LET rows == [payload EXCEPT ![k] = v] IN
        \E gone \in Evictable(rows) : JsonLoad(p, Without(rows, gone))

JsonRemove(p, gone) == \E payload \in Stored : JsonLoad(p, Without(payload, gone))

JsonSave(p) ==
    /\ At(p, "save")
    /\ json' = proc[p].payload
    /\ Return(p, "json")
    /\ UNCHANGED <<legacy, table, origin, touched, interrupted, redropped>>

\* The process exits or is killed; a new one may take its place.
Crash(p) ==
    /\ ~At(p, "closed")
    /\ Return(p, "closed")
    /\ interrupted' = (interrupted \/ At(p, "import"))
    /\ UNCHANGED <<legacy, table, json, origin, touched, redropped>>

Opens(p) ==
    \/ Open(p)
    \/ ReadScoped(p)
    \/ DropIncompatible(p)
    \/ CreateTable(p)
    \/ MoveRows(p)
    \/ DropLegacy(p)
    \/ ImportLegacy(p)
    \/ RestoreLegacy(p)
    \/ Prepare(p)
    \/ OpenFails(p)

ImportsFile(p) ==
    \/ FileExists(p)
    \/ CountRows(p)
    \/ LoadFile(p)
    \/ \E k \in Keys : ImportRow(p, k)
    \/ EnforceLru(p, "lru", "rename")
    \/ RenameFile(p)

Operates(p) ==
    \/ \E k \in Keys, v \in Values : Put(p, k, v)
    \/ EnforceLru(p, "evict", "open")
    \/ \E gone \in Removals : Remove(p, gone)
    \/ StatementFails(p)
    \/ \E k \in Keys, v \in Values : JsonPut(p, k, v)
    \/ \E gone \in Removals : JsonRemove(p, gone)
    \/ JsonSave(p)

Next == \E p \in Procs : Opens(p) \/ ImportsFile(p) \/ Operates(p) \/ Crash(p)

Spec == Init /\ [][Next]_vars

-----------------------------------------------------------------------------
(* Properties *)

\* The session works on the database, or is about to import memory.json.
Opened(p) == proc[p].pc \in Importing \union {"open", "evict"}

\* A migration loses no row of an earlier version, wherever it is cut off and
\* whatever others do meanwhile: a row that no operation has changed is where
\* it was, or is in the new table under its key.
MovedRowsSurvive ==
    redropped \/ \A k \in Keys \ touched :
        origin[k] # None =>
            \/ legacy.layout # "none" /\ legacy.rows[k] = origin[k]
            \/ table.layout = "v2" /\ table.rows[k] = origin[k]

\* Moving the rows of a release candidate undoes nothing, however often it is
\* repeated: it neither replaces what a session has stored in the new table
\* nor brings back what one has deleted.
MoveUndoesNothing ==
    [][\A p \in Procs :
          At(p, "move") /\ At(p, "dropLegacy")' /\ ~redropped =>
              \A k \in touched : table'.rows[k] = table.rows[k]]_vars

\* Sessions that open the database at the same time do not keep each other from
\* the rows of the earlier version: while one works on the database, an
\* untouched row is there for it, or another session is just about to import
\* it, unless an import was given up.
RacesHideNothing ==
    interrupted \/ redropped \/ \A k \in Keys \ touched :
        origin[k] # None /\ (\E p \in Procs : Opened(p)) =>
            table.rows[k] # None \/ \E q \in Procs : At(q, "import")

\* memory.json is put aside only when every key it had when it was read has a
\* row in the database, or has had one that an operation changed.
FilePutAsideComplete ==
    redropped \/ \A p \in Procs :
        At(p, "rename") => Used(proc[p].payload) \subseteq touched \union Used(table.rows)
=============================================================================
