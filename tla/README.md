# Gate MCP in TLA+

Gate (`src/`) is an MCP server on stdio: one Node process per IDE session, one
JavaScript thread per process, asynchronous request handlers.  Within a process,
handlers interleave at every `await`.  Between processes, the sessions of one
user share files: the SQLite cache, the memory store, and the source files that
editors change underneath all of them.  This directory holds the TLA+
specifications of that behaviour, the TLC configurations that check them on
small instances, and proofs about them that TLAPS checks.

Paths below are relative to `src/src/` unless they start with `src/`.

## Inventory

| Component | Files | State it keeps | Operations |
|---|---|---|---|
| Proxy pool | `lib/proxyClient.ts`, `tools/proxyTools.ts` | `connections` and `pendingConnects` (maps from root and server name), the tool catalog of each connection, the child processes, `proxy-servers.json` | call, list, describe, refresh, close all |
| Compression cache | `tools/compressFile.ts`, `tools/dedupContext.ts`, `lib/cacheDb.ts` | rows keyed by path, hash, depth, language and versions, in a SQLite file shared by the sessions | check, store, clear, LRU eviction |
| Cache schema and eviction | `lib/cacheDb.ts` | the tables of three versions, a stamp, the handles or a `Map` in memory | open, migrate, put, evict, remove, close |
| Memory store, JSON fallback | `lib/memoryDb.ts`, `tools/memory.ts` | `memory.json`, `memory.json.lock` | put, get, list, delete, clear |
| Memory store, SQLite | `lib/memoryDb.ts` | the table of entries, a schema version, an imported `memory.json` | the same, migrate, import, evict |
| Process lifecycle | `main.ts` | the shutdown flag, the transport | register tools, graceful shutdown |
| Image optimisation and OCR | `lib/imageProcessor.ts`, `tools/optimizeImage.ts` | one OCR worker shared by the handlers, temporary files | optimise, recognise, terminate |
| Symbol graph | `lib/symbolGraph.ts`, `lib/symbolGraphViz.ts` | one graph in memory, with its root and the manifest of its files | discover, stat, read, keep, traverse, map |
| Response cleaning | `tools/cleanResponse.ts` | none | tabular and whitelist conversion |
| Path guard, project root | `lib/pathGuard.ts`, `lib/projectRoot.ts`, `lib/cacheScope.ts` | none; the trusted root is configuration | resolve, contain, find a report, scope |
| Graphify bridge | `tools/graphQuery.ts`, `lib/graphify*.ts` | whether the program is installed; its report is on disk | read, freshness, run |
| Tool surface | `main.ts`, `lib/toolMode.ts`, `lib/toolSchemas.ts`, `tools/invoke.ts` | mode of the server | list, dispatch by name |
| Session metrics | `lib/sessionMetrics.ts` | counters | record, report |
| Source analysis | `lib/astParser.ts`, `lib/validation.ts`, `tools/validateCompression.ts`, `lib/llmProvider.ts` | the grammars that were loaded, or failed to be | outline a file, ask about it, score the answers |

Interactions: `proxyTools` calls `proxyClient`, which drives SDK clients and
child processes.  `compressFile` calls `checkCache` and `storeInCache` of
`dedupContext`, which call the row operations of `cacheDb`.  `memory` calls
`memoryDb`, on SQLite when that is there and on JSON otherwise.
`gracefulShutdown` sets a flag, awaits the end of the OCR worker, closes the
databases, awaits `closeAllProxies`, and exits, while handlers may go on.
`main.ts` registers the tools its mode lists, and `gate_invoke` dispatches to the
others.  `graphQuery` asks the symbol graph, and the report graphify has left on disk; `sessionStats`
and the clear of `dedupContext` see the rows of `cacheDb` through `cacheScope`.
`validateCompression` reads a file as `compressFile` does and waits for a provider.

What is hard in it, and what correctness means there:

- **Proxy pool.**  Handlers, handshakes, timers, refreshes, crashes of children
  and a shutdown all change two maps.  Correct: no process is started twice for
  one key or lost from the maps while it lives, a connection being closed is
  handed to nobody, projects are kept apart, and every handler returns.
- **Compression cache.**  A request hashes its file, looks up, reads the file,
  hashes it again and stores, in separate steps; other sessions store, evict,
  clear, and editors save in between.  Correct: what is served as "unchanged" is
  a view of what the file holds.
- **JSON memory.**  A lock file with stale-lock removal, whose owner may be
  killed anywhere.  Correct: it excludes, no update is lost, every call returns.
- **SQLite stores.**  Several processes migrate one file without a transaction;
  eviction has an entry and a byte limit, in separate statements.  Correct: a
  migration keeps the rows, brings none back, and eviction keeps the limits without
  taking more than it must.
- **Images.**  A worker that is checked for in one step and published in another,
  terminated by a shutdown that may overtake its creation; temporary files that images
  of one base name share.  Correct: a reply shows the image it was asked for, and
  workers do not pile up.
- **Symbol graph.**  A kept graph must be rebuilt when a file has changed, which is
  told from stats that are taken before the files are read; traversals have a limit on
  depth, maps on tokens.  Correct: a kept graph shows the files as they are, a
  traversal visits what is in reach, a map fits and leaves out the least.
- **Graph query.**  A report and a HEAD that other programs write are read several
  times in one query.  Correct: an outdated map carries its warning.
- **Cleaning, scoring, scopes.**  Pure algorithms with samples, weights, thresholds and
  paths.  Correct: tables lose nothing silently, a verdict is earned, a clear stays
  below its directory.

`PROJECT.json` lists each hazard at its line with the properties that cover it.
Some hazards are in the model and covered by no property: the code does what it does there,
nothing in the repository says otherwise, and an invariant can only name the case as its
exception.  Such an invariant shows that there is no other way to what it excludes, not
that this way is shut.  They are:

- a lock judged stale and replaced before it is removed, the lock of a successor
  removed by a process that has overstayed, and a failed read of `memory.json` that is taken for
  an empty file (`JsonMemory`);
- a crash between the new table and the import of the old rows, a second first open that
  drops or imports again, and an import of `memory.json` that stopped part of the way
  (`MemoryMigration`);
- two evictions that count one excess, and a database opened again after its close (`CacheStore`);
- a clash of two handlers over one temporary file, and a worker terminated under a handler
  (`ImageTool`);
- fields that no sampled item has, the two ways of counting what a clear has removed, a report that is
  replaced between the looks of one query, and a provider that never settles its request (`Gateway`);
- a fresh row dropped as stale, which costs a miss (`CompressCache`).

## Modules

| Module | What it is |
|---|---|
| `ProxyPool` | pool, handlers, children, configuration and shutdown |
| `SingleFlight` | abstract specification of the pool: one slot per key |
| `MCProxyPool` | instances of `ProxyPool` |
| `ProxyPoolProofs` | inductive invariant of `ProxyPool` and its refinement of `SingleFlight` |
| `CompressCache`, `MCCompressCache`, `CompressCacheProofs` | requests over the shared cache rows |
| `JsonMemory`, `MCJsonMemory`, `JsonMemoryProofs` | operations under the lock file |
| `ImageTool`, `MCImageTool`, `ImageToolProofs` | handlers over the OCR worker and the temporary files, with the shutdown that ends the worker |
| `MemoryMigration`, `MCMemoryMigration`, `MemoryMigrationProofs` | processes that open, migrate and use the SQLite memory store, with the fallback to `memory.json` |
| `CacheStore`, `MCCacheStore`, `CacheStoreProofs` | processes that open, migrate and use the cache database, with both limits of its eviction and the fallback to memory |
| `SymbolGraph`, `MCSymbolGraph`, `SymbolGraphProofs` | the graph kept in memory, its manifest, and the files that change underneath |
| `Signatures` | which reader sees which declarations of a source; used by `SymbolGraph` |
| `Gateway`, `MCGateway`, `GatewayProofs` | a call from the request to the answer; composes the six modules below |
| `ToolSurface` | modes, registrations, argument schemas, `gate_invoke` |
| `ProjectRoot` | containment, the root of a call, the walk to a report, scopes of the cache |
| `SymbolQueries` | traversals, searches, budgeted maps and pictures of a graph |
| `CleanResponse` | conversions of JSON into tables |
| `Validation`, `Collectors` | the names a source declares, the questions about them, the scores |

`JsonMemory` and `MemoryMigration` share `memory.json`: the first is about its lock, the
second takes the lock for granted.  `CompressCache` and `CacheStore` share the rows of the
cache: the first tells rows and requests apart and takes a migrated table for granted, the second
counts rows and follows the tables from any version on.  `Gateway` composes the tools that keep little
state of their own, by extending the modules of their algorithms; it does not step through the
others, whose calls end, for it, at the dispatch.

### ProxyPool

An action is the code between two awaits.  `task[t].pc` names the await a handler
is suspended in: `connecting` (the shared promise of `getProxyConnection`),
`calling` (the request sent to a child), `closing` (the closes a refresh awaits),
`between` (the loop of `handleProxyTools`, about to visit the next server).

- `getProxyConnection` is the four outcomes of that function: use the pool, join
  the attempt under way, spawn, throw.  `pendingConnects` is written in the same
  step as the spawn because no await separates them; this is checked, not
  assumed, by the mutant `SpawnAnyway`.
- `ConnectOk` puts a child into the pool and lets all who shared the promise
  continue.  `ConnectFail` starts the awaited `transport.close()`, with the
  promise still pending; `CloseDone` settles it and withdraws the attempt.
- `CallTimeout` drops what the *key* holds by then, as the code does.  It covers
  the timer of `callProxyTool` and a downstream error whose text matches.
- `Refresh` drops by server name and by root, or across roots when the request
  names none, as `handleProxyTools` filters.
- `Crash` leaves the pool as it is: the code installs no `onclose` handler.
- `EditConfig` changes `proxy-servers.json` at any time, `Shutdown`,
  `closeAllProxies` and `Exit` are the part of `gracefulShutdown` that touches
  children; handlers go on meanwhile.

The SDK (`Client`, `StdioClientTransport`) is not part of `src/`: it is modelled
by what `proxyClient.ts` relies on.  `close()` ends a live child and is a no-op on
a dead one, and the end of a child rejects its requests.

### CompressCache

A task is one request in any of the sessions that share the table; a step is one
SQL statement or one read of the file.  `Start` hashes the file, `Lookup` is
`getEntry`, `RecordHit` and `Reread` are `recordHit` (an update and a
second select, between which other sessions may run), `LookupLatest` and `DropStale` are the
stale path, `ReadFile`, `HashForStore`, `PutEntry`, `CountRows` and `EnforceLru`
are compression and store.  `gate_dedup_context` check and store run the same
steps with depth `Explicit`; clear is `Clear`.  A content stands for its hash;
`late` and `seen` are history variables.  The byte limit of the eviction is an
arbitrary further number of rows, oldest first.  A statement that throws is
`LookupFails` or `StoreFails`.

### JsonMemory

A step is one file-system call: `openSync("wx")`, `statSync`, `unlinkSync`, the
read, the rename that publishes the new file, the release.  A lock has an age,
fresh or stale; `owner`, `judged`, `overstayed` and `misjudged` are history.  A
process can be killed between any two calls (`Crash`); the open, the look at the lock's age
(`CheckFails`), the read, the save and the release can fail.  `loadJsonPayload` swallows what
goes wrong in its read, and takes a file it cannot see for one that is not there: the operation
then goes on from nothing, and saves that over every entry (`LoadFails`, with `unread` as history).
Only what goes wrong in tightening the file's permissions ends the operation (`LoadThrows`).
The operations are synchronous, so a process has one under way.

### ImageTool

A task is one call of `gate_optimize_image`; an action is the code between two
awaits.  `mode` is the stage the call is in: an "auto" request is a quick look, and
the confidence of its OCR, an arbitrary choice here, makes it start over as "text" or "visual".
`resizeImage` is `BeginWrite`, `EndWrite` and `ResizeFails`: the file it writes is
named by the base name of the image alone, so that handlers of images of the same name, or of the
same image, write one file, and `Torn` is what they may leave.  `getOcrWorker` runs
in the step that ends the resize; `WorkerReady` is the end of its await and publishes the worker.
`Recognise` reads the file as it is by then.  A failure of any await is an action
or a disjunct, with the fallback the code has for it.  `Shutdown`, `Terminated` and `Exit`
are the part of `gracefulShutdown` around `terminateOcr`.  `clashed` and `creator`
are history.  sharp, jimp and tesseract.js are modelled from how `imageProcessor.ts`
uses them; pixels and confidences are not modelled, a picture is an image at a width.

### MemoryMigration

A process opens the database of one project and then works on it; a step is one SQL
statement or one file-system call, since the code opens no transaction.  `legacy` is
`memory_entries` (absent, as of v0.5.5, or of a release candidate, whose rows have a
`root_key`), `table` is `memory_entries_v2`, which may have columns the code does
not know ("odd").  `Open` and `ReadScoped` read the columns, `DropIncompatible`,
`CreateTable`, `MoveRows`, `DropLegacy`, `ImportLegacy` and `RestoreLegacy` are the statements
of `migrateMemorySchema` in its order, and a guard on a layout is the schema the
statement needs: where it is not met, `OpenFails` is what is left, and the process
falls back to `memory.json`.  `FileExists` to `RenameFile` are `maybeMigrateJsonToSqlite`,
which is not tried again in that process; `Put` and `Remove` are the operations,
`JsonPut`, `JsonRemove` and `JsonSave` those of a process on the fallback, which exclude
each other.  Whoever reads the file may find nothing in it, as when the read fails (`Stored`).  `Crash` is a kill or an exit at any point; the next open starts over.
The eviction is one step and may remove any rows within its limits: ages are left
out.  The scope is that of one project, so `root_key` is left out too, and processes
of earlier versions do not run beside those of this one.  `origin`, `touched`,
`interrupted` (a process failed or died when it was about to import) and `redropped`
(a process dropped a table as incompatible that another one had since created anew)
are history.

### CacheStore

As in `MemoryMigration` a step is one statement, and a guard on a layout is the schema the
statement needs.  `legacy` is `cache_entries` (absent, as of v0.5.5, or a release candidate's
with rows), `table` is `cache_entries_v3`, `stamped` the schema version in `cache_meta`.  `Open` to
`MarkMoved` are `migrateReleaseCandidateTable`, `ReadColumns` to `Stamp` the rest of
`migrateSchema`; a process for which a statement fails falls back to a `Map` if it may, or
tries again at its next request.  `Put`, `Count`, `Evict`, `SumBytes` and `Trim` are `putEntry` with
`enforceLruSqlite`: the count, the eviction of the excess, and up to `Rounds` (100)
rounds of a sum and an eviction of `Batch` rows (20).  Which rows are the oldest is left open, so
that what is shown holds whatever their ages are; two servers may meet between any two of these.
`PutMemory` is the same on the `Map`, in one step, since a process is synchronous.  `Close` is a
shutdown's `closeCacheDb`, after which a late request may open again.  `kept`,
`interrupted`, `overlapped`, `overrun` and `contended` are history.

### SymbolGraph and Signatures

`buildGraph` runs without an await, but what it reads changes under it: a step is the visit of
one directory entry (`discoverFiles`), one `statSync` (`computeManifestHash`), or one file read
(`ReadFile`, `ReadFails`).  The manifest is kept as the stamps it is a hash of.  `Write` advances the
modification time, `WriteKeepingTime` does not (an edit within its resolution, a tool that
restores times), and `Tick` is the clock.  `seen` and `missed` are history: `missed` are the files
whose stamp the kept manifest lacks, or that were read unsuccessfully, or written
without a later time.  `Signatures` says which of the JSON outline, the grammar, the CommonJS patterns and the line patterns
read a source, and that a grammar that fails to load stays failed for the process; `Collectors`
says what each of them takes.

### Gateway and its parts

A call arrives by name or through `gate_invoke` (`Call`); `ToolSurface` says whether it is
listed and whether its arguments parse.  Then it is one of five handlers.  `GraphQuery` to
`CheckHead` are `handleGraphQuery` with `graphifyBridge`, `graphifyFreshness` and `graphifyRunner`, one
step for each look at the disk: update the report, find it, read it, find it again, read its commit,
ask git for HEAD.  `WriteReport` and `Commit` are other programs.  `CleanResponse` and `Scoped`
are one step, as the code is.  `AskProvider`, `AnswerPrompt`, `ProviderSettles` and `Score` are the validation, which
awaits each of four answers, of the mock (`AnswerPrompt`) or of a server (`ProviderSettles`).  The
names of a JavaScript or TypeScript module include what CommonJS patterns find in it.  Scorers look for
whole words, `\b...\b`, which never match a name that begins or ends with `$`: `plain` is how many of the
three names the mock gives can be found at all.  The perfect mock therefore scores at least 40, 64, 88
or 100 as `plain` is 0, 1, 2 or 3, and is sure of "excellent" with three only, although the comment of
`MockProvider` speaks of a perfect response.  The history
variable `moved` are the reports that were written after the query has found or read them.

The algorithms are operators: `bfsTraverse` follows the queue of the code and is compared
with a definition by sets; `buildBudgetedSymbolMap` and `arrayToToon` are compared with what their
answers should hold.  Where the code loops, or calls `sort` or `filter`, the module has a recursive
function on an initial segment of the numbers (`bfsTraverse`, `Fitting`) or says which list it
is (`InOrder`, `Picked`): a function can be reasoned about, a recursive operator cannot.  The loop of
`bfsTraverse` runs until its queue is empty; the function has as many rounds as there are keys and edges,
which `TraversalVisits` shows to be enough.  A graph is its keys in order and its edges, a path the names of its
directories, an answer of a language model what its scorer finds in it, a cell of a table the form of its
value.  Scores are exact fractions of twelve times the number of names.

## Runs

| Run | What it shows | Instance |
|---|---|---|
| `proxy_pool` | the six invariants, and that the pool implements `SingleFlight` | 2 handlers, 2 projects with a server of one name, 3 spawns (2 for one key, 1 for the other) |
| `proxy_live` | `HandlersReturn` | 2 handlers, 1 key, 2 spawns |
| `proxy_timeout`, `proxy_orphans` | a claim of the source that the code does not keep | 2 handlers, 1 key, 2 spawns |
| `compress_cache` | a hit is current unless its row was stored in a race | 2 requests, 1 file, 2 contents, 1 depth besides `Explicit`, 2 rows, 2 clock ticks |
| `compress_stale` | the race | the same |
| `json_memory` | exclusion but for two named mishaps, no lost update but for these and an operation whose own read failed, and return | 2 processes, 2 keys, 1 value, at most 1 entry, 2 attempts |
| `image_tool` | a handler reads and returns pictures of its own image unless its file clashed; no handler adds a second worker | 2 handlers, 2 images of one base name, 3 workers |
| `memory_migration` | no row of an earlier version is lost, hidden by a race or brought back; `memory.json` is put aside only when imported | 2 processes, 2 keys, 2 values, at most 1 entry, until a table in use is dropped |
| `cache_store` | rows go only by removals, evictions and two mishaps; limits and excess of the eviction | 2 processes, one of which may fall back, 3 keys of unequal size, at most 2 entries and 2 bytes, batches of 1, 1 round |
| `symbol_graph` | a hit shows the files as they are, but for those its manifest cannot vouch for | 2 roots, one within the other, 3 files of which at most 2 are indexed, 2 contents of one length, 2 edits with or without a new time, 2 clock ticks |
| `gateway` | stale maps are flagged, answers of the algorithms are exact, every call is answered unless its provider never settles | calls of every tool; the graphs, responses, sources, rows and directories of `MCGateway` |

Bounds.  Two handlers are enough for every race named in the code: each is between
one handler and the child, timer, refresh or shutdown of another.  Two spawns for
a key allow a connection to be replaced under a handler that still uses the old
one; when the children are used up, a spawn is not enabled and the handler is
refused instead, as by a configuration that cannot be read.  Two requests and one
file are enough for the cache because a row is only reached through its own path
and an eviction counts rows, of which `MaxEntries` = 2 leaves some to evict (each
of two contents at two depths).  `MaxClock` bounds the model, not the code: at its
limit `later` equals `now`, which the code meets when two writes see the same
millisecond.  Two processes and two keys are enough for a lost update, and
`LockAttempts` = 2 for a retry after a removal and for giving up.  The entry limit
of 1 makes every second put evict.  Two images of one base name are the case in which
handlers clash; three workers are one more than two handlers that both find none
create, so that a third creation, after a failure or a termination, happens too.  Two processes meet
at every pair of statements of the migration, and a third one is what either becomes
after a crash; two values tell an old row from a new one under the same key.
`TableKept` ends a behaviour where a table in use was dropped: all properties of that
run but the types set what follows aside.  In `cache_store` the byte limit is met by one
large row or two small ones, so that it is exceeded with and without the entry limit, and one
round is not always enough.  In `symbol_graph` three files, of which `MaxFiles` = 2 are indexed, give a
cap that cuts and an import that means another file when the first choice is not indexed; two edits
are one between the stat and the read of a file, and one that puts the old content back or touches another
file.  The graphs of `gateway` have a chain longer than `MaxDepth`, a key with two ways of different
length, a cycle with a loop and an edge to a file without a node, and more keys than a budget or a picture takes; the budgets are below,
within and above the range the code clamps to, and none; the responses have an item of other
fields within and after the sample of 2; one move of the disk falls between any two of its looks.  Symmetry is used in safety runs only, over
values no definition tells apart.

`CHECK_DEADLOCK FALSE` is said only of the proxy runs and of `image_tool`: there the
process exits.

### Fairness

`ProxyPool!FairSpec` assumes the event loop resumes a handler whose await has
settled; that Gate's own timer fires (`callProxyTool` races each call with a
positive timeout); that the SDK's handshake timer settles a connect and its
request timer a listing; and that `close()` ends a child, which the SDK does by a
kill in the end.  Nothing is assumed of downstream servers: they need not answer,
so an untimed call (`timeoutMs <= 0`) may wait for ever and `HandlersReturn` leaves
it out.  `JsonMemory!FairSpec` assumes that a synchronous operation runs on
until its process is killed; nothing is assumed of who gets the lock, the bounded
loop is what makes a call return.  `Gateway!Spec` assumes that a handler that has begun goes
on: graphify is run with a time limit, `git rev-parse` and the reads of local files, which have none,
are taken to end, and the mock answers at once.  Nothing is assumed of a provider's server, nor of the time limit of
`postJson`, which is one of the idle socket: a body that trickles on never meets it, and one that
breaks off settles nothing.  So `ProviderSettles` has no fairness, and `EveryCallAnswered` says of every call
that it is answered or waits for its provider for ever (`AwaitsProvider`).

### Disagreements with the source's own words

- `TimeoutDropsItsOwn` (`lib/proxyClient.ts:369`): a timed-out call drops whatever
  its key holds by now, which can be the healthy replacement of its connection.
- `NoOrphans` (`lib/proxyClient.ts:429`): a child whose handshake is under way
  while `closeAllProxies` runs is not closed before the exit.
- `HitServesCurrentView` (`tools/dedupContext.ts:387`): the row of a compression is
  stored by a hash computed after the content was read.

## Proofs

`tlapm` checks every theorem, for any number of roots, servers, handlers, children,
files, contents, processes, keys and any limits, from the named assumptions of
the modules only (constants are typed, "none" is not a member of what it is
distinguished from, limits are natural numbers, what is counted is finite, the length of rows grows with the rows).
`GatewayAssumption` types what a caller sends (whole numbers for budgets and limits, which the
schemas do not ask for, negative ones among them; items of an array are objects, scalars or null) and what
is found (graphs of keys and edges, paths of names), and says of the cache's partition
that its rows are of files below the trusted directory, unless any path is allowed: a row is written
under a path the guard has let through, into the partition of that directory.  A partition that was filled
while any path was allowed and is used later without that is set aside by this.

**ProxyPoolProofs.**  The checked invariants are not inductive by themselves.  `IInv`
adds `MapsOK` (each map holds children under their own key, `pendingConnects` only
connecting or closing ones and the pool only live or dead ones, and no key is in
both maps) and `HandlerOK` (what a handler that holds a child may rely on).  The lemmas `TaskStepIInv`,
`ChildStepIInv` and `ProcessStepIInv` have one step per action.  `PoolInvariant` is
`Spec => []IInv`; type correctness and the five safety invariants follow from it.
`PoolIsSingleFlight` shows that every step maps to a step of `SingleFlight` or to a
stutter; it needs the invariant because an attempt that is withdrawn must still be
the one its key holds.

**CompressCacheProofs.**  `CacheInvariant` adds what a request carries at each point
of its life: the hash it looks up by is one its file has had (`Hashed`), the row it
found is sound and of its identity (`Found`), what it read is what the file holds,
and what it stores has the hash of what it read, unless `late` is set (`Read`);
the table is finite and every row of it sound (`TableOK`).
`CacheStaleOnlyFromRace` and `CacheHitIsCurrent` follow.

**JsonMemoryProofs.**  `LockInvariant`: unless one of the two mishaps has happened, a
process that works holds the lock it created (`WorkersHold`), a lock that was judged
is stale and a stale one has no owner left (`StaleIsOrphaned`), and what a process
is about to save over is what it loaded, unless its read failed (`LoadedIsCurrent`).  Exclusion and
`LockLosesNoUpdate` follow: a failed read loses entries by the save of its own operation, never by that of another.

**ImageToolProofs.**  `ImageInvariant` adds that a handler uses its file only from the
end of its own write on (`PictureOK`), that whoever uses a file another handler is
writing has clashed (`WritersClash`), and that a worker being created has exactly
its creator waiting for it, with none ready before one is shared (`WorkersOK`).
`ImageOwnPicture` and `ImageOneWorker` follow.

**MemoryMigrationProofs.**  `MigrationInvariant` says what each process may rely on where it
is: what it has seen of the old table is still so while that table has rows
(`SightOK`), who is about to drop a candidate's table has its rows in the new one, and
who imports `memory.json` found an empty table, so that the old rows are still where they
were (`StageOK`), and what is no longer left to import has a row (`FileOK`).  `TablesOK`
relates the two tables, with `ImportOK` for the one case in which the old rows stay in
both.  The four invariants follow, and `MigrationUndoesNothing`: while a candidate's table
exists nobody has worked on the database, so there is nothing the copy could undo.

**CacheStoreProofs.**  Three invariants, each with its own argument.  `MoveOK`: while the
table of a release candidate exists nobody has worked on the database, so the copy brings
nothing back.  `RowsOK`: as long as no two opens have met on a database to be migrated, the
open under way is alone with its tables (`AloneOK`) and what it has read of them is still so
(`Seen`); and a table without its stamp is the work of an open that goes on (`UnstampedOK`), so
that the table an open drops is empty.  `LimitsOK`: every row above the limit is on account of a put
that has yet to evict, and each eviction that has counted takes at least its own (`CountOK`).
`ExcessOK` says that who has counted, and was not told of rows that went, still finds them.
They give the four properties of the run, for any number of processes and any limits.

**SymbolGraphProofs.**  The invariant follows a build through the walk, the stats and the
reads.  A kept graph *vouches* for a file: if the file still has the stamp in the kept manifest,
the graph has the symbols of its content (`SlotInv`).  Stamps are taken before the files are read and
times do not go back (`TimeInv`), so that a stamp taken too early equals no later one; what the walk
and the stats have seen carries this to the hit (`SeenInv`), but for the files in `missed`.
`HitCurrent` follows.

**GatewayProofs.**  Two invariants, for a disk, graphs, responses and answers of any size.
`GatewayInv` follows a call to its answer.  The promises about answers say nothing before there
is one, so they are not inductive: `QueryInv` says what a graph query may rely on at each step (the
commit it compares is the one of the map it read, `reports[reportPath] = map` and then `built = map`,
as long as the report is the one its age is checked of and nobody has written it since),
`AnswerInv` that every answer so far is one its scorer can get, of the mock the one the mock gives.
`NoStaleMapUnflagged`, `NoItemLost`, `NoVerdictUnearned` and `TypesAreKept` follow; a table and a score
are made in the last step of their calls, and there the work is that of lemmas about
`arrayToToon`, about what the mock's texts contain, and about sums of weighted fractions.  `NoRowOutsideScope` has the hypothesis that not any path is
allowed, which is the default: with `GATE_ALLOW_ANY_PATH` the trusted directory stands for all rows,
those of files elsewhere too, and the promise does not hold.

`GraphInv` says that what was found in the graph is exact from the step on that finds it; a map or a
picture may wait for the age of a report after that.  The work is in the algorithms.  A traversal is
exact by an invariant of its rounds, `Traversed`: a visited key has a path as long as its depth;
the queue is in order of depths, at most one deeper than its head; and a key that was
expanded has no edge to one that is missed or found too late.  `Counted` shows that the queue is empty after
as many rounds as there are keys and edges: a round takes one key from the queue, and a key comes into it
once.  `TraversalIsExact` takes the first key, by depth, that is missing or too deep to a
contradiction.  `RankedInOrder` says what the lists of a map are; `PrefixFits`
that the longest prefix within a budget is within it; `MapIsExact` and `PictureIsExact` put these together.
`RecursionExists` gives the recursive functions, and induction over a number is by its
least counterexample (`NatMinimum`, from `WellFoundedInduction`), since the induction theorems of the
library cannot be instantiated.

So every invariant and every action property of the passing runs is proved, for every value of the
constants the assumptions allow, and so is the refinement of `SingleFlight`.  Only model-checked:
`HandlersReturn`, `CallsReturn` and `EveryCallAnswered` (liveness is out of the prover's reach), and
the three violations.

## Not modelled, and why

Statuses and reasons for every component are in `PROJECT.json`.  Left out on purpose:

- Not part of the server's logic: the doctor, logging, version and prerequisite checks, the
  editor extension, the plugins, the scripts, the demo.
- Text: help texts, wording and layout of replies, the layout of a signature, compressors other than the
  choice of declarations, the estimate of tokens, the statistics of a graph and the listing of
  one file.  None of it changes a state that something else reads.
- `gate_init`, which writes nothing but lists what it finds; the variants of the path guard for
  files, which add a check of the file type; splitting of strings into paths.
- Counters of the process in `sessionMetrics.ts`: added to and printed in single steps.
- External programs (graphify, git, downstream servers, providers, editors, sharp,
  tesseract.js): only what the code relies on.
- Inside the modelled parts: the language and version columns of a cache row (they follow from
  the file and the build), reads of the JSON store (they take no lock and change nothing), the ages
  of the SQLite memory's rows, and several roots in one database.

## What could follow

1. `AtomicStore`, an abstract map with atomic operations that `JsonMemory` implements
   as long as neither mishap happens; the refinement proved as that of `ProxyPool` is.
2. The ages of the rows of the SQLite memory: its eviction is any choice of rows now, which
   shows that it loses nothing else, but not that the newest stay.
3. `Shutdown`: the steps of `gracefulShutdown`, modelled part by part now, in one module.
4. `gate_init` and the file variants of the path guard.
