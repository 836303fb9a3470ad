--------------------------- MODULE CompressCache ---------------------------
(***************************************************************************)
(* gate_compress_file and gate_dedup_context over the shared cache table:  *)
(* tools/compressFile.ts, tools/dedupContext.ts and the row operations of  *)
(* lib/cacheDb.ts.                                                         *)
(*                                                                         *)
(* The table lives in one SQLite file that the Gate servers of several IDE *)
(* sessions share, and the source files are edited by other programs.  A   *)
(* task is one request of any of those servers: every statement, every     *)
(* read of the file is a step, so the requests of two servers interleave   *)
(* between any two statements, and edits fall between any two reads.       *)
(*                                                                         *)
(* A content stands for its SHA-256 too: two contents that differ are      *)
(* taken to have different hashes.                                         *)
(***************************************************************************)
EXTENDS Naturals, FiniteSets

CONSTANTS
    Files,       \* source files of the partition
    Contents,    \* what a file may contain
    Depths,      \* effective depths gate_compress_file caches views of
    Tasks,       \* concurrent requests
    MaxEntries,  \* MAX_ENTRIES
    MaxClock,    \* bound on the clock of the model, not of the code
    None         \* a request that holds no content, or no row

Explicit == "explicit"     \* the depth of gate_dedup_context's own rows

\* A view is named by the content it was compressed from, None for what a
\* client stored by itself.  late is history: the file was edited between the
\* reads that the view and the hash came from.
Row == [path : Files, hash : Contents, depth : Depths \union {Explicit},
        view : Contents \union {None}, late : BOOLEAN, at : 0 .. MaxClock]

ASSUME EntriesAssumption == MaxEntries \in Nat /\ MaxClock \in Nat
ASSUME ExplicitAssumption == Explicit \notin Depths
ASSUME FilesAssumption == Files # {}
ASSUME NoneAssumption == None \notin Contents \union Row

VARIABLES
    file,    \* file[f]: what the editor last wrote
    rows,    \* the cache table
    now,     \* Date.now(): two writes may see the same millisecond
    task,    \* the requests
    seen     \* history: contents a request's file has had since it started

vars == <<file, rows, now, task, seen>>

PCs == {"idle", "lookup", "found", "reread", "missed", "stale", "read", "compress", "put",
        "count", "evict"}

Task == [pc : PCs,
         kind : {"compress", "check", "store"},
         path : Files,
         depth : Depths \union {Explicit},
         hash : Contents \union {None},       \* computeFileHash's last result
         content : Contents \union {None},    \* what readFile returned
         late : BOOLEAN,                      \* history: edited since then
         row : Row \union {None},             \* the row getEntry returned
         excess : Nat]                        \* rows above MAX_ENTRIES

TypeOK ==
    /\ file \in [Files -> Contents]
    /\ rows \in SUBSET Row
    /\ now \in 0 .. MaxClock
    /\ task \in [Tasks -> Task]
    /\ seen \in [Tasks -> SUBSET Contents]

Request(pc, kind, f, d, h) ==
    [pc |-> pc, kind |-> kind, path |-> f, depth |-> d, hash |-> h,
     content |-> None, late |-> FALSE, row |-> None, excess |-> 0]

AnyFile == CHOOSE f \in Files : TRUE
Finished == Request("idle", "compress", AnyFile, Explicit, None)

Init ==
    /\ file \in [Files -> Contents]
    /\ rows = {}
    /\ now = 0
    /\ task = [t \in Tasks |-> Finished]
    /\ seen = [t \in Tasks |-> {}]

-----------------------------------------------------------------------------
(* The table *)

RowsOf(f) == {r \in rows : r.path = f}

\* cacheIdentityKey: the language and the versions follow from the file.
HasIdentity(r, f, h, d) == r.path = f /\ r.hash = h /\ r.depth = d

\* ORDER BY updated_at DESC LIMIT 1 returns any of these.
Latest(f) == {r \in RowsOf(f) : \A q \in RowsOf(f) : q.at <= r.at}

\* What n rows the oldest-first eviction may take out of the rows R.
Oldest(R, n) == {E \in SUBSET R : /\ Cardinality(E) = n
                                  /\ \A e \in E, r \in R \ E : e.at <= r.at}

-----------------------------------------------------------------------------
(* Steps of a request *)

Goto(t, h) == task' = [task EXCEPT ![t] = h]
Finish(t) ==
    /\ Goto(t, Finished)
    /\ seen' = [seen EXCEPT ![t] = {}]

\* Mutant of Start: the store of gate_dedup_context does not hash the file.
StartUnhashed(t, kind, f, d) ==
    /\ task[t].pc = "idle"
    /\ Goto(t, IF kind = "store" THEN Request("compress", kind, f, d, None)
                                 ELSE Request("lookup", kind, f, d, file[f]))
    /\ seen' = [seen EXCEPT ![t] = {file[f]}]
    /\ UNCHANGED <<file, rows, now>>

\* A request starts by hashing the file: checkCache, check and store alike.
Start(t, kind, f, d) ==
    /\ task[t].pc = "idle"
    /\ Goto(t, IF kind = "store" THEN Request("compress", kind, f, d, file[f])
                                 ELSE Request("lookup", kind, f, d, file[f]))
    /\ seen' = [seen EXCEPT ![t] = {file[f]}]
    /\ UNCHANGED <<file, rows, now>>

\* Mutant of Lookup: the hash is left out of the identity.
LookupAnyHash(t) ==
    /\ task[t].pc = "lookup"
    /\ LET h == task[t]
           hits == {r \in RowsOf(h.path) : r.depth = h.depth}
       IN  \/ \E r \in hits : Goto(t, [h EXCEPT !.pc = "found", !.row = r])
           \/ hits = {} /\ Goto(t, [h EXCEPT !.pc = "missed"])
    /\ UNCHANGED <<file, rows, now, seen>>

\* getEntry by identity: path, current hash and depth.
Lookup(t) ==
    /\ task[t].pc = "lookup"
    /\ LET h == task[t]
           hits == {r \in rows : HasIdentity(r, h.path, h.hash, h.depth)}
       IN  \/ \E r \in hits : Goto(t, [h EXCEPT !.pc = "found", !.row = r])
           \/ hits = {} /\ Goto(t, [h EXCEPT !.pc = "missed"])
    /\ UNCHANGED <<file, rows, now, seen>>

\* The rows that have the identity of the one that was found.
OwnRows(t) ==
    LET h == task[t].row IN {r \in rows : HasIdentity(r, h.path, h.hash, h.depth)}

\* recordHit updates the row and reads it again.  When it has gone by now, the
\* one getEntry returned is served.
RecordHit(t) ==
    /\ task[t].pc = "found"
    /\ \E later \in {now, now + 1} :
        /\ later <= MaxClock
        /\ now' = later
        /\ \/ OwnRows(t) = {} /\ Finish(t) /\ UNCHANGED rows
           \/ \E r \in OwnRows(t) :
                /\ rows' = (rows \ {r}) \union {[r EXCEPT !.at = later]}
                /\ Goto(t, [task[t] EXCEPT !.pc = "reread"])
                /\ UNCHANGED seen
    /\ UNCHANGED file

\* What it read again is served, or the first row once more.
Reread(t) ==
    /\ task[t].pc = "reread"
    /\ Finish(t)
    /\ UNCHANGED <<file, rows, now>>

\* The miss looks at the latest row of the path, whatever its depth.  A stale
\* one condemns the path; a check serves one of the current content.  When
\* there is nothing, a compress goes on to read, a check replies cache_miss.
LookupLatest(t) ==
    /\ task[t].pc = "missed"
    /\ LET h == task[t]
           Nothing == IF h.kind = "compress"
                      THEN Goto(t, [h EXCEPT !.pc = "read"]) /\ UNCHANGED seen
                      ELSE Finish(t)
       IN  \/ RowsOf(h.path) = {} /\ Nothing
           \/ \E r \in Latest(h.path) :
                IF r.hash # h.hash
                THEN Goto(t, [h EXCEPT !.pc = "stale"]) /\ UNCHANGED seen
                ELSE IF h.kind = "check"
                     THEN Goto(t, [h EXCEPT !.pc = "found", !.row = r]) /\ UNCHANGED seen
                     ELSE Nothing
    /\ UNCHANGED <<file, rows, now>>

\* deleteEntry without an identity: every row of the path.
DropStale(t) ==
    /\ task[t].pc = "stale"
    /\ rows' = rows \ RowsOf(task[t].path)
    /\ IF task[t].kind = "compress"
       THEN Goto(t, [task[t] EXCEPT !.pc = "read"]) /\ UNCHANGED seen
       ELSE Finish(t)
    /\ UNCHANGED <<file, now>>

\* A statement throws, a busy database for one: checkCache answers null, and
\* the check of gate_dedup_context fails.
LookupFails(t) ==
    /\ task[t].pc \in {"lookup", "found", "reread", "missed", "stale"}
    /\ IF task[t].kind = "compress"
       THEN Goto(t, [task[t] EXCEPT !.pc = "read", !.row = None]) /\ UNCHANGED seen
       ELSE Finish(t)
    /\ UNCHANGED <<file, rows, now>>

\* readFile, after which the content is compressed.
ReadFile(t) ==
    /\ task[t].pc = "read"
    /\ Goto(t, [task[t] EXCEPT !.pc = "compress", !.content = file[task[t].path]])
    /\ UNCHANGED <<file, rows, now, seen>>

\* Mutant of HashForStore: store by the hash the lookup computed.
ReuseLookupHash(t) ==
    /\ task[t].pc = "compress"
    /\ Goto(t, [task[t] EXCEPT !.pc = "put"])
    /\ UNCHANGED <<file, rows, now, seen>>

\* storeInCache hashes the file again: this is the hash the row is stored by.
\* gate_dedup_context's store hashes it once, and stores what the client sent.
HashForStore(t) ==
    /\ task[t].pc = "compress"
    /\ IF task[t].kind = "compress"
       THEN Goto(t, [task[t] EXCEPT !.pc = "put", !.hash = file[task[t].path]])
       ELSE Goto(t, [task[t] EXCEPT !.pc = "put"])
    /\ UNCHANGED <<file, rows, now, seen>>

\* A view that is not smaller comes out as type "full": served, not stored.
SkipStore(t) ==
    /\ task[t].pc = "compress"
    /\ task[t].kind = "compress"
    /\ Finish(t)
    /\ UNCHANGED <<file, rows, now>>

\* putEntry's upsert.
PutEntry(t) ==
    /\ task[t].pc = "put"
    /\ \E later \in {now, now + 1} :
        /\ later <= MaxClock
        /\ now' = later
        /\ LET h == task[t]
               new == [path |-> h.path, hash |-> h.hash, depth |-> h.depth,
                       view |-> h.content, late |-> h.late, at |-> later]
           IN  rows' = {r \in rows : ~HasIdentity(r, h.path, h.hash, h.depth)} \union {new}
    /\ Goto(t, [task[t] EXCEPT !.pc = "count"])
    /\ UNCHANGED <<file, seen>>

\* enforceLruSqlite counts the rows of the partition...
CountRows(t) ==
    /\ task[t].pc = "count"
    /\ Goto(t, [task[t] EXCEPT !.pc = "evict",
                               !.excess = IF Cardinality(rows) > MaxEntries
                                          THEN Cardinality(rows) - MaxEntries ELSE 0])
    /\ UNCHANGED <<file, rows, now, seen>>

\* ...and evicts as many as it counted too many, oldest first; for the sake of
\* the byte limit, which the model does not compute, any number more may go.
EnforceLru(t) ==
    /\ task[t].pc = "evict"
    /\ \E n \in 0 .. Cardinality(rows) :
        /\ n >= task[t].excess \/ n = Cardinality(rows)
        /\ \E E \in Oldest(rows, n) : rows' = rows \ E
    /\ Finish(t)
    /\ UNCHANGED <<file, now>>

\* storeInCache logs any exception and goes on: nothing stored, or no eviction.
StoreFails(t) ==
    /\ task[t].pc \in {"put", "count", "evict"}
    /\ Finish(t)
    /\ UNCHANGED <<file, rows, now>>

\* gate_dedup_context clear, one path at a time or the whole partition.
Clear(F) ==
    /\ rows' = {r \in rows : r.path \notin F}
    /\ UNCHANGED <<file, now, task, seen>>

\* Another program saves the file.
Edit(f, c) ==
    /\ file[f] # c
    /\ file' = [file EXCEPT ![f] = c]
    /\ task' = [t \in Tasks |->
                  IF task[t].path = f /\ task[t].pc = "compress" /\ task[t].kind = "compress"
                  THEN [task[t] EXCEPT !.late = TRUE] ELSE task[t]]
    /\ seen' = [t \in Tasks |->
                  IF task[t].path = f /\ task[t].pc # "idle"
                  THEN seen[t] \union {c} ELSE seen[t]]
    /\ UNCHANGED <<rows, now>>

TaskStep(t) ==
    \/ \E f \in Files, d \in Depths : Start(t, "compress", f, d)
    \/ \E f \in Files, kind \in {"check", "store"} : Start(t, kind, f, Explicit)
    \/ Lookup(t)
    \/ RecordHit(t)
    \/ Reread(t)
    \/ LookupLatest(t)
    \/ DropStale(t)
    \/ LookupFails(t)
    \/ ReadFile(t)
    \/ HashForStore(t)
    \/ SkipStore(t)
    \/ PutEntry(t)
    \/ CountRows(t)
    \/ EnforceLru(t)
    \/ StoreFails(t)

Next ==
    \/ \E t \in Tasks : TaskStep(t)
    \/ \E F \in (SUBSET Files) \ {{}} : Clear(F)
    \/ \E f \in Files, c \in Contents : Edit(f, c)

Spec == Init /\ [][Next]_vars

-----------------------------------------------------------------------------
(* Properties *)

\* The only way a row of gate_compress_file comes to hold a view of another
\* content than the one it is stored by is an edit between the two reads of
\* the request that stored it.
StaleOnlyFromRace ==
    \A r \in rows : r.depth # Explicit /\ r.view # r.hash => r.late

\* The rows a hit of gate_compress_file may serve at this moment.
Serving(t) ==
    CASE task[t].kind = "compress" /\ task[t].pc = "found"  -> {task[t].row}
      [] task[t].kind = "compress" /\ task[t].pc = "reread" -> {task[t].row} \union OwnRows(t)
      [] OTHER                                              -> {}

\* Whatever edits, drops, evictions and stores of other sessions fall between
\* the statements of a request of gate_compress_file, the view it serves as
\* "File unchanged" is one of a content its file has had during the request,
\* unless the session that stored the row lost that same race.
HitIsCurrentUnlessRaced ==
    \A t \in Tasks : \A r \in Serving(t) : r.view \in seen[t] \/ r.late

-----------------------------------------------------------------------------
(* A claim of the source that its steps do not keep *)

\* A cache hit of gate_compress_file serves the view of a content its file had
\* during the request ("File modified: detect hash mismatch, drop the row,
\* re-compress, re-store").
HitServesCurrentView ==
    \A t \in Tasks : \A r \in Serving(t) : r.view \in seen[t]
=============================================================================
