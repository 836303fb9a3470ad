----------------------------- MODULE CacheStore -----------------------------
(***************************************************************************)
(* lib/cacheDb.ts as a store: the first open of the database of a          *)
(* partition with the migration of its tables, the fallback to memory, the *)
(* operations with the eviction that follows a put, and the close.  What   *)
(* the requests of the tools do with the rows is CompressCache.            *)
(*                                                                         *)
(* Several Gate processes share the database and nothing runs in a         *)
(* transaction: a step is one statement, those of two processes            *)
(* interleave, and any of them may fail or be the last of its process.     *)
(* Within a process the code is synchronous.  The rows are those of one    *)
(* root_key; which of them are the oldest is left to CompressCache.        *)
(***************************************************************************)
EXTENDS Naturals, FiniteSets

CONSTANTS
    Procs,          \* Gate servers
    MemoryAllowed,  \* those started with GATE_ALLOW_MEMORY_CACHE=1
    Keys,           \* cache keys
    MaxEntries,     \* MAX_ENTRIES
    MaxBytes,       \* MAX_BYTES
    Bytes,          \* Bytes[rows]: the sum of the lengths of their contents
    Batch,          \* MAX_ENTRIES / 50: what a round of the byte limit evicts
    Rounds          \* the rounds it may take

ASSUME ProcsAssumption == IsFiniteSet(Procs)
ASSUME KeysAssumption == IsFiniteSet(Keys)
ASSUME MemoryAssumption == MemoryAllowed \subseteq Procs
ASSUME LimitAssumption == MaxEntries \in Nat \ {0} /\ Batch \in Nat \ {0} /\ Rounds \in Nat
ASSUME BytesAssumption ==
    /\ MaxBytes \in Nat
    /\ Bytes \in [SUBSET Keys -> Nat]
    /\ Bytes[{}] = 0
    /\ \A A, B \in SUBSET Keys : A \subseteq B => Bytes[A] <= Bytes[B]

VARIABLES
    legacy,       \* cache_entries: absent, as of v0.5.5, or of a release candidate
    table,        \* cache_entries_v3: absent, of unknown columns, or in use
    stamped,      \* cache_meta says that cache_entries_v3 has schema 3
    proc,         \* the processes
    kept,         \* history: rows stored and neither removed nor evicted since
    interrupted,  \* history: an open ended between creating the table and its stamp
    overlapped,   \* history: two opens ran at once on a database to be migrated
    overrun       \* history: a put, or a move, ended without its eviction

vars == <<legacy, table, stamped, proc, kept, interrupted, overlapped, overrun>>
history == <<kept, interrupted, overlapped, overrun>>

\* Where an open is, by the statement that comes next; where a put is.
Opening == {"target", "dropTarget", "createTarget", "copy", "dropLegacy", "restoreLegacy",
            "mark", "columns", "meta", "drop", "create", "stamp", "prepare"}
Evicting == {"count", "evict"}
Trimming == {"bytes", "trim"}
PCs == {"closed", "open", "memory"} \union Opening \union Evicting \union Trimming

Proc == [pc : PCs,
         odd : BOOLEAN,      \* the columns of cache_entries_v3 were not understood
         excess : Nat,       \* how many entries an eviction is to remove
         rounds : 0..Rounds, \* the rounds left for the byte limit
         contended : BOOLEAN,\* history: others removed rows since the count
         map : SUBSET Keys]  \* the rows of the fallback

Tables == [layout : {"none", "odd", "v3"}, rows : SUBSET Keys]

TypeOK ==
    /\ legacy \in [layout : {"none", "v1", "rc"}, rows : SUBSET Keys]
    /\ table \in Tables
    /\ table.layout # "v3" => table.rows = {}
    /\ stamped \in BOOLEAN
    /\ proc \in [Procs -> Proc]
    /\ kept \in SUBSET Keys
    /\ interrupted \in BOOLEAN
    /\ overlapped \in BOOLEAN
    /\ overrun \in BOOLEAN

Absent == [layout |-> "none", rows |-> {}]
Closed == [pc |-> "closed", odd |-> FALSE, excess |-> 0, rounds |-> 0,
           contended |-> FALSE, map |-> {}]

Small(rows) == Cardinality(rows) <= MaxEntries
Fits(rows) == Small(rows) /\ Bytes[rows] <= MaxBytes

\* The database as an earlier version, a release candidate or this version has left it.
Init ==
    /\ \/ /\ legacy \in {Absent, [Absent EXCEPT !.layout = "v1"]}
          /\ \/ table = Absent /\ stamped = FALSE
             \/ table = [Absent EXCEPT !.layout = "odd"] /\ stamped \in BOOLEAN
             \/ /\ \E rows \in SUBSET Keys :
                     Fits(rows) /\ table = [layout |-> "v3", rows |-> rows]
                /\ stamped = TRUE
       \/ /\ \E rows \in SUBSET Keys : Fits(rows) /\ legacy = [layout |-> "rc", rows |-> rows]
          /\ table \in {Absent, [Absent EXCEPT !.layout = "odd"]}
          /\ stamped \in BOOLEAN
    /\ proc = [p \in Procs |-> Closed]
    /\ kept = legacy.rows \union table.rows
    /\ interrupted = FALSE
    /\ overlapped = FALSE
    /\ overrun = FALSE

-----------------------------------------------------------------------------
(* Helpers *)

At(p, pc) == proc[p].pc = pc
Goto(p, pc) == proc' = [proc EXCEPT ![p].pc = pc]

\* A function returns: its locals are gone.
Return(p, pc) == proc' = [proc EXCEPT ![p] = [Closed EXCEPT !.pc = pc]]

\* The database needs no migration any more.
Settled == legacy.layout # "rc" /\ table.layout = "v3" /\ stamped

\* Rows go: whoever is about to evict has counted more.
Lost(p, gone, pc) ==
    proc' = [q \in Procs |->
        IF q = p THEN [proc[p] EXCEPT !.pc = pc]
        ELSE [proc[q] EXCEPT !.contended = @ \/ (gone # {} /\ proc[q].pc = "evict")]]

CreateIfAbsent(t) == IF t.layout = "none" THEN [t EXCEPT !.layout = "v3"] ELSE t

-----------------------------------------------------------------------------
(* migrateReleaseCandidateTable *)

\* The first request of a process, or of one whose open failed: the columns of
\* cache_entries decide whether rows are to be moved.
Open(p) ==
    /\ At(p, "closed")
    /\ Goto(p, IF legacy.layout = "rc" THEN "target" ELSE "columns")
    /\ overlapped' = (overlapped \/ (~Settled /\ \E q \in Procs : proc[q].pc \in Opening))
    /\ UNCHANGED <<legacy, table, stamped, kept, interrupted, overrun>>

ReadTarget(p) ==
    /\ At(p, "target")
    /\ Goto(p, IF table.layout = "odd" THEN "dropTarget" ELSE "createTarget")
    /\ UNCHANGED <<legacy, table, stamped, history>>

DropTarget(p) ==
    /\ At(p, "dropTarget")
    /\ table' = Absent
    /\ Lost(p, table.rows, "createTarget")
    /\ UNCHANGED <<legacy, stamped, history>>

CreateTarget(p) ==
    /\ At(p, "createTarget")
    /\ table' = CreateIfAbsent(table)
    /\ Goto(p, "copy")
    /\ UNCHANGED <<legacy, stamped, history>>

\* INSERT OR REPLACE ... SELECT
CopyRows(p) ==
    /\ At(p, "copy")
    /\ legacy.layout = "rc" /\ table.layout = "v3"
    /\ table' = [table EXCEPT !.rows = @ \union legacy.rows]
    /\ Goto(p, "dropLegacy")
    /\ overrun' = (overrun \/ ~Fits(table.rows \union legacy.rows))
    /\ UNCHANGED <<legacy, stamped, kept, interrupted, overlapped>>

\* Mutant of DropLegacy: the table of the release candidate is kept.
DropLegacyKept(p) ==
    /\ At(p, "dropLegacy")
    /\ legacy.layout # "none"
    /\ Goto(p, "mark")
    /\ UNCHANGED <<legacy, table, stamped, history>>

DropLegacy(p) ==
    /\ At(p, "dropLegacy")
    /\ legacy.layout # "none"
    /\ legacy' = Absent
    /\ Goto(p, "restoreLegacy")
    /\ UNCHANGED <<table, stamped, history>>

RestoreLegacy(p) ==
    /\ At(p, "restoreLegacy")
    /\ legacy.layout = "none"
    /\ legacy' = [legacy EXCEPT !.layout = "v1"]
    /\ Goto(p, "mark")
    /\ UNCHANGED <<table, stamped, history>>

\* Mutant of MarkMoved: only schema_version is written.
MarkLegacyOnly(p) ==
    /\ At(p, "mark")
    /\ Goto(p, "columns")
    /\ UNCHANGED <<legacy, table, stamped, history>>

\* Both stamps; the first of them is for v0.5.5.
MarkMoved(p) ==
    /\ At(p, "mark")
    /\ stamped' = TRUE
    /\ Goto(p, "columns")
    /\ UNCHANGED <<legacy, table, history>>

-----------------------------------------------------------------------------
(* migrateSchema *)

ReadColumns(p) ==
    /\ At(p, "columns")
    /\ proc' = [proc EXCEPT ![p].pc = IF table.layout = "none" THEN "create" ELSE "meta",
                            ![p].odd = table.layout = "odd"]
    /\ UNCHANGED <<legacy, table, stamped, history>>

ReadMeta(p) ==
    /\ At(p, "meta")
    /\ Goto(p, IF stamped /\ ~proc[p].odd THEN "create" ELSE "drop")
    /\ UNCHANGED <<legacy, table, stamped, history>>

DropIncompatible(p) ==
    /\ At(p, "drop")
    /\ table' = Absent
    /\ Lost(p, table.rows, "create")
    /\ UNCHANGED <<legacy, stamped, history>>

Create(p) ==
    /\ At(p, "create")
    /\ table' = CreateIfAbsent(table)
    /\ Goto(p, "stamp")
    /\ UNCHANGED <<legacy, stamped, history>>

Stamp(p) ==
    /\ At(p, "stamp")
    /\ stamped' = TRUE
    /\ Goto(p, "prepare")
    /\ UNCHANGED <<legacy, table, history>>

Prepare(p) ==
    /\ At(p, "prepare")
    /\ table.layout = "v3"
    /\ Return(p, "open")
    /\ UNCHANGED <<legacy, table, stamped, history>>

\* A statement fails, as one does whose table another process has dropped:
\* useOrThrowMemoryFallback keeps a Map, or throws and leaves the next request
\* to try again.
OpenFails(p) ==
    /\ proc[p].pc \in Opening
    /\ Return(p, IF p \in MemoryAllowed THEN "memory" ELSE "closed")
    /\ interrupted' = (interrupted \/ (table.layout = "v3" /\ ~stamped))
    /\ UNCHANGED <<legacy, table, stamped, kept, overlapped, overrun>>

-----------------------------------------------------------------------------
(* putEntry with enforceLruSqlite *)

Put(p, k) ==
    /\ At(p, "open")
    /\ table.layout = "v3"
    /\ table' = [table EXCEPT !.rows = @ \union {k}]
    /\ kept' = kept \union {k}
    /\ Goto(p, "count")
    /\ UNCHANGED <<legacy, stamped, interrupted, overlapped, overrun>>

\* Mutant of Count: the row just written is not counted.
CountOthers(p) ==
    /\ At(p, "count")
    /\ table.layout = "v3"
    /\ LET n == Cardinality(table.rows)
       IN  proc' = [proc EXCEPT ![p].pc = IF n > MaxEntries + 1 THEN "evict" ELSE "bytes",
                                ![p].excess = IF n > MaxEntries + 1 THEN n - MaxEntries - 1 ELSE 0,
                                ![p].rounds = Rounds, ![p].contended = FALSE]
    /\ UNCHANGED <<legacy, table, stamped, history>>

Count(p) ==
    /\ At(p, "count")
    /\ table.layout = "v3"
    /\ LET n == Cardinality(table.rows)
       IN  proc' = [proc EXCEPT ![p].pc = IF n > MaxEntries THEN "evict" ELSE "bytes",
                                ![p].excess = IF n > MaxEntries THEN n - MaxEntries ELSE 0,
                                ![p].rounds = Rounds, ![p].contended = FALSE]
    /\ UNCHANGED <<legacy, table, stamped, history>>

\* stmtEvictOldest: so many rows, or all when there are fewer.
OldestOf(rows, n) ==
    {gone \in SUBSET rows :
        \/ Cardinality(gone) = n
        \/ gone = rows /\ Cardinality(rows) <= n}

\* Mutant of Evict: a whole batch goes, as for the byte limit.
EvictBatch(p) ==
    /\ At(p, "evict")
    /\ table.layout = "v3"
    /\ \E gone \in OldestOf(table.rows, proc[p].excess + Batch) :
         /\ table' = [table EXCEPT !.rows = @ \ gone]
         /\ kept' = kept \ gone
         /\ Lost(p, gone, "bytes")
    /\ UNCHANGED <<legacy, stamped, interrupted, overlapped, overrun>>

Evict(p) ==
    /\ At(p, "evict")
    /\ table.layout = "v3"
    /\ \E gone \in OldestOf(table.rows, proc[p].excess) :
         /\ table' = [table EXCEPT !.rows = @ \ gone]
         /\ kept' = kept \ gone
         /\ Lost(p, gone, "bytes")
    /\ UNCHANGED <<legacy, stamped, interrupted, overlapped, overrun>>

\* Mutant of SumBytes: the rounds are not limited.
SumBytesUnlimited(p) ==
    /\ At(p, "bytes")
    /\ table.layout = "v3"
    /\ IF Bytes[table.rows] > MaxBytes
       THEN proc' = [proc EXCEPT ![p].pc = "trim", ![p].rounds = @ - 1]
       ELSE Return(p, "open")
    /\ UNCHANGED <<legacy, table, stamped, history>>

\* The sum of the bytes decides on another round.
SumBytes(p) ==
    /\ At(p, "bytes")
    /\ table.layout = "v3"
    /\ IF Bytes[table.rows] > MaxBytes
       THEN IF proc[p].rounds > 0
            THEN /\ proc' = [proc EXCEPT ![p].pc = "trim", ![p].rounds = @ - 1]
                 /\ UNCHANGED overrun
            ELSE Return(p, "open") /\ overrun' = TRUE
       ELSE Return(p, "open") /\ UNCHANGED overrun
    /\ UNCHANGED <<legacy, table, stamped, kept, interrupted, overlapped>>

Trim(p) ==
    /\ At(p, "trim")
    /\ table.layout = "v3"
    /\ \E gone \in OldestOf(table.rows, Batch) :
         /\ table' = [table EXCEPT !.rows = @ \ gone]
         /\ kept' = kept \ gone
         /\ Lost(p, gone, "bytes")
    /\ UNCHANGED <<legacy, stamped, interrupted, overlapped, overrun>>

\* A statement of the eviction fails: the request does, its row stays.
StatementFails(p) ==
    /\ proc[p].pc \in Evicting \union Trimming
    /\ Return(p, "open")
    /\ overrun' = TRUE
    /\ UNCHANGED <<legacy, table, stamped, kept, interrupted, overlapped>>

-----------------------------------------------------------------------------
(* The other operations *)

\* deleteEntry, clearAll and clearScoped: some rows go, or all.
Remove(p) ==
    /\ At(p, "open")
    /\ table.layout = "v3"
    /\ \E gone \in SUBSET table.rows :
         /\ table' = [table EXCEPT !.rows = @ \ gone]
         /\ kept' = kept \ gone
         /\ Lost(p, gone, "open")
    /\ UNCHANGED <<legacy, stamped, interrupted, overlapped, overrun>>

\* putEntry with enforceLruMemory: rows go one by one until the others fit.
PutMemory(p, k) ==
    /\ At(p, "memory")
    /\ LET rows == proc[p].map \union {k}
       IN  \E gone \in SUBSET rows :
             /\ Fits(rows \ gone)
             /\ gone # {} => \E last \in gone : ~Fits((rows \ gone) \union {last})
             /\ proc' = [proc EXCEPT ![p].map = rows \ gone]
    /\ UNCHANGED <<legacy, table, stamped, history>>

RemoveMemory(p) ==
    /\ At(p, "memory")
    /\ \E gone \in SUBSET proc[p].map : proc' = [proc EXCEPT ![p].map = @ \ gone]
    /\ UNCHANGED <<legacy, table, stamped, history>>

\* closeCacheDb, in a shutdown; requests that come later open the database again.
Close(p) ==
    /\ proc[p].pc \in {"open", "memory"}
    /\ Return(p, "closed")
    /\ UNCHANGED <<legacy, table, stamped, history>>

\* The process is killed, wherever it is; its successor starts anew.
Crash(p) ==
    /\ proc[p].pc # "closed"
    /\ Return(p, "closed")
    /\ interrupted' = (interrupted \/ (proc[p].pc \in Opening /\ table.layout = "v3" /\ ~stamped))
    /\ overrun' = (overrun \/ proc[p].pc \in Evicting \union Trimming)
    /\ UNCHANGED <<legacy, table, stamped, kept, overlapped>>

Migrate(p) ==
    \/ Open(p) \/ ReadTarget(p) \/ DropTarget(p) \/ CreateTarget(p) \/ CopyRows(p)
    \/ DropLegacy(p) \/ RestoreLegacy(p) \/ MarkMoved(p) \/ ReadColumns(p) \/ ReadMeta(p)
    \/ DropIncompatible(p) \/ Create(p) \/ Stamp(p) \/ Prepare(p) \/ OpenFails(p)

Operate(p) ==
    \/ \E k \in Keys : Put(p, k) \/ PutMemory(p, k)
    \/ Count(p) \/ Evict(p) \/ SumBytes(p) \/ Trim(p) \/ StatementFails(p)
    \/ Remove(p) \/ RemoveMemory(p)

Next == \E p \in Procs : Migrate(p) \/ Operate(p) \/ Close(p) \/ Crash(p)

Spec == Init /\ [][Next]_vars

-----------------------------------------------------------------------------
(* Properties *)

\* Of the rows stored, by this version or by a release candidate, only removals
\* and evictions take any, whatever opens, fails and is killed in between; but
\* an open that ended between the creation of the table and its stamp, and two
\* first opens at once, may each cost the rows: the next open, or the slower
\* one, takes the table for one of an earlier version and drops it.
RowsLostOnlyByMishap ==
    ~interrupted /\ ~overlapped =>
        kept \subseteq table.rows \union legacy.rows

\* No two evictions together, and no failure of one that is not recorded, leave
\* the table or the fallback above its limits: what is above them is on account
\* of puts that have not finished.
LimitsKept ==
    /\ ~overrun =>
         /\ Cardinality(table.rows) <=
                MaxEntries + Cardinality({p \in Procs : proc[p].pc \in Evicting})
         /\ (\A p \in Procs : proc[p].pc \notin Evicting \union Trimming) =>
                Bytes[table.rows] <= MaxBytes
    /\ \A p \in Procs : Fits(proc[p].map)

\* An eviction for the number of entries leaves MAX_ENTRIES of them, unless rows
\* went between its count and itself: then it removes as many again.
EvictsOnlyExcess ==
    [][\A p \in Procs :
        At(p, "evict") /\ proc'[p].pc = "bytes" /\ ~proc[p].contended =>
            Cardinality(table'.rows) >= MaxEntries]_vars

\* Rows that were removed or evicted stay gone until they are put again: the
\* move of a release candidate's rows, which several processes may be doing,
\* never brings one back.
RemovedStaysRemoved == table.rows \subseteq kept
=============================================================================
