------------------------- MODULE CacheStoreProofs -------------------------
(***************************************************************************)
(* Proofs about CacheStore, for any number of processes and keys and any   *)
(* limits.  Three arguments carry them: while the table of a release       *)
(* candidate exists nobody has worked on the database; as long as no two   *)
(* opens have met on an unfinished migration, the one under way is alone   *)
(* with the tables; and each entry above the limit is on account of a put  *)
(* that has still to evict.                                                *)
(***************************************************************************)
EXTENDS CacheStore, FiniteSetTheorems, TLAPS

Step(p) == Migrate(p) \/ Operate(p) \/ Close(p) \/ Crash(p)

-----------------------------------------------------------------------------
(* Sets of keys and of processes *)

LEMMA KeysFinite ==
    ASSUME NEW S \in SUBSET Keys
    PROVE  IsFiniteSet(S) /\ Cardinality(S) \in Nat
BY KeysAssumption, FS_Subset, FS_CardinalityType

LEMMA KeysShrink ==
    ASSUME NEW S \in SUBSET Keys, NEW gone
    PROVE  /\ Cardinality(S \ gone) \in Nat /\ Cardinality(S) \in Nat
           /\ Cardinality(S \ gone) <= Cardinality(S)
           /\ Bytes[S \ gone] <= Bytes[S]
<1>1. S \ gone \in SUBSET S /\ S \ gone \in SUBSET Keys
  OBVIOUS
<1>2. Cardinality(S \ gone) <= Cardinality(S)
  BY <1>1, KeysFinite, FS_Subset
<1>3. Bytes[S \ gone] <= Bytes[S]
  BY <1>1, BytesAssumption
<1> QED BY <1>1, <1>2, <1>3, KeysFinite

\* The rows an eviction leaves.
LEMMA OldestGone ==
    ASSUME NEW S \in SUBSET Keys, NEW n \in Nat, NEW gone \in OldestOf(S, n)
    PROVE  /\ gone \subseteq S
           /\ Cardinality(S \ gone) \in Nat /\ Cardinality(S) \in Nat
           /\ \/ Cardinality(S \ gone) = Cardinality(S) - n
              \/ S \ gone = {} /\ Cardinality(S) <= n
<1>1. gone \in SUBSET S /\ gone \in SUBSET Keys /\ S \ gone \in SUBSET Keys
  BY DEF OldestOf
<1>2. IsFiniteSet(S) /\ IsFiniteSet(gone) /\ S \cap gone = gone
  BY <1>1, KeysFinite
<1>3. Cardinality(S \ gone) = Cardinality(S) - Cardinality(gone)
  BY <1>2, FS_Difference
<1>4. \/ Cardinality(gone) = n
      \/ gone = S /\ Cardinality(S) <= n
  BY DEF OldestOf
<1> QED BY <1>1, <1>3, <1>4, KeysFinite

LEMMA NothingFits == Fits({})
BY FS_EmptySet, LimitAssumption, BytesAssumption DEF Fits, Small

-----------------------------------------------------------------------------
(* Type correctness *)

\* Every place a process can be at.
LEMMA Places ==
    /\ {"closed", "open", "memory"} \subseteq PCs
    /\ Opening \subseteq PCs /\ Evicting \subseteq PCs /\ Trimming \subseteq PCs
    /\ {"target", "dropTarget", "createTarget", "copy", "dropLegacy", "restoreLegacy",
        "mark", "columns", "meta", "drop", "create", "stamp", "prepare"} \subseteq PCs
    /\ {"count", "evict", "bytes", "trim"} \subseteq PCs
BY DEF PCs, Opening, Evicting, Trimming

LEMMA ClosedType == \A pc \in PCs : [Closed EXCEPT !.pc = pc] \in Proc
<1>1. Closed \in Proc
  BY LimitAssumption, Places DEF Closed, Proc
<1> QED BY <1>1 DEF Proc

LEMMA ProcType ==
    ASSUME TypeOK, NEW p \in Procs, NEW pc \in PCs
    PROVE  /\ Goto(p, pc) => proc' \in [Procs -> Proc]
           /\ Return(p, pc) => proc' \in [Procs -> Proc]
           /\ \A gone : Lost(p, gone, pc) => proc' \in [Procs -> Proc]
<1>1. proc \in [Procs -> Proc]
  BY DEF TypeOK
<1>2. Goto(p, pc) => proc' \in [Procs -> Proc]
  BY <1>1 DEF Goto, Proc
<1>3. Return(p, pc) => proc' \in [Procs -> Proc]
  BY <1>1, ClosedType DEF Return
<1>4. ASSUME NEW gone, Lost(p, gone, pc)
      PROVE  proc' \in [Procs -> Proc]
  BY <1>1, <1>4 DEF Lost, Proc
<1> QED BY <1>2, <1>3, <1>4

LEMMA InitType == Init => TypeOK
<1> SUFFICES ASSUME Init PROVE TypeOK
  OBVIOUS
<1>1. legacy \in [layout : {"none", "v1", "rc"}, rows : SUBSET Keys]
  BY DEF Init, Absent
<1>2. table \in Tables /\ (table.layout # "v3" => table.rows = {})
  BY DEF Init, Absent, Tables
<1>3. [Closed EXCEPT !.pc = "closed"] = Closed
  <2> QED BY DEF Closed
<1>4. proc \in [Procs -> Proc]
  BY <1>3, ClosedType, Places DEF Init
<1>5. kept \in SUBSET Keys
  BY <1>1, <1>2 DEF Init, Tables
<1> QED BY <1>1, <1>2, <1>4, <1>5 DEF Init, TypeOK

LEMMA StepType ==
    ASSUME TypeOK, NEW p \in Procs, Step(p)
    PROVE  TypeOK'
<1>0. Cardinality(table.rows) \in Nat
  BY KeysFinite DEF TypeOK, Tables
<1> DEFINE Typed(t) == t \in Tables /\ (t.layout # "v3" => t.rows = {})
<1>a. Typed(table) /\ Typed(Absent) /\ Typed(CreateIfAbsent(table))
  BY DEF TypeOK, Tables, Absent, CreateIfAbsent
<1>b. \A rows \in SUBSET Keys : table.layout = "v3" => Typed([table EXCEPT !.rows = rows])
  BY DEF TypeOK, Tables
<1>c. legacy.rows \in SUBSET Keys /\ table.rows \in SUBSET Keys
  BY DEF TypeOK, Tables
<1> HIDE DEF Typed
<1>t. ASSUME Typed(table'), proc' \in [Procs -> Proc],
             UNCHANGED legacy \/ legacy' = Absent
                 \/ (legacy.layout = "none" /\ legacy' = [legacy EXCEPT !.layout = "v1"]),
             kept' \in SUBSET Keys, stamped' \in BOOLEAN, interrupted' \in BOOLEAN,
             overlapped' \in BOOLEAN, overrun' \in BOOLEAN
      PROVE  TypeOK'
  <2>1. legacy' \in [layout : {"none", "v1", "rc"}, rows : SUBSET Keys]
    BY <1>t DEF TypeOK, Absent
  <2> QED BY <2>1, <1>t DEF TypeOK, Typed
<1>1. CASE Open(p) \/ ReadTarget(p) \/ DropTarget(p) \/ ReadMeta(p) \/ DropIncompatible(p)
  <2>1. proc' \in [Procs -> Proc]
    BY <1>1, ProcType, Places DEF Open, ReadTarget, DropTarget, ReadMeta, DropIncompatible
  <2> QED BY <1>1, <1>a, <1>t, <2>1
          DEF Open, ReadTarget, DropTarget, ReadMeta, DropIncompatible, TypeOK, history
<1>2. CASE CreateTarget(p) \/ CopyRows(p) \/ DropLegacy(p) \/ RestoreLegacy(p) \/ MarkMoved(p)
  <2>1. proc' \in [Procs -> Proc]
    BY <1>2, ProcType, Places DEF CreateTarget, CopyRows, DropLegacy, RestoreLegacy, MarkMoved
  <2> QED BY <1>2, <1>a, <1>b, <1>c, <1>t, <2>1
          DEF CreateTarget, CopyRows, DropLegacy, RestoreLegacy, MarkMoved, TypeOK, history
<1>3. CASE ReadColumns(p)
  <2> DEFINE next == IF table.layout = "none" THEN "create" ELSE "meta"
             odd == table.layout = "odd"
             r == [proc[p] EXCEPT !.pc = next, !.odd = odd]
  <2>a. next \in PCs /\ odd \in BOOLEAN
    BY Places
  <2>b. proc' = [proc EXCEPT ![p] = r]
    BY <1>3 DEF ReadColumns, TypeOK
  <2> HIDE DEF next, odd
  <2>c. r \in Proc
    BY <2>a DEF TypeOK, Proc
  <2> HIDE DEF r
  <2>1. proc' \in [Procs -> Proc]
    BY <2>b, <2>c DEF TypeOK
  <2> QED BY <1>3, <1>a, <1>t, <2>1 DEF ReadColumns, TypeOK, history
<1>4. CASE Create(p) \/ Stamp(p) \/ Prepare(p) \/ OpenFails(p)
  <2>1. proc' \in [Procs -> Proc]
    BY <1>4, ProcType, Places DEF Create, Stamp, Prepare, OpenFails
  <2> QED BY <1>4, <1>a, <1>t, <2>1 DEF Create, Stamp, Prepare, OpenFails, TypeOK, history
<1>5. CASE \E k \in Keys : Put(p, k)
  <2>1. proc' \in [Procs -> Proc]
    BY <1>5, ProcType, Places DEF Put
  <2> QED BY <1>5, <1>b, <1>c, <1>t, <2>1 DEF Put, TypeOK
<1>6. CASE Count(p)
  <2> DEFINE n == Cardinality(table.rows)
             next == IF n > MaxEntries THEN "evict" ELSE "bytes"
             excess == IF n > MaxEntries THEN n - MaxEntries ELSE 0
             r == [proc[p] EXCEPT !.pc = next, !.excess = excess, !.rounds = Rounds,
                                  !.contended = FALSE]
  <2>a. next \in PCs /\ excess \in Nat /\ Rounds \in 0..Rounds
    BY <1>0, LimitAssumption, Places
  <2>b. proc' = [proc EXCEPT ![p] = r]
    BY <1>6 DEF Count, TypeOK
  <2> HIDE DEF next, excess
  <2>c. r \in Proc
    BY <2>a DEF TypeOK, Proc
  <2> HIDE DEF r
  <2>1. proc' \in [Procs -> Proc]
    BY <2>b, <2>c DEF TypeOK
  <2> QED BY <1>6, <1>a, <1>t, <2>1 DEF Count, TypeOK, history
<1>7. CASE Evict(p) \/ Trim(p) \/ Remove(p)
  <2>1. proc' \in [Procs -> Proc]
    BY <1>7, ProcType, Places DEF Evict, Trim, Remove
  <2> QED BY <1>7, <1>b, <1>c, <1>t, <2>1 DEF Evict, Trim, Remove, TypeOK
<1>8. CASE SumBytes(p)
  <2>1. proc' \in [Procs -> Proc]
    <3>1. CASE Return(p, "open")
      BY <3>1, ProcType, Places
    <3>2. CASE /\ proc[p].rounds > 0
               /\ proc' = [proc EXCEPT ![p].pc = "trim", ![p].rounds = @ - 1]
      BY <3>2, LimitAssumption, Places DEF TypeOK, Proc
    <3> QED BY <1>8, <3>1, <3>2 DEF SumBytes
  <2> QED BY <1>8, <1>a, <1>t, <2>1 DEF SumBytes, TypeOK
<1>9. CASE StatementFails(p) \/ Close(p) \/ Crash(p)
  <2>1. proc' \in [Procs -> Proc]
    BY <1>9, ProcType, Places DEF StatementFails, Close, Crash
  <2> QED BY <1>9, <1>a, <1>t, <2>1 DEF StatementFails, Close, Crash, TypeOK, history
<1>10. CASE (\E k \in Keys : PutMemory(p, k)) \/ RemoveMemory(p)
  <2>1. proc' \in [Procs -> Proc]
    <3>1. proc[p] \in Proc
      BY DEF TypeOK
    <3>2. PICK rows \in SUBSET Keys : proc' = [proc EXCEPT ![p].map = rows]
      BY <1>10, <3>1 DEF PutMemory, RemoveMemory, Proc
    <3> QED BY <3>2 DEF TypeOK, Proc
  <2> QED BY <1>10, <1>a, <1>t, <2>1 DEF PutMemory, RemoveMemory, TypeOK, history
<1> QED BY <1>1, <1>2, <1>3, <1>4, <1>5, <1>6, <1>7, <1>8, <1>9, <1>10
        DEF Step, Migrate, Operate

LEMMA NextType == TypeOK /\ [Next]_vars => TypeOK'
<1>1. TypeOK /\ UNCHANGED vars => TypeOK'
  BY DEF TypeOK, vars
<1> QED BY <1>1, StepType DEF Next, Step

\* In every reachable state the variables have their types: an eviction counts with natural
\* numbers, no round is taken when none is left, and a table the code does not understand has
\* no rows of this version.
THEOREM CacheStoreTypeCorrect == Spec => []TypeOK
BY InitType, NextType, PTL DEF Spec

\* A step of one process leaves the others where they are, and can only tell them that
\* rows went.
LEMMA OthersStay ==
    ASSUME TypeOK, NEW p \in Procs, Step(p), NEW q \in Procs, q # p
    PROVE  /\ proc'[q].pc = proc[q].pc /\ proc'[q].odd = proc[q].odd
           /\ proc'[q].excess = proc[q].excess /\ proc'[q].map = proc[q].map
           /\ proc[q].contended => proc'[q].contended
<1>1. \A pc : Goto(p, pc) \/ Return(p, pc) => proc'[q] = proc[q]
  BY DEF TypeOK, Goto, Return
<1>2. \A gone, pc : Lost(p, gone, pc) =>
          proc'[q] = [proc[q] EXCEPT !.contended = @ \/ (gone # {} /\ proc[q].pc = "evict")]
  BY DEF TypeOK, Lost
<1>3. proc[q] \in Proc
  BY DEF TypeOK
<1>4. CASE Open(p) \/ ReadTarget(p) \/ CreateTarget(p) \/ CopyRows(p) \/ DropLegacy(p)
           \/ RestoreLegacy(p) \/ MarkMoved(p) \/ ReadMeta(p) \/ Create(p) \/ Stamp(p)
           \/ Prepare(p) \/ OpenFails(p) \/ (\E k \in Keys : Put(p, k))
           \/ StatementFails(p) \/ Close(p) \/ Crash(p)
  BY <1>1, <1>4
     DEF Open, ReadTarget, CreateTarget, CopyRows, DropLegacy, RestoreLegacy, MarkMoved, ReadMeta,
         Create, Stamp, Prepare, OpenFails, Put, StatementFails, Close, Crash
<1>5. CASE DropTarget(p) \/ DropIncompatible(p) \/ Evict(p) \/ Trim(p) \/ Remove(p)
  BY <1>2, <1>3, <1>5 DEF DropTarget, DropIncompatible, Evict, Trim, Remove, Proc
<1>6. CASE ReadColumns(p) \/ Count(p) \/ SumBytes(p) \/ RemoveMemory(p)
           \/ (\E k \in Keys : PutMemory(p, k))
  BY <1>1, <1>6 DEF ReadColumns, Count, SumBytes, RemoveMemory, PutMemory, TypeOK
<1> QED BY <1>4, <1>5, <1>6 DEF Step, Migrate, Operate

\* Where a process is after a statement that goes on, returns, or takes rows.
LEMMA Moved ==
    ASSUME TypeOK, NEW p \in Procs, NEW pc
    PROVE  /\ Goto(p, pc) => proc'[p] = [proc[p] EXCEPT !.pc = pc]
           /\ Return(p, pc) => proc'[p] = [Closed EXCEPT !.pc = pc]
           /\ \A gone : Lost(p, gone, pc) => proc'[p] = [proc[p] EXCEPT !.pc = pc]
           /\ Goto(p, pc) \/ Return(p, pc) \/ (\E gone : Lost(p, gone, pc)) => proc'[p].pc = pc
<1>1. proc[p] \in Proc /\ proc \in [Procs -> Proc]
  BY DEF TypeOK
<1> QED BY <1>1 DEF Goto, Return, Lost, Proc, Closed

\* What a count and a sum decide.
LEMMA Counted ==
    ASSUME TypeOK, NEW p \in Procs
    PROVE  /\ Count(p) => /\ ~proc'[p].contended
                          /\ \/ /\ Cardinality(table.rows) > MaxEntries /\ proc'[p].pc = "evict"
                                /\ proc'[p].excess = Cardinality(table.rows) - MaxEntries
                             \/ Cardinality(table.rows) <= MaxEntries /\ proc'[p].pc = "bytes"
           /\ SumBytes(p) => \/ proc'[p].pc = "trim"
                             \/ /\ proc'[p].pc = "open"
                                /\ overrun' = TRUE \/ Bytes[table.rows] <= MaxBytes
<1>1. Cardinality(table.rows) \in Nat /\ Bytes[table.rows] \in Nat
  BY KeysFinite, BytesAssumption DEF TypeOK, Tables
<1>2. proc[p] \in Proc /\ proc \in [Procs -> Proc]
  BY DEF TypeOK
<1>3. ASSUME Count(p)
      PROVE  /\ ~proc'[p].contended
             /\ \/ /\ Cardinality(table.rows) > MaxEntries /\ proc'[p].pc = "evict"
                   /\ proc'[p].excess = Cardinality(table.rows) - MaxEntries
                \/ Cardinality(table.rows) <= MaxEntries /\ proc'[p].pc = "bytes"
  <2> DEFINE n == Cardinality(table.rows)
             next == IF n > MaxEntries THEN "evict" ELSE "bytes"
             excess == IF n > MaxEntries THEN n - MaxEntries ELSE 0
  <2>1. proc' = [proc EXCEPT ![p].pc = next, ![p].excess = excess, ![p].rounds = Rounds,
                             ![p].contended = FALSE]
    BY <1>3 DEF Count
  <2> HIDE DEF next, excess
  <2>2. ~proc'[p].contended /\ proc'[p].pc = next /\ proc'[p].excess = excess
    BY <1>2, <2>1 DEF Proc
  <2> QED BY <1>1, <2>2, LimitAssumption DEF next, excess
<1>4. ASSUME SumBytes(p)
      PROVE  \/ proc'[p].pc = "trim"
             \/ /\ proc'[p].pc = "open"
                /\ overrun' = TRUE \/ Bytes[table.rows] <= MaxBytes
  <2>1. \/ proc' = [proc EXCEPT ![p].pc = "trim", ![p].rounds = @ - 1]
        \/ Return(p, "open") /\ (overrun' = TRUE \/ Bytes[table.rows] <= MaxBytes)
    BY <1>1, <1>4, BytesAssumption DEF SumBytes
  <2>2. CASE proc' = [proc EXCEPT ![p].pc = "trim", ![p].rounds = @ - 1]
    <3>1. proc'[p].pc = "trim"
      BY <1>2, <2>2 DEF Proc
    <3> QED BY <3>1
  <2>3. CASE Return(p, "open") /\ (overrun' = TRUE \/ Bytes[table.rows] <= MaxBytes)
    <3>1. proc'[p].pc = "open"
      BY <2>3, Moved
    <3> QED BY <2>3, <3>1
  <2> QED BY <2>1, <2>2, <2>3
<1> QED BY <1>3, <1>4

-----------------------------------------------------------------------------
(* The rows of a release candidate *)

\* Where a process is as long as the table of the release candidate exists.
Early == {"closed", "memory", "target", "dropTarget", "createTarget", "copy", "dropLegacy"}

MoveOK ==
    /\ legacy.layout # "rc" => legacy.rows = {}
    /\ legacy.layout = "rc" => \A p \in Procs : proc[p].pc \in Early
    /\ legacy.rows \union table.rows \subseteq kept

LEMMA StepMove ==
    ASSUME TypeOK, MoveOK, NEW p \in Procs, Step(p)
    PROVE  MoveOK'
<1>l. legacy.rows \in SUBSET Keys /\ table.rows \in SUBSET Keys /\ kept \in SUBSET Keys
  BY DEF TypeOK, Tables
<1>1. ASSUME UNCHANGED legacy, table'.rows \subseteq table.rows \union legacy.rows, kept' = kept,
             legacy.layout = "rc" => proc'[p].pc \in Early
      PROVE  MoveOK'
  BY <1>1, OthersStay DEF MoveOK
<1>2. CASE Open(p) \/ ReadTarget(p) \/ DropTarget(p) \/ CreateTarget(p) \/ CopyRows(p)
  <2>1. proc'[p].pc \in Early \union {"columns"}
    BY <1>2, Moved DEF Open, ReadTarget, DropTarget, CreateTarget, CopyRows, Early
  <2>2. legacy.layout = "rc" => proc'[p].pc \in Early
    BY <1>2, <2>1, Moved DEF Open, ReadTarget, DropTarget, CreateTarget, CopyRows, Early
  <2> QED BY <1>1, <1>2, <2>2
          DEF Open, ReadTarget, DropTarget, CreateTarget, CopyRows, Absent, CreateIfAbsent,
              history, TypeOK, Tables
<1>3. CASE DropLegacy(p) \/ RestoreLegacy(p)
  <2>1. legacy'.rows = {} /\ legacy'.layout # "rc"
    BY <1>3 DEF DropLegacy, RestoreLegacy, Absent, MoveOK, TypeOK
  <2> QED BY <1>3, <2>1 DEF DropLegacy, RestoreLegacy, MoveOK, history
<1>4. CASE MarkMoved(p) \/ ReadColumns(p) \/ ReadMeta(p) \/ DropIncompatible(p)
           \/ Create(p) \/ Stamp(p) \/ Prepare(p)
  <2>1. proc[p].pc \notin Early
    BY <1>4 DEF MarkMoved, ReadColumns, ReadMeta, DropIncompatible, Create, Stamp, Prepare, At, Early
  <2>2. legacy.layout # "rc"
    BY <2>1 DEF MoveOK
  <2> QED BY <1>1, <1>4, <2>2
          DEF MarkMoved, ReadColumns, ReadMeta, DropIncompatible, Create, Stamp, Prepare,
              Absent, CreateIfAbsent, history, TypeOK, Tables
<1>5. CASE OpenFails(p) \/ Close(p) \/ Crash(p) \/ StatementFails(p)
  <2>1. legacy.layout = "rc" => proc'[p].pc \in Early
    BY <1>5, Moved DEF OpenFails, Close, Crash, StatementFails, Early, MoveOK, Evicting, Trimming
  <2> QED BY <1>1, <1>5, <2>1 DEF OpenFails, Close, Crash, StatementFails, history
<1>6. CASE (\E k \in Keys : Put(p, k)) \/ Evict(p) \/ Trim(p) \/ Remove(p)
  <2>1. proc[p].pc \notin Early /\ UNCHANGED legacy
    BY <1>6 DEF Put, Evict, Trim, Remove, At, Early
  <2>2. legacy.layout # "rc" /\ legacy.rows = {}
    BY <2>1 DEF MoveOK
  <2>3. table'.rows \subseteq kept'
    BY <1>6, <1>l DEF Put, Evict, Trim, Remove, TypeOK, Tables, MoveOK
  <2> QED BY <2>1, <2>2, <2>3 DEF MoveOK
<1>7. CASE Count(p) \/ SumBytes(p)
  <2>1. proc[p].pc \notin Early
    BY <1>7 DEF Count, SumBytes, At, Early
  <2>2. legacy.layout # "rc"
    BY <2>1 DEF MoveOK
  <2> QED BY <1>1, <1>7, <2>2 DEF Count, SumBytes, history
<1>8. CASE (\E k \in Keys : PutMemory(p, k)) \/ RemoveMemory(p)
  <2>1. proc'[p].pc = "memory"
    <3>1. proc[p].pc = "memory" /\ \E rows : proc' = [proc EXCEPT ![p].map = rows]
      BY <1>8 DEF PutMemory, RemoveMemory, At
    <3> QED BY <3>1 DEF TypeOK, Proc
  <2> QED BY <1>1, <1>8, <2>1 DEF PutMemory, RemoveMemory, Early, history
<1> QED BY <1>2, <1>3, <1>4, <1>5, <1>6, <1>7, <1>8 DEF Step, Migrate, Operate

LEMMA MoveInvariant == Spec => [](TypeOK /\ MoveOK)
<1>1. Init => MoveOK
  BY DEF Init, MoveOK, Absent, Closed, Early
<1>2. TypeOK /\ MoveOK /\ [Next]_vars => MoveOK'
  <2>1. TypeOK /\ MoveOK /\ UNCHANGED vars => MoveOK'
    BY DEF MoveOK, vars
  <2> QED BY <2>1, StepMove DEF Next, Step
<1> QED BY <1>1, <1>2, InitType, NextType, PTL DEF Spec

\* Rows that were removed or evicted stay gone: while the table of the release candidate is
\* there, nobody has worked on the database, so that its rows are all still wanted when
\* migrateReleaseCandidateTable copies them.
THEOREM CacheStoreRemovedStaysRemoved == Spec => []RemovedStaysRemoved
<1>1. MoveOK => RemovedStaysRemoved
  BY DEF MoveOK, RemovedStaysRemoved
<1> QED BY <1>1, MoveInvariant, PTL

-----------------------------------------------------------------------------
(* No rows are lost *)

\* Where an open is that knows of rows to be moved; that may have created the table, but
\* not its stamp.
Moving == {"target", "dropTarget", "createTarget", "copy", "dropLegacy"}
Publishing == {"copy", "dropLegacy", "restoreLegacy", "mark", "stamp"}

\* A table without its stamp is the work of an open that goes on.
UnstampedOK ==
    ~interrupted /\ table.layout = "v3" /\ ~stamped => \E p \in Procs : proc[p].pc \in Publishing

\* What an open knows of a database that is not settled.
Seen(q) ==
    /\ proc[q].pc \in Moving => legacy.layout = "rc"
    /\ proc[q].pc = "dropTarget" => table.layout = "odd"
    /\ proc[q].pc = "dropLegacy" => legacy.rows \subseteq table.rows
    /\ proc[q].pc = "meta" /\ proc[q].odd => table.layout = "odd"
    /\ proc[q].pc = "drop" => table.layout = "odd" \/ ~stamped

\* As long as no opens have met: one works on a database to be migrated, and what it has
\* seen is still so.
AloneOK ==
    /\ ~Settled => \A p, q \in Procs :
          proc[p].pc \in Opening /\ proc[q].pc \in Opening => p = q
    /\ \A p \in Procs : Seen(p)

RowsOK == UnstampedOK /\ (~overlapped => AloneOK) /\ RowsLostOnlyByMishap

LEMMA StepUnstamped ==
    ASSUME TypeOK, UnstampedOK, NEW p \in Procs, Step(p)
    PROVE  UnstampedOK'
<1> SUFFICES ASSUME ~interrupted', table'.layout = "v3", ~stamped'
             PROVE  \E q \in Procs : proc'[q].pc \in Publishing
  BY DEF UnstampedOK
<1>1. CASE proc'[p].pc \in Publishing
  BY <1>1
<1>2. CASE /\ table.layout = "v3" /\ ~stamped /\ ~interrupted
           /\ proc[p].pc \notin Publishing
  <2>1. PICK q \in Procs : proc[q].pc \in Publishing
    BY <1>2 DEF UnstampedOK
  <2> QED BY <1>2, <2>1, OthersStay
<1>3. CASE CreateTarget(p) \/ CopyRows(p) \/ DropLegacy(p) \/ RestoreLegacy(p) \/ MarkMoved(p)
           \/ Create(p) \/ Stamp(p)
  <2>1. proc'[p].pc \in Publishing
    BY <1>3, Moved
       DEF CreateTarget, CopyRows, DropLegacy, RestoreLegacy, MarkMoved, Create, Stamp, Publishing
  <2> QED BY <2>1
<1>4. CASE Open(p) \/ ReadTarget(p) \/ DropTarget(p) \/ ReadColumns(p) \/ ReadMeta(p)
           \/ DropIncompatible(p) \/ Prepare(p)
  <2>1. table.layout = "v3" /\ ~stamped /\ ~interrupted /\ proc[p].pc \notin Publishing
    BY <1>4 DEF Open, ReadTarget, DropTarget, ReadColumns, ReadMeta, DropIncompatible, Prepare,
                Absent, At, history, Publishing
  <2> QED BY <1>2, <2>1
<1>5. CASE OpenFails(p) \/ Crash(p)
  <2>1. /\ UNCHANGED <<table, stamped>>
        /\ \/ interrupted' = (interrupted \/ (table.layout = "v3" /\ ~stamped))
           \/ interrupted' = (interrupted \/ (proc[p].pc \in Opening /\ table.layout = "v3" /\ ~stamped))
    BY <1>5 DEF OpenFails, Crash
  <2>2. table.layout = "v3" /\ ~stamped /\ ~interrupted /\ proc[p].pc \notin Opening
    BY <2>1
  <2>3. table.layout = "v3" /\ ~stamped /\ ~interrupted /\ proc[p].pc \notin Publishing
    BY <2>2 DEF Publishing, Opening
  <2> QED BY <1>2, <2>3
<1>6. CASE Operate(p) \/ Close(p)
  <2>1. UNCHANGED <<stamped, interrupted>> /\ table'.layout = table.layout
    BY <1>6 DEF Operate, Put, PutMemory, Count, Evict, SumBytes, Trim, StatementFails, Remove,
                RemoveMemory, Close, history, TypeOK, Tables
  <2>2. proc[p].pc \notin Publishing
    BY <1>6 DEF Operate, Put, PutMemory, Count, Evict, SumBytes, Trim, StatementFails, Remove,
                RemoveMemory, Close, At, Publishing, Evicting, Trimming
  <2> QED BY <1>2, <2>1, <2>2
<1> QED BY <1>3, <1>4, <1>5, <1>6 DEF Step, Migrate

\* A drop on a settled database is by an open that has met another.
LEMMA SettledStays ==
    ASSUME TypeOK, AloneOK, Settled, NEW p \in Procs, Step(p)
    PROVE  Settled'
<1>1. proc[p].pc \notin {"dropTarget", "drop", "dropLegacy"}
  BY DEF AloneOK, Seen, Settled, Moving
<1>2. /\ legacy'.layout # "rc"
      /\ stamped'
      /\ table'.layout = table.layout
  <2>0. legacy.layout # "rc" /\ table.layout = "v3" /\ stamped
    BY DEF Settled
  <2>1. CASE Migrate(p)
    <3>1. ~DropTarget(p) /\ ~DropIncompatible(p) /\ ~DropLegacy(p)
      BY <1>1 DEF DropTarget, DropIncompatible, DropLegacy, At
    <3>2. CASE RestoreLegacy(p)
      BY <2>0, <3>2 DEF RestoreLegacy, history, TypeOK
    <3>3. CASE CreateTarget(p) \/ CopyRows(p) \/ Create(p)
      BY <2>0, <3>3 DEF CreateTarget, CopyRows, Create, CreateIfAbsent, history, TypeOK, Tables
    <3>4. CASE MarkMoved(p) \/ Stamp(p)
      BY <2>0, <3>4 DEF MarkMoved, Stamp, history
    <3>5. CASE Open(p) \/ ReadTarget(p) \/ ReadColumns(p) \/ ReadMeta(p) \/ Prepare(p)
               \/ OpenFails(p)
      BY <2>0, <3>5 DEF Open, ReadTarget, ReadColumns, ReadMeta, Prepare, OpenFails, history
    <3> QED BY <2>1, <3>1, <3>2, <3>3, <3>4, <3>5 DEF Migrate
  <2>2. CASE Operate(p) \/ Close(p) \/ Crash(p)
    BY <2>0, <2>2 DEF Operate, Put, PutMemory, Count, Evict, SumBytes, Trim, StatementFails, Remove,
                      RemoveMemory, Close, Crash, history, TypeOK, Tables
  <2> QED BY <2>1, <2>2 DEF Step
<1> QED BY <1>2 DEF Settled

LEMMA HistoryGrows ==
    ASSUME TypeOK, NEW p \in Procs, Step(p)
    PROVE  /\ ~overlapped' => ~overlapped
           /\ ~interrupted' => ~interrupted
           /\ ~overrun' => ~overrun
<1>1. UNCHANGED overlapped \/ \E b : overlapped' = (overlapped \/ b)
  BY DEF Step, Migrate, Operate, Open, ReadTarget, DropTarget, CreateTarget, CopyRows, DropLegacy,
         RestoreLegacy, MarkMoved, ReadColumns, ReadMeta, DropIncompatible, Create, Stamp, Prepare,
         OpenFails, Put, PutMemory, Count, Evict, SumBytes, Trim, StatementFails, Remove,
         RemoveMemory, Close, Crash, history
<1>2. UNCHANGED interrupted \/ \E b : interrupted' = (interrupted \/ b)
  BY DEF Step, Migrate, Operate, Open, ReadTarget, DropTarget, CreateTarget, CopyRows, DropLegacy,
         RestoreLegacy, MarkMoved, ReadColumns, ReadMeta, DropIncompatible, Create, Stamp, Prepare,
         OpenFails, Put, PutMemory, Count, Evict, SumBytes, Trim, StatementFails, Remove,
         RemoveMemory, Close, Crash, history
<1>3. UNCHANGED overrun \/ overrun' = TRUE \/ \E b : overrun' = (overrun \/ b)
  BY DEF Step, Migrate, Operate, Open, ReadTarget, DropTarget, CreateTarget, CopyRows, DropLegacy,
         RestoreLegacy, MarkMoved, ReadColumns, ReadMeta, DropIncompatible, Create, Stamp, Prepare,
         OpenFails, Put, PutMemory, Count, Evict, SumBytes, Trim, StatementFails, Remove,
         RemoveMemory, Close, Crash, history
<1>4. overlapped \in BOOLEAN /\ interrupted \in BOOLEAN /\ overrun \in BOOLEAN
  BY DEF TypeOK
<1>5. ~overlapped' => ~overlapped
  BY <1>1, <1>4
<1>6. ~interrupted' => ~interrupted
  BY <1>2, <1>4
<1>7. ~overrun' => ~overrun
  BY <1>3, <1>4
<1> QED BY <1>5, <1>6, <1>7

\* An open begins alone, or on a settled database.
LEMMA StepOne ==
    ASSUME TypeOK, ~overlapped => AloneOK, NEW p \in Procs, Step(p), ~overlapped', ~Settled'
    PROVE  \A q, r \in Procs : proc'[q].pc \in Opening /\ proc'[r].pc \in Opening => q = r
<1>1. ~Settled /\ \A q, r \in Procs : proc[q].pc \in Opening /\ proc[r].pc \in Opening => q = r
  BY HistoryGrows, SettledStays DEF AloneOK
<1>2. CASE Open(p)
  BY <1>1, <1>2, OthersStay DEF Open
<1>3. CASE ~Open(p)
  <2>1. proc'[p].pc \in Opening => proc[p].pc \in Opening
    <3>1. CASE Migrate(p)
      BY <1>3, <3>1, Moved
         DEF Migrate, ReadTarget, DropTarget, CreateTarget, CopyRows, DropLegacy, RestoreLegacy,
             MarkMoved, ReadColumns, ReadMeta, DropIncompatible, Create, Stamp, Prepare, OpenFails,
             At, Opening
    <3>2. CASE (\E k \in Keys : Put(p, k)) \/ Evict(p) \/ Trim(p) \/ StatementFails(p)
               \/ Remove(p) \/ Close(p) \/ Crash(p)
      <4>1. proc'[p].pc \notin Opening
        BY <3>2, Moved DEF Put, Evict, Trim, StatementFails, Remove, Close, Crash, Opening
      <4> QED BY <4>1
    <3>3. CASE (\E k \in Keys : PutMemory(p, k)) \/ RemoveMemory(p)
      <4>1. \E rows : proc' = [proc EXCEPT ![p].map = rows]
        BY <3>3 DEF PutMemory, RemoveMemory
      <4> QED BY <4>1 DEF TypeOK, Proc
    <3>4. CASE Count(p) \/ SumBytes(p)
      <4>1. proc'[p].pc \in {"evict", "bytes", "trim", "open"}
        BY <3>4, Counted
      <4> QED BY <4>1 DEF Opening
    <3> QED BY <3>1, <3>2, <3>3, <3>4 DEF Step, Operate
  <2> QED BY <1>1, <2>1, OthersStay
<1> QED BY <1>2, <1>3

LEMMA OwnSight ==
    ASSUME TypeOK, NEW p \in Procs, Seen(p), Step(p)
    PROVE  Seen(p)'
<1>1. CASE Open(p) \/ ReadTarget(p) \/ DropTarget(p) \/ CreateTarget(p) \/ CopyRows(p)
  BY <1>1, Moved DEF Open, ReadTarget, DropTarget, CreateTarget, CopyRows, history, At, Seen,
                     Moving, TypeOK, Tables
<1>2. CASE ReadColumns(p)
  <2>1. proc'[p].odd <=> table.layout = "odd"
    BY <1>2 DEF ReadColumns, TypeOK, Proc
  <2>2. proc'[p].pc \in {"create", "meta"} /\ UNCHANGED table
    BY <1>2 DEF ReadColumns, TypeOK, Proc
  <2> QED BY <2>1, <2>2 DEF Seen, Moving
<1>3. CASE ReadMeta(p)
  <2>1. /\ proc[p].pc = "meta" /\ UNCHANGED <<table, stamped>>
        /\ proc'[p].pc = IF stamped /\ ~proc[p].odd THEN "create" ELSE "drop"
    BY <1>3, Moved DEF ReadMeta, At
  <2> QED BY <2>1 DEF Seen, Moving
<1>4. CASE DropLegacy(p) \/ RestoreLegacy(p) \/ MarkMoved(p) \/ DropIncompatible(p) \/ Create(p)
           \/ Stamp(p) \/ Prepare(p) \/ OpenFails(p) \/ (\E k \in Keys : Put(p, k))
           \/ Evict(p) \/ Trim(p) \/ StatementFails(p) \/ Remove(p) \/ Close(p) \/ Crash(p)
  <2>1. proc'[p].pc \in {"restoreLegacy", "mark", "columns", "create", "stamp", "prepare", "open",
                         "memory", "closed", "count", "bytes"}
    BY <1>4, Moved
       DEF DropLegacy, RestoreLegacy, MarkMoved, DropIncompatible, Create, Stamp, Prepare, OpenFails,
           Put, Evict, Trim, StatementFails, Remove, Close, Crash
  <2> QED BY <2>1 DEF Seen, Moving
<1>5. CASE (\E k \in Keys : PutMemory(p, k)) \/ RemoveMemory(p)
  <2>1. proc[p].pc = "memory" /\ \E rows : proc' = [proc EXCEPT ![p].map = rows]
    BY <1>5 DEF PutMemory, RemoveMemory, At
  <2>2. proc'[p].pc = "memory"
    BY <2>1 DEF TypeOK, Proc
  <2> QED BY <2>2 DEF Seen, Moving
<1>6. CASE Count(p) \/ SumBytes(p)
  <2>1. proc'[p].pc \in {"evict", "bytes", "trim", "open"}
    BY <1>6, Counted
  <2> QED BY <2>1 DEF Seen, Moving
<1> QED BY <1>1, <1>2, <1>3, <1>4, <1>5, <1>6 DEF Step, Migrate, Operate

\* While one open works on a database to be migrated, what other processes do leaves the
\* database as that open has seen it.
LEMMA OthersSight ==
    ASSUME TypeOK, MoveOK, AloneOK, NEW p \in Procs, Step(p), ~overlapped',
           NEW q \in Procs, q # p, Seen(q)
    PROVE  Seen(q)'
<1>0. proc'[q].pc = proc[q].pc /\ proc'[q].odd = proc[q].odd
  BY OthersStay
<1>1. CASE Settled \/ proc[q].pc \notin Opening
  <2>1. \/ proc[q].pc \notin Moving \union {"meta", "drop"}
        \/ proc[q].pc = "meta" /\ ~proc[q].odd
    BY <1>1 DEF Seen, Settled, Opening, Moving
  <2> QED BY <1>0, <2>1 DEF Seen, Moving
<1>2. CASE ~Settled /\ proc[q].pc \in Opening
  <2>1. proc[p].pc \notin Opening
    BY <1>2 DEF AloneOK
  <2>2. ~Open(p)
    BY <1>2 DEF Open
  <2>3. Operate(p) \/ Close(p) \/ Crash(p)
    BY <2>1, <2>2
       DEF Step, Migrate, ReadTarget, DropTarget, CreateTarget, CopyRows, DropLegacy, RestoreLegacy,
           MarkMoved, ReadColumns, ReadMeta, DropIncompatible, Create, Stamp, Prepare, OpenFails,
           At, Opening
  <2>4. UNCHANGED <<legacy, stamped>> /\ table'.layout = table.layout
    BY <2>3 DEF Operate, Put, PutMemory, Count, Evict, SumBytes, Trim, StatementFails, Remove,
                RemoveMemory, Close, Crash, history, TypeOK, Tables
  <2>5. legacy.layout = "rc" => UNCHANGED table
    BY <2>3 DEF Operate, Put, PutMemory, Count, Evict, SumBytes, Trim, StatementFails, Remove,
                RemoveMemory, Close, Crash, history, MoveOK, Early, At
  <2> QED BY <1>0, <2>4, <2>5 DEF Seen, Moving
<1> QED BY <1>1, <1>2

LEMMA StepAlone ==
    ASSUME TypeOK, MoveOK, ~overlapped => AloneOK, NEW p \in Procs, Step(p), ~overlapped'
    PROVE  AloneOK'
<1>1. AloneOK
  BY HistoryGrows
<1>2. \A q \in Procs : Seen(q)
  BY <1>1 DEF AloneOK
<1>3. Seen(p)'
  BY <1>2, OwnSight
<1>4. \A q \in Procs : q # p => Seen(q)'
  BY <1>1, <1>2, OthersSight
<1> QED BY <1>3, <1>4, StepOne DEF AloneOK

LEMMA StepRows ==
    ASSUME TypeOK, RowsOK, NEW p \in Procs, Step(p)
    PROVE  RowsLostOnlyByMishap'
<1> SUFFICES ASSUME ~interrupted', ~overlapped'
             PROVE  kept' \subseteq table'.rows \union legacy'.rows
  BY DEF RowsLostOnlyByMishap
<1>1. ~interrupted /\ ~overlapped /\ AloneOK /\ UnstampedOK
  BY HistoryGrows DEF RowsOK
<1>2. kept \subseteq table.rows \union legacy.rows
  BY <1>1 DEF RowsOK, RowsLostOnlyByMishap
<1>3. CASE DropTarget(p)
  <2>1. table.rows = {}
    BY <1>1, <1>3 DEF DropTarget, At, AloneOK, Seen, TypeOK
  <2> QED BY <1>2, <1>3, <2>1 DEF DropTarget, history
<1>4. CASE DropIncompatible(p)
  <2>1. proc[p].pc = "drop" /\ ~Settled
    BY <1>1, <1>4 DEF DropIncompatible, At, AloneOK, Seen, Settled
  <2>2. \A q \in Procs : proc[q].pc \in Opening => q = p
    BY <1>1, <2>1 DEF AloneOK, Seen, Opening
  <2>3. table.layout # "v3"
    BY <1>1, <2>1, <2>2 DEF UnstampedOK, AloneOK, Seen, Publishing, Opening
  <2>4. table.rows = {}
    BY <2>3 DEF TypeOK
  <2> QED BY <1>2, <1>4, <2>4 DEF DropIncompatible, history
<1>5. CASE DropLegacy(p) \/ RestoreLegacy(p)
  <2>1. legacy.rows \subseteq table.rows \/ legacy'.rows = legacy.rows
    BY <1>1, <1>5 DEF DropLegacy, RestoreLegacy, At, AloneOK, Seen, TypeOK
  <2> QED BY <1>2, <1>5, <2>1 DEF DropLegacy, RestoreLegacy, history
<1>6. CASE CreateTarget(p) \/ CopyRows(p) \/ Create(p)
  BY <1>2, <1>6 DEF CreateTarget, CopyRows, Create, CreateIfAbsent, history, TypeOK, Tables
<1>7. CASE (\E k \in Keys : Put(p, k)) \/ Evict(p) \/ Trim(p) \/ Remove(p)
  BY <1>2, <1>7 DEF Put, Evict, Trim, Remove, TypeOK, Tables
<1>8. CASE UNCHANGED <<legacy, table, kept>>
  BY <1>2, <1>8
<1> QED BY <1>3, <1>4, <1>5, <1>6, <1>7, <1>8
        DEF Step, Migrate, Operate, Open, ReadTarget, MarkMoved, ReadColumns, ReadMeta, Stamp,
            Prepare, OpenFails, PutMemory, Count, SumBytes, StatementFails, RemoveMemory, Close,
            Crash, history

LEMMA RowsInvariant == Spec => []RowsOK
<1>1. Init => RowsOK
  <2> SUFFICES ASSUME Init PROVE RowsOK
    OBVIOUS
  <2>1. UnstampedOK
    BY DEF Init, UnstampedOK, Absent
  <2>2. \A p \in Procs : proc[p].pc = "closed"
    BY DEF Init, Closed
  <2>3. AloneOK
    BY <2>2 DEF AloneOK, Seen, Opening, Moving
  <2>4. RowsLostOnlyByMishap
    BY DEF Init, RowsLostOnlyByMishap
  <2> QED BY <2>1, <2>3, <2>4 DEF RowsOK
<1>2. TypeOK /\ MoveOK /\ RowsOK /\ [Next]_vars => RowsOK'
  <2>1. TypeOK /\ MoveOK /\ RowsOK /\ UNCHANGED vars => RowsOK'
    BY DEF RowsOK, UnstampedOK, AloneOK, Seen, RowsLostOnlyByMishap, Settled, vars
  <2>2. ASSUME TypeOK, MoveOK, RowsOK, NEW p \in Procs, Step(p)
        PROVE  RowsOK'
    BY <2>2, StepUnstamped, StepAlone, StepRows DEF RowsOK
  <2> QED BY <2>1, <2>2 DEF Next, Step
<1> QED BY <1>1, <1>2, MoveInvariant, PTL DEF Spec

\* The rows of the cache, and those of a release candidate, go only by removals and evictions,
\* through whatever opens, failures and crashes migrateSchema meets, unless an open ended
\* between the table and its stamp, or two first opens met.
THEOREM CacheStoreRowsLostOnlyByMishap == Spec => []RowsLostOnlyByMishap
<1>1. RowsOK => RowsLostOnlyByMishap
  BY DEF RowsOK
<1> QED BY <1>1, RowsInvariant, PTL

-----------------------------------------------------------------------------
(* The limits *)

Evictors == {p \in Procs : proc[p].pc \in Evicting}

\* Every entry too many is on account of a put that has yet to evict; one that has counted
\* takes its share.
CountOK ==
    ~overrun =>
        /\ Cardinality(table.rows) <= MaxEntries + Cardinality(Evictors)
        /\ \A p \in Procs : proc[p].pc = "evict" =>
              /\ proc[p].excess >= 1
              /\ Cardinality(table.rows) <=
                    MaxEntries + proc[p].excess + Cardinality(Evictors \ {p})

BytesOK ==
    ~overrun /\ (\A p \in Procs : proc[p].pc \notin Evicting \union Trimming) =>
        Bytes[table.rows] <= MaxBytes

MapsOK == \A p \in Procs : Fits(proc[p].map)

LimitsOK == CountOK /\ BytesOK /\ MapsOK

LEMMA Counting ==
    ASSUME NEW S \in SUBSET Procs, NEW p \in Procs
    PROVE  /\ Cardinality(S) \in Nat /\ Cardinality(S \ {p}) \in Nat
           /\ p \notin S => Cardinality(S \union {p}) = Cardinality(S) + 1
           /\ p \in S => Cardinality(S \ {p}) = Cardinality(S) - 1
<1>1. IsFiniteSet(S) /\ IsFiniteSet(S \ {p})
  BY ProcsAssumption, FS_Subset, FS_RemoveElement
<1> QED BY <1>1, FS_CardinalityType, FS_AddElement, FS_RemoveElement

\* What the statements other than those of a put with its count and eviction do to the rows,
\* and to who is evicting.
LEMMA QuietStep ==
    ASSUME TypeOK, NEW p \in Procs, Step(p), ~overrun',
           ~\E k \in Keys : Put(p, k), ~Count(p), ~Evict(p)
    PROVE  /\ table'.rows \subseteq table.rows \/ Fits(table'.rows)
           /\ proc[p].pc \notin Evicting /\ proc'[p].pc \notin Evicting
<1>0. table.rows \in SUBSET Keys
  BY DEF TypeOK, Tables
<1>1. CASE CopyRows(p)
  <2>1. overrun' = (overrun \/ ~Fits(table.rows \union legacy.rows))
    BY <1>1 DEF CopyRows
  <2>2. table'.rows = table.rows \union legacy.rows
    BY <1>1 DEF CopyRows, TypeOK, Tables
  <2>3. Fits(table'.rows)
    BY <2>1, <2>2
  <2> QED BY <1>1, <2>3, Moved DEF CopyRows, At, Evicting
<1>2. CASE Open(p) \/ ReadTarget(p) \/ DropTarget(p) \/ CreateTarget(p) \/ DropLegacy(p)
           \/ RestoreLegacy(p) \/ MarkMoved(p) \/ ReadMeta(p) \/ DropIncompatible(p)
           \/ Create(p) \/ Stamp(p) \/ Prepare(p) \/ OpenFails(p)
  <2>1. table'.rows \subseteq table.rows
    BY <1>2 DEF Open, ReadTarget, DropTarget, CreateTarget, DropLegacy, RestoreLegacy, MarkMoved,
                ReadMeta, DropIncompatible, Create, Stamp, Prepare, OpenFails, Absent,
                CreateIfAbsent, history, TypeOK, Tables
  <2>2. proc[p].pc \notin Evicting
    BY <1>2 DEF Open, ReadTarget, DropTarget, CreateTarget, DropLegacy, RestoreLegacy, MarkMoved,
                ReadMeta, DropIncompatible, Create, Stamp, Prepare, OpenFails, At, Opening, Evicting
  <2>3. proc'[p].pc \notin Evicting
    BY <1>2, Moved
       DEF Open, ReadTarget, DropTarget, CreateTarget, DropLegacy, RestoreLegacy, MarkMoved,
           ReadMeta, DropIncompatible, Create, Stamp, Prepare, OpenFails, Evicting
  <2> QED BY <2>1, <2>2, <2>3
<1>3. CASE ReadColumns(p)
  <2>1. proc'[p].pc \in {"create", "meta"}
    BY <1>3 DEF ReadColumns, TypeOK, Proc
  <2> QED BY <1>3, <2>1 DEF ReadColumns, At, Evicting, history
<1>4. CASE SumBytes(p)
  <2>1. proc'[p].pc \in {"trim", "open"}
    BY <1>4, Counted
  <2> QED BY <1>4, <2>1 DEF SumBytes, At, Evicting
<1>5. CASE Trim(p) \/ Remove(p)
  <2>1. table'.rows \subseteq table.rows
    BY <1>5 DEF Trim, Remove, TypeOK, Tables
  <2> QED BY <1>5, <2>1, Moved DEF Trim, Remove, At, Evicting
<1>6. CASE Close(p)
  BY <1>6, Moved DEF Close, Evicting, history
<1>7. CASE Crash(p)
  <2>1. overrun' = (overrun \/ proc[p].pc \in Evicting \union Trimming)
    BY <1>7 DEF Crash
  <2>2. proc[p].pc \notin Evicting
    BY <2>1
  <2> QED BY <1>7, <2>2, Moved DEF Crash, Evicting
<1>8. CASE StatementFails(p)
  BY <1>8 DEF StatementFails
<1>9. CASE (\E k \in Keys : PutMemory(p, k)) \/ RemoveMemory(p)
  <2>1. proc[p].pc = "memory" /\ \E rows : proc' = [proc EXCEPT ![p].map = rows]
    BY <1>9 DEF PutMemory, RemoveMemory, At
  <2>2. proc'[p].pc = "memory"
    BY <2>1 DEF TypeOK, Proc
  <2> QED BY <1>9, <2>1, <2>2 DEF PutMemory, RemoveMemory, Evicting, history
<1> QED BY <1>1, <1>2, <1>3, <1>4, <1>5, <1>6, <1>7, <1>8, <1>9 DEF Step, Migrate, Operate

LEMMA StepCount ==
    ASSUME TypeOK, TypeOK', CountOK, NEW p \in Procs, Step(p)
    PROVE  CountOK'
<1> SUFFICES ASSUME ~overrun'
             PROVE  /\ Cardinality(table'.rows) <= MaxEntries + Cardinality(Evictors')
                    /\ \A q \in Procs : proc'[q].pc = "evict" =>
                          /\ proc'[q].excess >= 1
                          /\ Cardinality(table'.rows) <=
                                MaxEntries + proc'[q].excess + Cardinality(Evictors' \ {q})
  BY DEF CountOK
<1>r. table.rows \in SUBSET Keys /\ table'.rows \in SUBSET Keys
  BY DEF TypeOK, Tables
<1>n. /\ Cardinality(table.rows) \in Nat /\ Cardinality(table'.rows) \in Nat /\ MaxEntries \in Nat
      /\ \A q \in Procs : proc[q].excess \in Nat /\ proc'[q].excess \in Nat
  BY <1>r, KeysFinite, LimitAssumption DEF TypeOK, Proc
<1>e. Evictors \in SUBSET Procs
  BY DEF Evictors
<1>c. /\ Cardinality(table.rows) <= MaxEntries + Cardinality(Evictors)
      /\ \A q \in Procs : proc[q].pc = "evict" =>
            /\ proc[q].excess >= 1
            /\ Cardinality(table.rows) <= MaxEntries + proc[q].excess + Cardinality(Evictors \ {q})
  BY HistoryGrows DEF CountOK
<1>o. \A q \in Procs \ {p} : proc'[q].pc = proc[q].pc /\ proc'[q].excess = proc[q].excess
  BY OthersStay
<1>1. CASE \E k \in Keys : Put(p, k)
  <2>1. proc[p].pc = "open" /\ proc'[p].pc = "count"
    BY <1>1, Moved DEF Put, At
  <2>2. p \notin Evictors /\ Evictors' = Evictors \union {p}
    BY <1>o, <2>1 DEF Evictors, Evicting
  <2>3. Cardinality(table'.rows) <= Cardinality(table.rows) + 1
    <3>1. PICK k \in Keys : table'.rows = table.rows \union {k}
      BY <1>1 DEF Put, TypeOK, Tables
    <3>2. Cardinality(table.rows \union {k}) =
             IF k \in table.rows THEN Cardinality(table.rows) ELSE Cardinality(table.rows) + 1
      BY <1>r, KeysFinite, FS_AddElement
    <3> QED BY <1>n, <3>1, <3>2
  <2>4. Cardinality(Evictors') = Cardinality(Evictors) + 1
    BY <1>e, <2>2, Counting
  <2>5. ASSUME NEW q \in Procs, proc'[q].pc = "evict"
        PROVE  /\ proc[q].pc = "evict" /\ proc'[q].excess = proc[q].excess
               /\ Cardinality(Evictors' \ {q}) = Cardinality(Evictors \ {q}) + 1
    <3>1. q # p
      BY <2>1, <2>5
    <3>2. Evictors' \ {q} = (Evictors \ {q}) \union {p} /\ p \notin Evictors \ {q}
      BY <2>2, <3>1
    <3>3. Cardinality((Evictors \ {q}) \union {p}) = Cardinality(Evictors \ {q}) + 1
      BY <1>e, <3>2, Counting
    <3> QED BY <1>o, <2>5, <3>1, <3>2, <3>3
  <2>6. Cardinality(table'.rows) <= MaxEntries + Cardinality(Evictors')
    <3>1. Cardinality(Evictors) \in Nat
      BY <1>e, Counting
    <3> QED BY <1>n, <1>c, <2>3, <2>4, <3>1
  <2>7. ASSUME NEW q \in Procs, proc'[q].pc = "evict"
        PROVE  /\ proc'[q].excess >= 1
               /\ Cardinality(table'.rows) <=
                     MaxEntries + proc'[q].excess + Cardinality(Evictors' \ {q})
    <3>1. Cardinality(Evictors \ {q}) \in Nat
      BY <1>e, Counting
    <3>2. /\ proc[q].excess >= 1
          /\ Cardinality(table.rows) <= MaxEntries + proc[q].excess + Cardinality(Evictors \ {q})
      BY <1>c, <2>5, <2>7
    <3> QED BY <1>n, <2>3, <2>5, <2>7, <3>1, <3>2
  <2> QED BY <2>6, <2>7
<1>2. CASE Count(p)
  <2>1. proc[p].pc = "count" /\ table' = table
    BY <1>2 DEF Count, At, history
  <2>2. p \in Evictors
    BY <2>1 DEF Evictors, Evicting
  <2>3. CASE /\ Cardinality(table.rows) > MaxEntries /\ proc'[p].pc = "evict"
             /\ proc'[p].excess = Cardinality(table.rows) - MaxEntries
    <3>1. Evictors' = Evictors
      BY <1>o, <2>1, <2>3 DEF Evictors, Evicting
    <3>2. \A q \in Procs : Cardinality(Evictors \ {q}) \in Nat
      BY <1>e, Counting
    <3>3. ASSUME NEW q \in Procs, proc'[q].pc = "evict"
          PROVE  /\ proc'[q].excess >= 1
                 /\ Cardinality(table'.rows) <=
                       MaxEntries + proc'[q].excess + Cardinality(Evictors' \ {q})
      <4>1. CASE q = p
        BY <1>n, <2>1, <2>3, <3>1, <3>2, <4>1
      <4>2. CASE q # p
        BY <1>c, <1>o, <2>1, <3>1, <3>3, <4>2
      <4> QED BY <4>1, <4>2
    <3> QED BY <1>c, <2>1, <3>1, <3>3
  <2>4. CASE Cardinality(table.rows) <= MaxEntries /\ proc'[p].pc = "bytes"
    <3>1. Evictors' \in SUBSET Procs
      BY DEF Evictors
    <3>2. Cardinality(Evictors') \in Nat /\ \A q \in Procs : Cardinality(Evictors' \ {q}) \in Nat
      BY <3>1, Counting
    <3>3. ASSUME NEW q \in Procs, proc'[q].pc = "evict"
          PROVE  /\ proc'[q].excess >= 1
                 /\ Cardinality(table'.rows) <=
                       MaxEntries + proc'[q].excess + Cardinality(Evictors' \ {q})
      <4>1. q # p
        BY <2>4, <3>3
      <4>2. proc[q].excess >= 1 /\ proc'[q].excess = proc[q].excess
        BY <1>c, <1>o, <3>3, <4>1
      <4> QED BY <1>n, <2>1, <2>4, <3>2, <4>2
    <3> QED BY <1>n, <2>1, <2>4, <3>2, <3>3
  <2> QED BY <1>2, <2>3, <2>4, Counted
<1>3. CASE Evict(p)
  <2>1. proc[p].pc = "evict" /\ proc'[p].pc = "bytes"
    BY <1>3, Moved DEF Evict, At
  <2>2. p \in Evictors /\ Evictors' = Evictors \ {p}
    BY <1>o, <2>1 DEF Evictors, Evicting
  <2>3. \/ Cardinality(table'.rows) = Cardinality(table.rows) - proc[p].excess
        \/ Cardinality(table'.rows) = 0
    <3>1. PICK gone \in OldestOf(table.rows, proc[p].excess) : table'.rows = table.rows \ gone
      BY <1>3 DEF Evict, TypeOK, Tables
    <3>2. \/ Cardinality(table.rows \ gone) = Cardinality(table.rows) - proc[p].excess
          \/ table.rows \ gone = {}
      BY <1>r, <1>n, OldestGone
    <3> QED BY <3>1, <3>2, FS_EmptySet
  <2>4. proc[p].excess >= 1 /\
        Cardinality(table.rows) <= MaxEntries + proc[p].excess + Cardinality(Evictors \ {p})
    BY <1>c, <2>1
  <2>5. ASSUME NEW q \in Procs, proc'[q].pc = "evict"
        PROVE  /\ proc[q].pc = "evict" /\ proc'[q].excess = proc[q].excess
               /\ Cardinality(Evictors' \ {q}) \in Nat
               /\ Cardinality(Evictors' \ {q}) = Cardinality(Evictors \ {q}) - 1
    <3>1. q # p
      BY <2>1, <2>5
    <3>2. Evictors' \ {q} = (Evictors \ {q}) \ {p} /\ p \in Evictors \ {q}
      BY <2>2, <3>1
    <3>3. /\ Cardinality((Evictors \ {q}) \ {p}) = Cardinality(Evictors \ {q}) - 1
          /\ Cardinality((Evictors \ {q}) \ {p}) \in Nat
      BY <1>e, <3>2, Counting
    <3> QED BY <1>o, <2>5, <3>1, <3>2, <3>3
  <2>6. Cardinality(Evictors') \in Nat /\ \A q \in Procs : Cardinality(Evictors \ {q}) \in Nat
    BY <1>e, <2>2, Counting
  <2>7. Cardinality(table'.rows) <= MaxEntries + Cardinality(Evictors')
    BY <1>n, <2>2, <2>3, <2>4, <2>6
  <2>8. ASSUME NEW q \in Procs, proc'[q].pc = "evict"
        PROVE  /\ proc'[q].excess >= 1
               /\ Cardinality(table'.rows) <=
                     MaxEntries + proc'[q].excess + Cardinality(Evictors' \ {q})
    <3>1. /\ proc[q].excess >= 1
          /\ Cardinality(table.rows) <= MaxEntries + proc[q].excess + Cardinality(Evictors \ {q})
      BY <1>c, <2>5, <2>8
    <3>2. /\ proc'[q].excess = proc[q].excess
          /\ Cardinality(Evictors' \ {q}) \in Nat
          /\ Cardinality(Evictors' \ {q}) = Cardinality(Evictors \ {q}) - 1
      BY <2>5, <2>8
    <3> QED BY <1>n, <2>3, <2>4, <2>6, <3>1, <3>2
  <2> QED BY <2>7, <2>8
<1>4. CASE ~(\E k \in Keys : Put(p, k)) /\ ~Count(p) /\ ~Evict(p)
  <2>1. /\ table'.rows \subseteq table.rows \/ Fits(table'.rows)
        /\ proc[p].pc \notin Evicting /\ proc'[p].pc \notin Evicting
    BY <1>4, QuietStep
  <2>2. Evictors' = Evictors
    BY <1>o, <2>1 DEF Evictors
  <2>3. \/ Cardinality(table'.rows) <= Cardinality(table.rows)
        \/ Cardinality(table'.rows) <= MaxEntries
    BY <1>r, <2>1, KeysFinite, FS_Subset DEF Fits, Small
  <2>4. \A q \in Procs : proc'[q].pc = "evict" => q # p
    BY <2>1 DEF Evicting
  <2>5. Cardinality(Evictors) \in Nat /\ \A q \in Procs : Cardinality(Evictors \ {q}) \in Nat
    BY <1>e, Counting
  <2>6. Cardinality(table'.rows) <= MaxEntries + Cardinality(Evictors')
    BY <1>n, <1>c, <2>2, <2>3, <2>5
  <2>7. ASSUME NEW q \in Procs, proc'[q].pc = "evict"
        PROVE  /\ proc'[q].excess >= 1
               /\ Cardinality(table'.rows) <=
                     MaxEntries + proc'[q].excess + Cardinality(Evictors' \ {q})
    <3>1. /\ proc[q].excess >= 1 /\ proc'[q].excess = proc[q].excess
          /\ Cardinality(table.rows) <= MaxEntries + proc[q].excess + Cardinality(Evictors \ {q})
      BY <1>c, <1>o, <2>4, <2>7
    <3> QED BY <1>n, <2>2, <2>3, <2>5, <3>1
  <2> QED BY <2>6, <2>7
<1> QED BY <1>1, <1>2, <1>3, <1>4

LEMMA StepBytes ==
    ASSUME TypeOK, BytesOK, NEW p \in Procs, Step(p)
    PROVE  BytesOK'
<1> SUFFICES ASSUME ~overrun', \A q \in Procs : proc'[q].pc \notin Evicting \union Trimming
             PROVE  Bytes[table'.rows] <= MaxBytes
  BY DEF BytesOK
<1>r. table.rows \in SUBSET Keys /\ Bytes[table.rows] \in Nat /\ MaxBytes \in Nat
  BY BytesAssumption DEF TypeOK, Tables
<1>1. CASE proc[p].pc \in Evicting \union Trimming
  <2>1. ~(\E k \in Keys : PutMemory(p, k)) /\ ~RemoveMemory(p) /\ ~Remove(p) /\ ~Close(p)
    BY <1>1 DEF PutMemory, RemoveMemory, Remove, Close, At, Evicting, Trimming
  <2>2. ~Migrate(p) /\ ~\E k \in Keys : Put(p, k)
    BY <1>1 DEF Migrate, Open, ReadTarget, DropTarget, CreateTarget, CopyRows, DropLegacy,
                RestoreLegacy, MarkMoved, ReadColumns, ReadMeta, DropIncompatible, Create, Stamp,
                Prepare, OpenFails, Put, At, Opening, Evicting, Trimming
  <2>3. ~Evict(p) /\ ~Trim(p)
    BY Moved DEF Evict, Trim, Trimming
  <2>4. ~Count(p)
    BY Counted DEF Evicting, Trimming
  <2>5. ~StatementFails(p)
    BY DEF StatementFails
  <2>6. ~Crash(p)
    <3>1. Crash(p) => overrun' = (overrun \/ proc[p].pc \in Evicting \union Trimming)
      BY DEF Crash
    <3> QED BY <1>1, <3>1
  <2>7. SumBytes(p)
    BY <2>1, <2>2, <2>3, <2>4, <2>5, <2>6 DEF Step, Operate
  <2>8. Bytes[table.rows] <= MaxBytes
    BY <2>7, Counted DEF Trimming
  <2> QED BY <2>7, <2>8 DEF SumBytes
<1>2. CASE proc[p].pc \notin Evicting \union Trimming
  <2>1. Bytes[table.rows] <= MaxBytes
    BY <1>2, OthersStay, HistoryGrows DEF BytesOK
  <2>2. ~\E k \in Keys : Put(p, k)
    BY Moved DEF Put, Evicting
  <2>3. ~Count(p) /\ ~Evict(p)
    BY <1>2 DEF Count, Evict, At, Evicting
  <2>4. table'.rows \subseteq table.rows \/ Fits(table'.rows)
    BY <2>2, <2>3, QuietStep
  <2>5. CASE table'.rows \subseteq table.rows
    <3>1. Bytes[table'.rows] <= Bytes[table.rows] /\ Bytes[table'.rows] \in Nat
      BY <1>r, <2>5, BytesAssumption
    <3> QED BY <1>r, <2>1, <3>1
  <2> QED BY <2>4, <2>5 DEF Fits
<1> QED BY <1>1, <1>2

LEMMA StepMaps ==
    ASSUME TypeOK, MapsOK, NEW p \in Procs, Step(p)
    PROVE  MapsOK'
<1>p. proc[p] \in Proc /\ proc \in [Procs -> Proc] /\ Fits(proc[p].map)
  BY DEF TypeOK, MapsOK
<1>1. \A pc : Goto(p, pc) \/ Return(p, pc) \/ (\E gone : Lost(p, gone, pc)) =>
          proc'[p].map \in {proc[p].map, {}}
  <2>1. \A pc : (Goto(p, pc) \/ (\E gone : Lost(p, gone, pc))) =>
            proc'[p] = [proc[p] EXCEPT !.pc = pc]
    BY Moved
  <2>2. \A pc : [proc[p] EXCEPT !.pc = pc].map = proc[p].map
    BY <1>p DEF Proc
  <2>3. \A pc : Return(p, pc) => proc'[p] = [Closed EXCEPT !.pc = pc]
    BY Moved
  <2>4. \A pc : [Closed EXCEPT !.pc = pc].map = {}
    BY DEF Closed
  <2> QED BY <2>1, <2>2, <2>3, <2>4
<1>2. SUFFICES Fits(proc'[p].map)
  BY OthersStay DEF MapsOK
<1>3. CASE \E k \in Keys : PutMemory(p, k)
  <2>1. PICK rows : Fits(rows) /\ proc' = [proc EXCEPT ![p].map = rows]
    BY <1>3 DEF PutMemory
  <2>2. proc'[p].map = rows
    BY <1>p, <2>1 DEF Proc
  <2> QED BY <2>1, <2>2
<1>4. CASE RemoveMemory(p)
  <2>1. PICK gone \in SUBSET proc[p].map : proc' = [proc EXCEPT ![p].map = @ \ gone]
    BY <1>4 DEF RemoveMemory
  <2>2. proc'[p].map = proc[p].map \ gone /\ proc[p].map \in SUBSET Keys
    BY <1>p, <2>1 DEF Proc
  <2>3. /\ Cardinality(proc[p].map \ gone) \in Nat /\ Cardinality(proc[p].map) \in Nat
        /\ Cardinality(proc[p].map \ gone) <= Cardinality(proc[p].map)
        /\ Bytes[proc[p].map \ gone] <= Bytes[proc[p].map]
        /\ Bytes[proc[p].map \ gone] \in Nat /\ Bytes[proc[p].map] \in Nat
    BY <2>2, KeysShrink, BytesAssumption
  <2>4. Fits(proc[p].map \ gone)
    BY <1>p, <2>3, LimitAssumption, BytesAssumption DEF Fits, Small
  <2> QED BY <2>2, <2>4
<1>5. CASE ReadColumns(p) \/ Count(p) \/ SumBytes(p)
  <2>1. proc'[p].map \in {proc[p].map, {}}
    <3>1. CASE ReadColumns(p)
      BY <1>p, <3>1 DEF ReadColumns, Proc
    <3>2. CASE Count(p)
      <4> DEFINE next == IF Cardinality(table.rows) > MaxEntries THEN "evict" ELSE "bytes"
                 excess == IF Cardinality(table.rows) > MaxEntries
                           THEN Cardinality(table.rows) - MaxEntries ELSE 0
      <4>1. proc' = [proc EXCEPT ![p].pc = next, ![p].excess = excess, ![p].rounds = Rounds,
                                 ![p].contended = FALSE]
        BY <3>2 DEF Count
      <4> HIDE DEF next, excess
      <4> QED BY <1>p, <4>1 DEF Proc
    <3>3. CASE SumBytes(p)
      <4>1. \/ proc' = [proc EXCEPT ![p].pc = "trim", ![p].rounds = @ - 1]
            \/ Return(p, "open")
        BY <3>3 DEF SumBytes
      <4>2. CASE proc' = [proc EXCEPT ![p].pc = "trim", ![p].rounds = @ - 1]
        BY <1>p, <4>2 DEF Proc
      <4> QED BY <1>1, <4>1, <4>2
    <3> QED BY <1>5, <3>1, <3>2, <3>3
  <2> QED BY <1>p, <2>1, NothingFits
<1>6. CASE \E pc : Goto(p, pc) \/ Return(p, pc) \/ (\E gone : Lost(p, gone, pc))
  BY <1>p, <1>1, <1>6, NothingFits
<1>7. CASE Migrate(p) /\ ~ReadColumns(p)
  BY <1>6, <1>7
     DEF Migrate, Open, ReadTarget, DropTarget, CreateTarget, CopyRows, DropLegacy, RestoreLegacy,
         MarkMoved, ReadMeta, DropIncompatible, Create, Stamp, Prepare, OpenFails
<1>8. CASE (\E k \in Keys : Put(p, k)) \/ Evict(p) \/ Trim(p) \/ StatementFails(p) \/ Remove(p)
           \/ Close(p) \/ Crash(p)
  BY <1>6, <1>8 DEF Put, Evict, Trim, StatementFails, Remove, Close, Crash
<1> QED BY <1>3, <1>4, <1>5, <1>7, <1>8 DEF Step, Operate

LEMMA LimitsInvariant == Spec => [](TypeOK /\ LimitsOK)
<1>1. Init => LimitsOK
  <2> SUFFICES ASSUME Init PROVE LimitsOK
    OBVIOUS
  <2>1. \A p \in Procs : proc[p].pc = "closed" /\ proc[p].map = {}
    BY DEF Init, Closed
  <2>2. Fits(table.rows)
    BY NothingFits DEF Init, Absent
  <2>3. Evictors = {} /\ Cardinality(Evictors) = 0
    BY <2>1, FS_EmptySet DEF Evictors, Evicting
  <2>4. CountOK
    BY <2>1, <2>2, <2>3, LimitAssumption DEF CountOK, Fits, Small
  <2> QED BY <2>1, <2>2, <2>4, NothingFits DEF LimitsOK, BytesOK, MapsOK, Fits
<1>2. TypeOK /\ LimitsOK /\ [Next]_vars => LimitsOK'
  <2>1. TypeOK /\ LimitsOK /\ UNCHANGED vars => LimitsOK'
    BY DEF LimitsOK, CountOK, BytesOK, MapsOK, Evictors, vars
  <2>2. ASSUME TypeOK, LimitsOK, NEW p \in Procs, Step(p)
        PROVE  LimitsOK'
    BY <2>2, StepType, StepCount, StepBytes, StepMaps DEF LimitsOK
  <2> QED BY <2>1, <2>2 DEF Next, Step
<1> QED BY <1>1, <1>2, InitType, NextType, PTL DEF Spec

\* The table is above MAX_ENTRIES by no more rows than puts are about to evict for, and above
\* MAX_BYTES only while one is at it, however enforceLruSqlite of different processes
\* interleave; the fallback is within both limits always.
THEOREM CacheStoreLimitsKept == Spec => []LimitsKept
<1>1. LimitsOK => LimitsKept
  BY DEF LimitsOK, CountOK, BytesOK, MapsOK, LimitsKept, Evictors
<1> QED BY <1>1, LimitsInvariant, PTL

-----------------------------------------------------------------------------
(* The excess *)

\* Who has counted and has not been told of rows that went still finds them.
ExcessOK ==
    \A p \in Procs : proc[p].pc = "evict" /\ ~proc[p].contended =>
        Cardinality(table.rows) >= MaxEntries + proc[p].excess

LEMMA StepExcess ==
    ASSUME TypeOK, TypeOK', ExcessOK, NEW p \in Procs, Step(p)
    PROVE  ExcessOK'
<1> SUFFICES ASSUME NEW q \in Procs, proc'[q].pc = "evict", ~proc'[q].contended
             PROVE  Cardinality(table'.rows) >= MaxEntries + proc'[q].excess
  BY DEF ExcessOK
<1>r. table.rows \in SUBSET Keys /\ table'.rows \in SUBSET Keys
  BY DEF TypeOK, Tables
<1>n. /\ Cardinality(table.rows) \in Nat /\ Cardinality(table'.rows) \in Nat /\ MaxEntries \in Nat
      /\ proc[q].excess \in Nat
  BY <1>r, KeysFinite, LimitAssumption DEF TypeOK, Proc
<1>1. CASE q = p
  <2>1. Count(p)
    <3>1. ~Migrate(p)
      <4>1. ~ReadColumns(p)
        <5>1. ReadColumns(p) => proc'[p].pc \in {"create", "meta"}
          BY DEF ReadColumns, TypeOK, Proc
        <5> QED BY <1>1, <5>1
      <4> QED BY <1>1, <4>1, Moved
              DEF Migrate, Open, ReadTarget, DropTarget, CreateTarget, CopyRows, DropLegacy,
                  RestoreLegacy, MarkMoved, ReadMeta, DropIncompatible, Create, Stamp, Prepare,
                  OpenFails
    <3>2. ~((\E k \in Keys : PutMemory(p, k)) \/ RemoveMemory(p))
      <4>1. (\E k \in Keys : PutMemory(p, k)) \/ RemoveMemory(p) =>
                proc[p].pc = "memory" /\ \E rows : proc' = [proc EXCEPT ![p].map = rows]
        BY DEF PutMemory, RemoveMemory, At
      <4>2. (\E rows : proc' = [proc EXCEPT ![p].map = rows]) => proc'[p].pc = proc[p].pc
        BY DEF TypeOK, Proc
      <4> QED BY <1>1, <4>1, <4>2
    <3>3. ~SumBytes(p)
      BY <1>1, Counted
    <3>4. ~((\E k \in Keys : Put(p, k)) \/ Evict(p) \/ Trim(p) \/ StatementFails(p) \/ Remove(p)
            \/ Close(p) \/ Crash(p))
      BY <1>1, Moved DEF Put, Evict, Trim, StatementFails, Remove, Close, Crash
    <3> QED BY <3>1, <3>2, <3>3, <3>4 DEF Step, Operate
  <2>2. table' = table /\ proc'[p].excess = Cardinality(table.rows) - MaxEntries
    BY <1>1, <2>1, Counted DEF Count, history
  <2> QED BY <1>1, <1>n, <2>2
<1>2. CASE q # p
  <2>1. /\ proc[q].pc = "evict" /\ proc'[q].excess = proc[q].excess /\ ~proc[q].contended
    BY <1>2, OthersStay
  <2>2. Cardinality(table.rows) >= MaxEntries + proc[q].excess
    BY <2>1 DEF ExcessOK
  <2>3. \A gone, pc : Lost(p, gone, pc) => gone = {}
    <3>1. ASSUME NEW gone, NEW pc, Lost(p, gone, pc), gone # {}
          PROVE  FALSE
      <4>1. proc'[q] = [proc[q] EXCEPT !.contended = @ \/ (gone # {} /\ proc[q].pc = "evict")]
        BY <1>2, <3>1 DEF Lost
      <4>2. proc'[q].contended
        BY <2>1, <3>1, <4>1 DEF TypeOK, Proc
      <4> QED BY <4>2
    <3> QED BY <3>1
  <2>4. CASE DropTarget(p) \/ DropIncompatible(p)
    <3>1. table.rows = {} /\ table'.rows = {}
      BY <2>3, <2>4 DEF DropTarget, DropIncompatible, Absent
    <3> QED BY <2>1, <2>2, <3>1
  <2>5. CASE Evict(p) \/ Trim(p) \/ Remove(p)
    <3>1. \E gone, pc : Lost(p, gone, pc) /\ table'.rows = table.rows \ gone
      BY <2>5 DEF Evict, Trim, Remove, TypeOK, Tables
    <3>2. table'.rows = table.rows
      BY <2>3, <3>1
    <3> QED BY <2>1, <2>2, <3>2
  <2>6. CASE table.rows \subseteq table'.rows
    <3>1. Cardinality(table.rows) <= Cardinality(table'.rows)
      BY <1>r, <2>6, KeysFinite, FS_Subset
    <3> QED BY <1>n, <2>1, <2>2, <3>1
  <2>7. CASE CreateTarget(p) \/ CopyRows(p) \/ Create(p) \/ \E k \in Keys : Put(p, k)
    BY <2>6, <2>7 DEF CreateTarget, CopyRows, Create, Put, CreateIfAbsent, TypeOK, Tables
  <2>8. CASE UNCHANGED table
    BY <2>6, <2>8
  <2> QED BY <2>4, <2>5, <2>7, <2>8
          DEF Step, Migrate, Operate, Open, ReadTarget, DropLegacy, RestoreLegacy, MarkMoved,
              ReadColumns, ReadMeta, Stamp, Prepare, OpenFails, PutMemory, Count, SumBytes,
              StatementFails, RemoveMemory, Close, Crash, history
<1> QED BY <1>1, <1>2

\* enforceLruSqlite leaves MAX_ENTRIES rows when it evicts for their number, unless rows went
\* between its count and its eviction.
THEOREM CacheStoreEvictsOnlyExcess == Spec => EvictsOnlyExcess
<1>1. Init => ExcessOK
  BY DEF Init, ExcessOK, Closed
<1>2. TypeOK /\ ExcessOK /\ [Next]_vars => ExcessOK'
  <2>1. TypeOK /\ ExcessOK /\ UNCHANGED vars => ExcessOK'
    BY DEF ExcessOK, vars
  <2> QED BY <2>1, StepExcess, StepType DEF Next, Step
<1>3. ASSUME TypeOK, ExcessOK, NEW q \in Procs, Step(q), NEW p \in Procs,
             At(p, "evict"), proc'[p].pc = "bytes", ~proc[p].contended
      PROVE  Cardinality(table'.rows) >= MaxEntries
  <2>1. q = p
    BY <1>3, OthersStay DEF At
  <2>2. Evict(p)
    <3>1. ~StatementFails(p) /\ ~Crash(p)
      BY <1>3, Moved DEF StatementFails, Crash
    <3> QED BY <1>3, <2>1, <3>1
            DEF Step, Migrate, Operate, Open, ReadTarget, DropTarget, CreateTarget, CopyRows,
                DropLegacy, RestoreLegacy, MarkMoved, ReadColumns, ReadMeta, DropIncompatible,
                Create, Stamp, Prepare, OpenFails, Put, PutMemory, Count, SumBytes, Trim, Remove,
                RemoveMemory, Close, At, Opening
  <2>3. table.rows \in SUBSET Keys /\ proc[p].excess \in Nat
    BY <1>3 DEF TypeOK, Tables, Proc
  <2>4. PICK gone \in OldestOf(table.rows, proc[p].excess) : table'.rows = table.rows \ gone
    BY <1>3, <2>2 DEF Evict, TypeOK, Tables
  <2>5. /\ Cardinality(table.rows) \in Nat
        /\ \/ Cardinality(table.rows \ gone) = Cardinality(table.rows) - proc[p].excess
           \/ Cardinality(table.rows) <= proc[p].excess
    <3>1. \A S \in SUBSET Keys, n \in Nat : \A h \in OldestOf(S, n) :
             /\ Cardinality(S) \in Nat
             /\ \/ Cardinality(S \ h) = Cardinality(S) - n
                \/ Cardinality(S) <= n
      BY OldestGone
    <3> QED BY <2>3, <2>4, <3>1
  <2>6. Cardinality(table.rows) >= MaxEntries + proc[p].excess
    BY <1>3 DEF ExcessOK, At
  <2> QED BY <2>3, <2>4, <2>5, <2>6, LimitAssumption
<1>4. TypeOK /\ ExcessOK /\ [Next]_vars =>
        [\A p \in Procs :
            At(p, "evict") /\ proc'[p].pc = "bytes" /\ ~proc[p].contended =>
                Cardinality(table'.rows) >= MaxEntries]_vars
  BY <1>3 DEF Next, Step
<1> QED BY <1>1, <1>2, <1>4, InitType, NextType, PTL DEF Spec, EvictsOnlyExcess
=============================================================================
