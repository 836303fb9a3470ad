----------------------- MODULE MemoryMigrationProofs -----------------------
(* What opening the memory database keeps, for any number of processes. *)
EXTENDS MemoryMigration, TLAPS

\* The row of k in the table of an earlier version is the original one.
Kept(k) == legacy.layout # "none" /\ legacy.rows[k] = origin[k]

\* What a process has seen: as long as the table of a release candidate is
\* there, nobody works on the database, and as long as a table of an earlier
\* version has rows, every open has seen its layout.
SightOK(h) ==
    /\ legacy.layout = "rc" =>
        /\ h.pc \in {"closed", "json", "save", "scoped", "drop", "create", "move", "dropLegacy"}
        /\ h.pc \in Opening => h.seen = "rc"
    /\ legacy.rows # NoRows /\ h.pc \in Opening => h.seen = legacy.layout
    /\ h.pc \in {"move", "dropLegacy"} => h.seen = "rc"

\* What is not left to import of memory.json is in the table, or touched.
FileOK(h) ==
    /\ h.left \subseteq Used(h.payload)
    /\ h.left # {} => h.pc = "row"
    /\ h.pc \in {"row", "lru", "rename"} =>
        Used(h.payload) \ h.left \subseteq touched \union Used(table.rows)

\* Who drops a candidate's table has its rows in the new one; who imports
\* memory.json found the new table empty, so that untouched rows of an earlier
\* version are where they were; who has not seen the new table is to import
\* into it; who has, still sees it.
StageOK(h) ==
    /\ h.pc = "dropLegacy" /\ legacy.layout = "rc" =>
        /\ table.layout = "v2"
        /\ \A k \in Keys : legacy.rows[k] # None => table.rows[k] = legacy.rows[k]
    /\ h.pc \in {"load", "row"} => \A k \in Keys \ touched : origin[k] # None => Kept(k)
    /\ h.pc = "drop" => h.fresh
    /\ h.pc = "create" => h.fresh \/ table.layout = "v2"
    /\ h.pc \in Importing \union {"open", "evict"} => table.layout = "v2"

ProcOK(h) == SightOK(h) /\ (redropped \/ (FileOK(h) /\ StageOK(h)))

\* Untouched rows of v0.5.5 are in the new table, or about to be.
ImportOK ==
    table.layout = "v2" /\ legacy.layout = "v1" =>
        \A k \in Keys \ touched :
            legacy.rows[k] # None =>
                table.rows[k] # None \/ \E q \in Procs : At(q, "import")

TablesOK ==
    /\ legacy.layout = "none" => legacy.rows = NoRows
    /\ legacy.rows \in {origin, NoRows}
    /\ legacy.layout = "rc" => legacy.rows = origin /\ touched = {}
    /\ table.layout # "v2" => table.rows = NoRows
    /\ MovedRowsSurvive
    /\ interrupted \/ redropped \/ ImportOK

IInv == TypeOK /\ TablesOK /\ \A p \in Procs : ProcOK(proc[p])

-----------------------------------------------------------------------------

LEMMA RowsTypes ==
    /\ NoRows \in Rows
    /\ \A k \in Keys : NoRows[k] = None
    /\ \A rows, new \in Rows :
        /\ Merged(rows, new) \in Rows
        /\ \A k \in Keys : Merged(rows, new)[k] = IF new[k] # None THEN new[k] ELSE rows[k]
    /\ \A rows \in Rows : \A gone :
        /\ Without(rows, gone) \in Rows
        /\ \A k \in Keys : Without(rows, gone)[k] = IF k \in gone THEN None ELSE rows[k]
BY DEF Rows, NoRows, Merged, Without

LEMMA ClosedIsProc ==
    ASSUME NEW pc \in PCs PROVE [Closed EXCEPT !.pc = pc] \in Proc
BY RowsTypes DEF Closed, Proc

LEMMA InitIInv == Init => IInv
<1> SUFFICES ASSUME Init PROVE IInv
  OBVIOUS
<1>1. legacy \in [layout : {"none", "v1", "rc"}, rows : Rows]
  BY RowsTypes DEF Init, Absent
<1>2. table \in [layout : {"none", "odd", "v2"}, rows : Rows]
      /\ table.layout # "v2" /\ table.rows = NoRows
  BY RowsTypes DEF Init, Absent
<1>3. TypeOK
  BY <1>1, <1>2, RowsTypes DEF Init, TypeOK, Closed, Proc, PCs
<1>4. TablesOK
  BY <1>1, <1>2, RowsTypes DEF Init, TablesOK, MovedRowsSurvive, ImportOK, Absent
<1>5. ASSUME NEW p \in Procs PROVE ProcOK(proc[p])
  BY RowsTypes DEF Init, ProcOK, SightOK, FileOK, StageOK, Closed, Opening, Importing, Used
<1> QED
  BY <1>3, <1>4, <1>5 DEF IInv

\* A step of a process that leaves the tables alone.
LEMMA ProcStep ==
    ASSUME IInv, NEW p \in Procs, NEW h \in Proc,
           proc' = [proc EXCEPT ![p] = h],
           UNCHANGED <<legacy, table, origin, touched, redropped>>,
           json' \in Rows \union {None},
           interrupted' \in BOOLEAN,
           interrupted \/ At(p, "import") => interrupted',
           ProcOK(h)
    PROVE  IInv'
<1>1. proc' \in [Procs -> Proc] /\ proc'[p] = h /\ \A q \in Procs : q # p => proc'[q] = proc[q]
  BY DEF IInv, TypeOK
<1>2. TypeOK'
  BY <1>1 DEF IInv, TypeOK
<1>3. ASSUME ImportOK, ~At(p, "import") PROVE ImportOK'
  BY <1>1, <1>3 DEF ImportOK, At
<1>4. TablesOK'
  BY <1>3 DEF IInv, TypeOK, TablesOK, MovedRowsSurvive
<1>5. ASSUME NEW q \in Procs PROVE ProcOK(proc[q])'
  <2>1. ProcOK(proc'[q])
    BY <1>1 DEF IInv
  <2> QED
    BY <2>1 DEF ProcOK, SightOK, FileOK, StageOK, Kept
<1> QED
  BY <1>2, <1>4, <1>5 DEF IInv

\* A step of a session that works on the table: what it changes is touched, or
\* is a row where there was none of an earlier version to be kept.
LEMMA TableStep ==
    ASSUME IInv, NEW p \in Procs, NEW h \in Proc, NEW rows \in Rows,
           proc' = [proc EXCEPT ![p] = h],
           table.layout = "v2",
           table' = [table EXCEPT !.rows = rows],
           UNCHANGED <<legacy, json, origin, interrupted, redropped>>,
           touched' \subseteq Keys,
           touched \subseteq touched',
           Opened(p),
           redropped \/ \A k \in Keys \ touched' :
               \/ rows[k] = table.rows[k]
               \/ rows[k] # None /\ (origin[k] # None => Kept(k)),
           SightOK(h),
           redropped \/ (FileOK(h)' /\ StageOK(h)')
    PROVE  IInv'
<1>1. proc' \in [Procs -> Proc] /\ proc'[p] = h /\ \A q \in Procs : q # p => proc'[q] = proc[q]
  BY DEF IInv, TypeOK
<1>2. table' \in [layout : {"none", "odd", "v2"}, rows : Rows]
      /\ table'.layout = "v2" /\ table'.rows = rows
  BY DEF IInv, TypeOK
<1>3. TypeOK'
  BY <1>1, <1>2 DEF IInv, TypeOK
<1>4. legacy.layout # "rc"
  BY DEF IInv, ProcOK, SightOK, Opened, Importing
<1>5. MovedRowsSurvive'
  BY <1>2 DEF IInv, TypeOK, TablesOK, MovedRowsSurvive, Kept
<1>6. ASSUME ImportOK, ~redropped PROVE ImportOK'
  <2>1. proc[p].pc # "import"
    BY DEF Opened, Importing
  <2>2. ASSUME NEW k \in Keys \ touched', table.rows[k] # None PROVE rows[k] # None
    BY <1>6, <2>2
  <2>3. \A q \in Procs : At(q, "import") => At(q, "import")'
    BY <1>1, <2>1 DEF At
  <2> QED
    BY <1>2, <1>6, <2>2, <2>3 DEF ImportOK
<1>7. TablesOK'
  BY <1>2, <1>4, <1>5, <1>6 DEF IInv, TablesOK
<1>8. ASSUME NEW q \in Procs PROVE ProcOK(proc[q])'
  <2>1. SightOK(proc'[q])
    BY <1>1 DEF IInv, ProcOK
  <2>2. SightOK(proc[q])'
    BY <2>1 DEF SightOK
  <2>3. ASSUME ~redropped, q # p PROVE (FileOK(proc[q]) /\ StageOK(proc[q]))'
    <3>1. proc'[q] = proc[q] /\ FileOK(proc[q]) /\ StageOK(proc[q])
      BY <1>1, <2>3 DEF IInv, ProcOK
    <3>2. touched \union Used(table.rows) \subseteq touched' \union Used(rows)
      BY <2>3 DEF Used
    <3>3. FileOK(proc[q])'
      BY <1>2, <3>1, <3>2 DEF FileOK
    <3>4. StageOK(proc[q])'
      BY <1>2, <1>4, <3>1 DEF StageOK, Kept
    <3> QED
      BY <3>3, <3>4
  <2>4. ASSUME ~redropped, q = p PROVE (FileOK(proc[q]) /\ StageOK(proc[q]))'
    BY <1>1, <2>4 DEF FileOK, StageOK, Kept
  <2> QED
    BY <2>2, <2>3, <2>4 DEF ProcOK
<1> QED
  BY <1>3, <1>7, <1>8 DEF IInv

-----------------------------------------------------------------------------
(* The steps of migrateMemorySchema that write *)

LEMMA DropIncompatibleIInv ==
    ASSUME IInv, NEW p \in Procs, DropIncompatible(p) PROVE IInv'
<1> USE DEF At, Goto
<1> DEFINE h == [proc[p] EXCEPT !.pc = "create"]
<1>1. h \in Proc /\ proc' = [proc EXCEPT ![p] = h]
  BY DEF IInv, TypeOK, Proc, PCs, Opening, DropIncompatible
<1>2. proc' \in [Procs -> Proc] /\ proc'[p] = h /\ \A q \in Procs : q # p => proc'[q] = proc[q]
  BY <1>1 DEF IInv, TypeOK
<1>3. table' = Absent /\ table'.layout = "none" /\ table'.rows = NoRows
      /\ Absent \in [layout : {"none", "odd", "v2"}, rows : Rows]
  BY RowsTypes DEF DropIncompatible, Absent
<1>4. TypeOK'
  BY <1>2, <1>3 DEF IInv, TypeOK, DropIncompatible
<1>5. ASSUME ~redropped' PROVE ~redropped /\ table.rows = NoRows
  BY <1>5 DEF IInv, TypeOK, TablesOK, DropIncompatible
<1>6. MovedRowsSurvive'
  BY <1>3, <1>5, RowsTypes DEF IInv, TypeOK, TablesOK, MovedRowsSurvive, DropIncompatible
<1>7. TablesOK'
  BY <1>3, <1>6 DEF IInv, TablesOK, ImportOK, DropIncompatible
<1>8. ASSUME NEW q \in Procs PROVE ProcOK(proc[q])'
  <2>1. SightOK(proc[q])'
    BY <1>2 DEF IInv, ProcOK, SightOK, Opening, DropIncompatible
  <2>2. ASSUME ~redropped' PROVE FileOK(proc[q])'
    BY <1>2, <1>3, <1>5, <2>2 DEF IInv, ProcOK, FileOK, DropIncompatible
  <2>3. ASSUME ~redropped' PROVE StageOK(proc[q])'
    <3>1. table.layout # "v2"
      BY <2>3 DEF IInv, TypeOK, DropIncompatible
    <3>2. StageOK(proc[q])
      BY <1>5, <2>3 DEF IInv, ProcOK
    <3>3. StageOK(proc[p])
      BY <1>5, <2>3 DEF IInv, ProcOK
    <3> QED
      BY <1>2, <1>3, <3>1, <3>2, <3>3 DEF StageOK, Kept, Importing, DropIncompatible
  <2> QED
    BY <2>1, <2>2, <2>3 DEF ProcOK
<1> QED
  BY <1>4, <1>7, <1>8 DEF IInv

LEMMA CreateTableIInv ==
    ASSUME IInv, NEW p \in Procs, CreateTable(p) PROVE IInv'
<1> USE DEF At, Goto
<1> DEFINE next == CASE proc[p].seen = "rc" -> "move"
                     [] proc[p].seen = "v1" /\ proc[p].fresh -> "import"
                     [] OTHER -> "restore"
           h == [proc[p] EXCEPT !.pc = next]
<1>1. /\ next \in {"move", "import", "restore"}
      /\ next = "move" <=> proc[p].seen = "rc"
      /\ proc[p].seen = "v1" /\ proc[p].fresh => next = "import"
  OBVIOUS
<1>2. h \in Proc /\ proc' = [proc EXCEPT ![p] = h]
  BY <1>1 DEF IInv, TypeOK, Proc, PCs, Opening, CreateTable
<1>3. proc' \in [Procs -> Proc] /\ proc'[p] = h /\ \A q \in Procs : q # p => proc'[q] = proc[q]
  BY <1>2 DEF IInv, TypeOK
<1>4. /\ table' \in [layout : {"none", "odd", "v2"}, rows : Rows]
      /\ table'.rows = table.rows
      /\ table'.layout = IF table.layout = "none" THEN "v2" ELSE table.layout
  BY DEF IInv, TypeOK, CreateTable
<1>5. TypeOK'
  BY <1>3, <1>4 DEF IInv, TypeOK, CreateTable
<1>6. MovedRowsSurvive'
  BY <1>4 DEF IInv, TypeOK, TablesOK, MovedRowsSurvive, CreateTable
<1>7. ASSUME ~interrupted, ~redropped PROVE ImportOK'
  <2> SUFFICES ASSUME table'.layout = "v2", legacy'.layout = "v1",
                      NEW k \in Keys \ touched', legacy'.rows[k] # None
               PROVE  table'.rows[k] # None \/ \E q \in Procs : At(q, "import")'
    BY DEF ImportOK
  <2>1. legacy' = legacy /\ touched' = touched
    BY DEF CreateTable
  <2>2. CASE table.layout = "v2"
    <3>1. ImportOK
      BY <1>7 DEF IInv, TablesOK
    <3>2. \A q \in Procs : q # p => proc'[q] = proc[q]
      BY <1>3
    <3>3. proc[p].pc = "create"
      BY DEF CreateTable
    <3> QED
      BY <1>4, <2>1, <2>2, <3>1, <3>2, <3>3 DEF ImportOK
  <2>3. CASE table.layout # "v2"
    <3>1. proc[p].fresh
      BY <1>7, <2>3 DEF IInv, ProcOK, StageOK, CreateTable
    <3>2. legacy.rows # NoRows
      BY <2>1, RowsTypes
    <3>3. proc[p].seen = "v1"
      BY <2>1, <3>2 DEF IInv, ProcOK, SightOK, Opening, CreateTable
    <3>4. proc'[p].pc = "import"
      BY <1>1, <1>3, <3>1, <3>3 DEF IInv, TypeOK, Proc
    <3> QED
      BY <3>4
  <2> QED
    BY <2>2, <2>3
<1>8. TablesOK'
  BY <1>4, <1>6, <1>7 DEF IInv, TypeOK, TablesOK, CreateTable
<1>9. ASSUME NEW q \in Procs PROVE ProcOK(proc[q])'
  <2>1. SightOK(proc[q]) /\ SightOK(proc[p])
    BY DEF IInv, ProcOK
  <2>2. SightOK(proc[q])'
    BY <1>1, <1>3, <2>1 DEF IInv, TypeOK, Proc, SightOK, Opening, CreateTable
  <2>3. ASSUME ~redropped PROVE FileOK(proc[q])'
    BY <1>1, <1>3, <1>4, <2>3 DEF IInv, TypeOK, Proc, ProcOK, FileOK, CreateTable
  <2>4. ASSUME ~redropped PROVE StageOK(proc[q])'
    <3>1. StageOK(proc[q])
      BY <2>4 DEF IInv, ProcOK
    <3> QED
      BY <1>1, <1>3, <1>4, <3>1 DEF IInv, TypeOK, Proc, StageOK, Kept, Importing, CreateTable
  <2> QED
    BY <2>2, <2>3, <2>4 DEF ProcOK, CreateTable
<1> QED
  BY <1>5, <1>8, <1>9 DEF IInv

\* Both copies of the rows of an earlier version.
LEMMA CopyIInv ==
    ASSUME IInv, NEW p \in Procs, MoveRows(p) \/ ImportLegacy(p) PROVE IInv'
<1> USE DEF At, Goto
<1> DEFINE next == IF proc[p].pc = "move" THEN "dropLegacy" ELSE "restore"
           h == [proc[p] EXCEPT !.pc = next]
           rows == Merged(table.rows, legacy.rows)
<1>1. /\ proc[p].pc \in {"move", "import"}
      /\ legacy.layout # "none" /\ table.layout = "v2"
      /\ proc[p].pc = "move" => legacy.layout = "rc"
      /\ table' = [table EXCEPT !.rows = rows]
      /\ UNCHANGED <<legacy, json, origin, touched, interrupted, redropped>>
  BY DEF MoveRows, ImportLegacy
<1>2. h \in Proc /\ proc' = [proc EXCEPT ![p] = h]
  BY DEF IInv, TypeOK, Proc, PCs, Opening, MoveRows, ImportLegacy
<1>3. proc' \in [Procs -> Proc] /\ proc'[p] = h /\ \A q \in Procs : q # p => proc'[q] = proc[q]
  BY <1>2 DEF IInv, TypeOK
<1>4. /\ rows \in Rows
      /\ \A k \in Keys : rows[k] = IF legacy.rows[k] # None THEN legacy.rows[k] ELSE table.rows[k]
  BY RowsTypes DEF IInv, TypeOK
<1>5. /\ table' \in [layout : {"none", "odd", "v2"}, rows : Rows]
      /\ table'.layout = "v2" /\ table'.rows = rows
  BY <1>1, <1>4 DEF IInv, TypeOK
<1>6. TypeOK'
  BY <1>1, <1>3, <1>5 DEF IInv, TypeOK
<1>7. \A k \in Keys : legacy.rows[k] # None => legacy.rows[k] = origin[k]
  BY RowsTypes DEF IInv, TablesOK
<1>8. MovedRowsSurvive'
  BY <1>1, <1>4, <1>5, <1>7 DEF IInv, TypeOK, TablesOK, MovedRowsSurvive
<1>9. ImportOK'
  BY <1>1, <1>4, <1>5 DEF ImportOK
<1>10. TablesOK'
  BY <1>1, <1>5, <1>8, <1>9 DEF IInv, TablesOK
<1>11. ASSUME NEW q \in Procs PROVE ProcOK(proc[q])'
  <2>1. SightOK(proc[q])'
    BY <1>1, <1>3 DEF IInv, TypeOK, Proc, ProcOK, SightOK, Opening
  <2>2. ASSUME ~redropped PROVE FileOK(proc[q])'
    <3>1. Used(table.rows) \subseteq Used(rows)
      BY <1>4 DEF Used
    <3>2. FileOK(proc[q])
      BY <2>2 DEF IInv, ProcOK
    <3> QED
      BY <1>1, <1>3, <1>5, <3>1, <3>2 DEF IInv, TypeOK, Proc, FileOK
  <2>3. ASSUME ~redropped PROVE StageOK(proc[q])'
    <3>1. StageOK(proc[q])
      BY <2>3 DEF IInv, ProcOK
    <3> QED
      BY <1>1, <1>3, <1>4, <1>5, <3>1 DEF IInv, TypeOK, Proc, StageOK, Kept, Importing
  <2> QED
    BY <1>1, <2>1, <2>2, <2>3 DEF ProcOK
<1> QED
  BY <1>6, <1>10, <1>11 DEF IInv

LEMMA DropLegacyIInv ==
    ASSUME IInv, NEW p \in Procs, DropLegacy(p) PROVE IInv'
<1> USE DEF At, Goto
<1> DEFINE h == [proc[p] EXCEPT !.pc = "restore"]
<1>1. h \in Proc /\ proc' = [proc EXCEPT ![p] = h]
  BY DEF IInv, TypeOK, Proc, PCs, Opening, DropLegacy
<1>2. proc' \in [Procs -> Proc] /\ proc'[p] = h /\ \A q \in Procs : q # p => proc'[q] = proc[q]
  BY <1>1 DEF IInv, TypeOK
<1>3. legacy' = Absent /\ legacy'.layout = "none" /\ legacy'.rows = NoRows
      /\ Absent \in [layout : {"none", "v1", "rc"}, rows : Rows]
  BY RowsTypes DEF DropLegacy, Absent
<1>4. TypeOK'
  BY <1>2, <1>3 DEF IInv, TypeOK, DropLegacy
\* Only a candidate's table has rows left when it is dropped.
<1>5. legacy.layout = "rc" \/ legacy.rows = NoRows
  BY DEF IInv, ProcOK, SightOK, Opening, DropLegacy
<1>6. ASSUME ~redropped, NEW k \in Keys \ touched, origin[k] # None, Kept(k)
      PROVE  table.layout = "v2" /\ table.rows[k] = origin[k]
  <2>1. legacy.layout = "rc" /\ legacy.rows[k] = origin[k]
    BY <1>5, <1>6, RowsTypes DEF Kept
  <2>2. StageOK(proc[p])
    BY <1>6 DEF IInv, ProcOK
  <2> QED
    BY <1>6, <2>1, <2>2 DEF StageOK, DropLegacy
<1>7. MovedRowsSurvive'
  BY <1>3, <1>6 DEF IInv, TypeOK, TablesOK, MovedRowsSurvive, Kept, DropLegacy
<1>8. TablesOK'
  BY <1>3, <1>7 DEF IInv, TablesOK, ImportOK, DropLegacy
<1>9. ASSUME NEW q \in Procs PROVE ProcOK(proc[q])'
  <2>1. SightOK(proc[q])'
    BY <1>2, <1>3 DEF IInv, TypeOK, Proc, ProcOK, SightOK, Opening
  <2>2. ASSUME ~redropped PROVE FileOK(proc[q])'
    BY <1>2, <2>2 DEF IInv, TypeOK, Proc, ProcOK, FileOK, DropLegacy
  <2>3. ASSUME ~redropped PROVE StageOK(proc[q])'
    <3>1. StageOK(proc[q])
      BY <2>3 DEF IInv, ProcOK
    <3>2. ASSUME proc[q].pc \in {"load", "row"}, NEW k \in Keys \ touched
          PROVE  origin[k] = None
      <4>1. legacy.layout # "rc"
        BY <3>2 DEF IInv, ProcOK, SightOK
      <4>2. origin[k] # None => Kept(k)
        BY <3>1, <3>2 DEF StageOK
      <4> QED
        BY <1>5, <4>1, <4>2, RowsTypes DEF Kept
    <3> QED
      BY <1>2, <1>3, <3>1, <3>2 DEF IInv, TypeOK, Proc, StageOK, Kept, Importing, DropLegacy
  <2> QED
    BY <2>1, <2>2, <2>3 DEF ProcOK, DropLegacy
<1> QED
  BY <1>4, <1>8, <1>9 DEF IInv

LEMMA RestoreLegacyIInv ==
    ASSUME IInv, NEW p \in Procs, RestoreLegacy(p) PROVE IInv'
<1> USE DEF At, Goto
<1> DEFINE h == [proc[p] EXCEPT !.pc = "prepare"]
<1>1. h \in Proc /\ proc' = [proc EXCEPT ![p] = h]
  BY DEF IInv, TypeOK, Proc, PCs, Opening, RestoreLegacy
<1>2. proc' \in [Procs -> Proc] /\ proc'[p] = h /\ \A q \in Procs : q # p => proc'[q] = proc[q]
  BY <1>1 DEF IInv, TypeOK
<1>3. /\ legacy' \in [layout : {"none", "v1", "rc"}, rows : Rows]
      /\ legacy'.rows = legacy.rows
      /\ legacy'.layout = IF legacy.layout = "none" THEN "v1" ELSE legacy.layout
  BY DEF IInv, TypeOK, RestoreLegacy
<1>4. TypeOK'
  BY <1>2, <1>3 DEF IInv, TypeOK, RestoreLegacy
<1>5. legacy.layout # "rc"
  BY DEF IInv, ProcOK, SightOK, RestoreLegacy
<1>6. MovedRowsSurvive'
  BY <1>3 DEF IInv, TablesOK, MovedRowsSurvive, RestoreLegacy
<1>7. ASSUME ImportOK PROVE ImportOK'
  <2>1. legacy.layout = "none" => \A k \in Keys : legacy.rows[k] = None
    BY RowsTypes DEF IInv, TablesOK
  <2>2. \A q \in Procs : proc[q].pc = "import" => proc'[q].pc = "import"
    BY <1>2 DEF RestoreLegacy
  <2> QED
    BY <1>3, <1>7, <2>1, <2>2 DEF IInv, TypeOK, ImportOK, RestoreLegacy
<1>8. TablesOK'
  BY <1>3, <1>5, <1>6, <1>7 DEF IInv, TypeOK, TablesOK, RestoreLegacy
<1>9. ASSUME NEW q \in Procs PROVE ProcOK(proc[q])'
  <2>1. SightOK(proc[q])'
    BY <1>2, <1>3, <1>5 DEF IInv, TypeOK, Proc, TablesOK, ProcOK, SightOK, Opening, RestoreLegacy
  <2>2. ASSUME ~redropped PROVE FileOK(proc[q])'
    BY <1>2, <2>2 DEF IInv, TypeOK, Proc, ProcOK, FileOK, RestoreLegacy
  <2>3. ASSUME ~redropped PROVE StageOK(proc[q])'
    <3>1. StageOK(proc[q])
      BY <2>3 DEF IInv, ProcOK
    <3> QED
      BY <1>2, <1>3, <1>5, <3>1 DEF IInv, TypeOK, Proc, StageOK, Kept, Importing, RestoreLegacy
  <2> QED
    BY <2>1, <2>2, <2>3 DEF ProcOK, RestoreLegacy
<1> QED
  BY <1>4, <1>8, <1>9 DEF IInv

-----------------------------------------------------------------------------
(* The steps that write no table, and those of a session on the table *)

LEMMA OpensIInv ==
    ASSUME IInv, NEW p \in Procs, Opens(p) PROVE IInv'
<1> USE DEF At, Goto, Return
<1>1. proc[p] \in Proc /\ ProcOK(proc[p])
  BY DEF IInv, TypeOK
<1>2. CASE Open(p)
  <2> DEFINE h == [proc[p] EXCEPT !.pc = "scoped", !.seen = legacy.layout]
  <2>1. h \in Proc /\ proc' = [proc EXCEPT ![p] = h]
    BY <1>1, <1>2 DEF IInv, TypeOK, Proc, PCs, Opening, Open
  <2>2. ProcOK(h)
    BY <1>1, <1>2 DEF IInv, TypeOK, Proc, ProcOK, SightOK, FileOK, StageOK, Opening, Importing, Open
  <2> QED
    BY <1>2, <2>1, <2>2, ProcStep DEF IInv, TypeOK, Open
<1>3. CASE ReadScoped(p)
  <2> DEFINE h == [proc[p] EXCEPT !.pc = IF table.layout = "odd" THEN "drop" ELSE "create",
                                  !.fresh = table.layout # "v2"]
  <2>1. h \in Proc /\ proc' = [proc EXCEPT ![p] = h]
    BY <1>1, <1>3 DEF IInv, TypeOK, Proc, PCs, Opening, ReadScoped
  <2>2. ProcOK(h)
    BY <1>1, <1>3 DEF IInv, TypeOK, Proc, ProcOK, SightOK, FileOK, StageOK, Opening, Importing, ReadScoped
  <2> QED
    BY <1>3, <2>1, <2>2, ProcStep DEF IInv, TypeOK, ReadScoped
<1>4. CASE Prepare(p)
  <2> DEFINE h == [Closed EXCEPT !.pc = "exists"]
  <2>1. h \in Proc /\ proc' = [proc EXCEPT ![p] = h]
    BY <1>4, ClosedIsProc DEF PCs, Importing, Prepare
  <2>2. ProcOK(h)
    BY <1>1, <1>4 DEF ProcOK, SightOK, FileOK, StageOK, Opening, Importing, Closed, Prepare
  <2> QED
    BY <1>4, <2>1, <2>2, ProcStep DEF IInv, TypeOK, Prepare
<1>5. CASE OpenFails(p)
  <2> DEFINE h == [Closed EXCEPT !.pc = "json"]
  <2>1. h \in Proc /\ proc' = [proc EXCEPT ![p] = h]
    BY <1>5, ClosedIsProc DEF PCs, OpenFails
  <2>2. ProcOK(h)
    BY DEF ProcOK, SightOK, FileOK, StageOK, Opening, Importing, Closed
  <2> QED
    BY <1>5, <2>1, <2>2, ProcStep DEF IInv, TypeOK, OpenFails
<1> QED
  BY <1>2, <1>3, <1>4, <1>5, DropIncompatibleIInv, CreateTableIInv, CopyIInv,
     DropLegacyIInv, RestoreLegacyIInv DEF Opens

\* An eviction removes rows and touches their keys.
LEMMA EnforceLruIInv ==
    ASSUME IInv, NEW p \in Procs,
           EnforceLru(p, "lru", "rename") \/ EnforceLru(p, "evict", "open")
    PROVE  IInv'
<1> USE DEF At, Goto
<1>1. PICK gone \in SUBSET Used(table.rows) :
        /\ table' = [table EXCEPT !.rows = Without(@, gone)]
        /\ touched' = touched \union gone
  BY DEF EnforceLru, Evictable
<1> DEFINE rows == Without(table.rows, gone)
<1>2. /\ proc[p].pc \in {"lru", "evict"} /\ table.layout = "v2"
      /\ UNCHANGED <<legacy, json, origin, interrupted, redropped>>
  BY DEF EnforceLru
<1>3. proc[p] \in Proc /\ ProcOK(proc[p])
  BY DEF IInv, TypeOK
<1>4. PICK h \in Proc :
        /\ h = [proc[p] EXCEPT !.pc = IF proc[p].pc = "lru" THEN "rename" ELSE "open"]
        /\ proc' = [proc EXCEPT ![p] = h]
  BY <1>3 DEF Proc, PCs, Importing, EnforceLru
<1>5. rows \in Rows /\ (\A k \in Keys : rows[k] = IF k \in gone THEN None ELSE table.rows[k])
      /\ gone \subseteq Keys
  BY RowsTypes DEF IInv, TypeOK, Used
<1>6. table' \in [layout : {"none", "odd", "v2"}, rows : Rows]
      /\ table'.layout = "v2" /\ table'.rows = rows
  BY <1>1, <1>2, <1>5 DEF IInv, TypeOK
<1>7. SightOK(h)
  BY <1>2, <1>3, <1>4 DEF Proc, ProcOK, SightOK, Opening
<1>8. ASSUME ~redropped PROVE FileOK(h)' /\ StageOK(h)'
  <2>1. touched \union Used(table.rows) \subseteq touched' \union Used(rows)
    BY <1>1, <1>5 DEF Used
  <2>2. FileOK(h)'
    BY <1>2, <1>3, <1>4, <1>6, <1>8, <2>1 DEF Proc, ProcOK, FileOK
  <2> QED
    BY <1>2, <1>3, <1>4, <1>6, <2>2 DEF Proc, StageOK
<1>9. touched \subseteq touched' /\ touched' \subseteq Keys
      /\ \A k \in Keys \ touched' : rows[k] = table.rows[k]
  BY <1>1, <1>5 DEF IInv, TypeOK
<1>10. Opened(p)
  BY <1>2 DEF Opened, Importing
<1> QED
  BY <1>1, <1>2, <1>4, <1>5, <1>7, <1>8, <1>9, <1>10, TableStep

LEMMA ImportRowIInv ==
    ASSUME IInv, NEW p \in Procs, NEW key \in Keys, ImportRow(p, key) PROVE IInv'
<1> USE DEF At
<1> DEFINE rows == [table.rows EXCEPT ![key] = proc[p].payload[key]]
<1>1. proc[p] \in Proc /\ ProcOK(proc[p])
  BY DEF IInv, TypeOK
<1>2. PICK h \in Proc :
        /\ h = [proc[p] EXCEPT !.left = @ \ {key},
                               !.pc = IF proc[p].left = {key} THEN "lru" ELSE "row"]
        /\ proc' = [proc EXCEPT ![p] = h]
  <2> DEFINE g == [proc[p] EXCEPT !.left = @ \ {key},
                                  !.pc = IF proc[p].left = {key} THEN "lru" ELSE "row"]
  <2>1. g \in Proc
    BY <1>1 DEF Proc, PCs, Importing
  <2>2. proc' = [proc EXCEPT ![p] = g]
    BY DEF IInv, TypeOK, ImportRow
  <2> QED
    BY <2>1, <2>2
<1>3. /\ proc[p].pc = "row" /\ key \in proc[p].left /\ table.layout = "v2"
      /\ table' = [table EXCEPT !.rows = rows]
      /\ UNCHANGED <<legacy, json, origin, touched, interrupted, redropped>>
  BY DEF ImportRow
<1>4. /\ rows \in Rows /\ rows[key] = proc[p].payload[key]
      /\ \A k \in Keys : k # key => rows[k] = table.rows[k]
  BY <1>1 DEF IInv, TypeOK, Proc, Rows
<1>5. table' \in [layout : {"none", "odd", "v2"}, rows : Rows]
      /\ table'.layout = "v2" /\ table'.rows = rows
  BY <1>3, <1>4 DEF IInv, TypeOK
<1>6. SightOK(h)
  BY <1>1, <1>2, <1>3 DEF Proc, ProcOK, SightOK, Opening
<1>7. ASSUME ~redropped PROVE rows[key] # None /\ (key \notin touched /\ origin[key] # None => Kept(key))
  BY <1>1, <1>3, <1>4, <1>7 DEF ProcOK, FileOK, StageOK, Used
<1>8. ASSUME ~redropped PROVE FileOK(h)' /\ StageOK(h)'
  <2>1. Used(table.rows) \union {key} \subseteq Used(rows)
    BY <1>4, <1>7, <1>8 DEF Used
  <2>2. /\ h.left = proc[p].left \ {key} /\ h.payload = proc[p].payload
        /\ h.pc \in {"row", "lru"} /\ (h.left # {} => h.pc = "row")
    BY <1>1, <1>2, <1>3 DEF Proc
  <2>3. FileOK(proc[p]) /\ StageOK(proc[p])
    BY <1>1, <1>8 DEF ProcOK
  <2>4. FileOK(h)'
    BY <1>3, <1>5, <2>1, <2>2, <2>3 DEF FileOK
  <2> QED
    BY <1>3, <1>5, <2>2, <2>3, <2>4 DEF StageOK, Kept
<1>9. ASSUME ~redropped, NEW k \in Keys \ touched
      PROVE  rows[k] = table.rows[k] \/ (rows[k] # None /\ (origin[k] # None => Kept(k)))
  BY <1>4, <1>7, <1>9
<1> QED
  BY <1>2, <1>3, <1>4, <1>6, <1>8, <1>9, TableStep DEF IInv, TypeOK, Opened, Importing

\* A function returns into a session: its locals are gone.
LEMMA ReturnIInv ==
    ASSUME IInv, NEW p \in Procs, NEW pc \in {"open", "json", "closed"},
           proc' = [proc EXCEPT ![p] = [Closed EXCEPT !.pc = pc]],
           pc = "open" => Opened(p),
           UNCHANGED <<legacy, table, origin, touched, redropped>>,
           json' \in Rows \union {None},
           interrupted' \in BOOLEAN,
           interrupted \/ At(p, "import") => interrupted'
    PROVE  IInv'
<1> DEFINE h == [Closed EXCEPT !.pc = pc]
<1>1. h \in Proc
  BY ClosedIsProc DEF PCs
<1>2. pc = "open" => legacy.layout # "rc" /\ (redropped \/ table.layout = "v2")
  BY DEF IInv, ProcOK, SightOK, StageOK, Opened, Importing
<1>3. ProcOK(h)
  BY <1>2 DEF ProcOK, SightOK, FileOK, StageOK, Opening, Importing, Closed
<1> QED
  BY <1>1, <1>3, ProcStep

LEMMA ImportsFileIInv ==
    ASSUME IInv, NEW p \in Procs, ImportsFile(p) PROVE IInv'
<1> USE DEF At, Goto, Return
<1>1. proc[p] \in Proc /\ ProcOK(proc[p])
  BY DEF IInv, TypeOK
<1>2. CASE FileExists(p)
  <2> DEFINE h == [proc[p] EXCEPT !.pc = IF json = None THEN "open" ELSE "count"]
  <2>1. h \in Proc /\ proc' = [proc EXCEPT ![p] = h]
    BY <1>1, <1>2 DEF Proc, PCs, Importing, FileExists
  <2>2. ProcOK(h)
    BY <1>1, <1>2 DEF Proc, ProcOK, SightOK, FileOK, StageOK, Opening, Importing, FileExists
  <2> QED
    BY <1>2, <2>1, <2>2, ProcStep DEF IInv, TypeOK, FileExists
<1>3. CASE CountRows(p)
  <2> DEFINE h == [proc[p] EXCEPT !.pc = IF Used(table.rows) = {} THEN "load" ELSE "open"]
  <2>1. h \in Proc /\ proc' = [proc EXCEPT ![p] = h]
    BY <1>1, <1>3 DEF Proc, PCs, Importing, CountRows
  \* Rows that are not in the empty table are where they were.
  <2>2. ASSUME ~redropped, Used(table.rows) = {}, NEW k \in Keys \ touched, origin[k] # None
        PROVE  Kept(k)
    <3>1. table.rows[k] = None
      BY <2>2 DEF Used
    <3> QED
      BY <2>2, <3>1 DEF IInv, TablesOK, MovedRowsSurvive, Kept
  <2>3. ProcOK(h)
    BY <1>1, <1>3, <2>2 DEF Proc, ProcOK, SightOK, FileOK, StageOK, Opening, Importing, CountRows
  <2> QED
    BY <1>3, <2>1, <2>3, ProcStep DEF IInv, TypeOK, CountRows
<1>4. CASE LoadFile(p)
  <2>1. PICK payload \in Stored :
          proc' = [proc EXCEPT ![p].payload = payload,
                               ![p].left = Used(payload),
                               ![p].pc = IF Used(payload) = {} THEN "open" ELSE "row"]
    BY <1>4 DEF LoadFile
  <2> DEFINE h == [proc[p] EXCEPT !.payload = payload, !.left = Used(payload),
                                  !.pc = IF Used(payload) = {} THEN "open" ELSE "row"]
  <2>2. payload \in Rows /\ Used(payload) \subseteq Keys
    BY RowsTypes DEF IInv, TypeOK, Used, Stored
  <2>3. h \in Proc
    BY <1>1, <2>2 DEF Proc, PCs, Importing
  <2>4. proc' = [proc EXCEPT ![p] = h]
    BY <2>1 DEF IInv, TypeOK
  <2>5. /\ h.payload = payload /\ h.left = Used(payload)
        /\ h.pc = IF Used(payload) = {} THEN "open" ELSE "row"
    BY <1>1 DEF Proc
  <2>6. SightOK(h)
    BY <1>1, <1>4, <2>5 DEF ProcOK, SightOK, Opening, LoadFile
  <2>7. FileOK(h)
    BY <2>5 DEF FileOK
  <2>8. redropped \/ StageOK(h)
    BY <1>1, <1>4, <2>5 DEF ProcOK, StageOK, Importing, LoadFile
  <2> QED
    BY <1>4, <2>3, <2>4, <2>6, <2>7, <2>8, ProcStep DEF IInv, TypeOK, ProcOK, LoadFile
<1>5. CASE RenameFile(p)
  BY <1>5, ReturnIInv DEF IInv, TypeOK, RenameFile, Opened, Importing
<1> QED
  BY <1>2, <1>3, <1>4, <1>5, EnforceLruIInv, ImportRowIInv DEF ImportsFile

LEMMA PutIInv ==
    ASSUME IInv, NEW p \in Procs, NEW key \in Keys, NEW v \in Values, Put(p, key, v)
    PROVE  IInv'
<1> USE DEF At, Goto
<1>1. proc[p] \in Proc /\ ProcOK(proc[p]) /\ proc[p].pc = "open"
  BY DEF IInv, TypeOK, Put
<1>2. PICK h \in Proc : h = [proc[p] EXCEPT !.pc = "evict"] /\ proc' = [proc EXCEPT ![p] = h]
  BY <1>1 DEF Proc, PCs, Put
<1> DEFINE rows == [table.rows EXCEPT ![key] = v]
<1>3. rows \in Rows /\ \A k \in Keys \ {key} : rows[k] = table.rows[k]
  BY DEF IInv, TypeOK, Rows
<1>4. table' = [table EXCEPT !.rows = rows] /\ table'.layout = "v2"
  BY DEF IInv, TypeOK, Put
<1>5. SightOK(h) /\ (redropped \/ (FileOK(h)' /\ StageOK(h)'))
  BY <1>1, <1>2, <1>4 DEF Proc, ProcOK, SightOK, FileOK, StageOK, Opening, Importing
<1>6. /\ touched \subseteq touched' /\ touched' \subseteq Keys
      /\ \A k \in Keys \ touched' : rows[k] = table.rows[k]
  BY <1>3 DEF IInv, TypeOK, Put
<1>7. /\ Opened(p) /\ table.layout = "v2"
      /\ UNCHANGED <<legacy, json, origin, interrupted, redropped>>
  BY <1>1 DEF Put, Opened
<1> QED
  BY <1>2, <1>3, <1>4, <1>5, <1>6, <1>7, TableStep

LEMMA RemoveIInv ==
    ASSUME IInv, NEW p \in Procs, NEW gone \in Removals, Remove(p, gone) PROVE IInv'
<1> USE DEF At
<1>1. proc[p] \in Proc /\ ProcOK(proc[p]) /\ proc[p].pc = "open"
  BY DEF IInv, TypeOK, Remove
<1>2. PICK h \in Proc : h = proc[p] /\ proc' = [proc EXCEPT ![p] = h]
  BY <1>1 DEF IInv, TypeOK, Remove
<1> DEFINE rows == Without(table.rows, gone)
<1>3. rows \in Rows /\ (\A k \in Keys \ gone : rows[k] = table.rows[k]) /\ gone \subseteq Keys
  BY RowsTypes DEF IInv, TypeOK, Removals
<1>4. table' = [table EXCEPT !.rows = rows] /\ table'.layout = "v2"
  BY DEF IInv, TypeOK, Remove
<1>5. SightOK(h) /\ (redropped \/ (FileOK(h)' /\ StageOK(h)'))
  BY <1>1, <1>2, <1>4 DEF Proc, ProcOK, SightOK, FileOK, StageOK, Opening, Importing
<1>6. touched \subseteq touched' /\ touched' \subseteq Keys
      /\ \A k \in Keys \ touched' : rows[k] = table.rows[k]
  BY <1>3 DEF IInv, TypeOK, Remove
<1>7. /\ Opened(p) /\ table.layout = "v2"
      /\ UNCHANGED <<legacy, json, origin, interrupted, redropped>>
  BY <1>1 DEF Remove, Opened
<1> QED
  BY <1>2, <1>3, <1>4, <1>5, <1>6, <1>7, TableStep

LEMMA JsonLoadIInv ==
    ASSUME IInv, NEW p \in Procs, NEW payload \in Rows, JsonLoad(p, payload) PROVE IInv'
<1> USE DEF At
<1>1. proc[p] \in Proc /\ ProcOK(proc[p]) /\ proc[p].pc = "json"
  BY DEF IInv, TypeOK, JsonLoad
<1> DEFINE h == [proc[p] EXCEPT !.pc = "save", !.payload = payload]
<1>2. h \in Proc /\ h.pc = "save" /\ h.left = proc[p].left /\ h.seen = proc[p].seen
  BY <1>1 DEF Proc, PCs
<1>3. proc' = [proc EXCEPT ![p] = h]
  BY DEF IInv, TypeOK, JsonLoad
<1>4. redropped \/ h.left = {}
  BY <1>1, <1>2 DEF ProcOK, FileOK
<1>5. ProcOK(h)
  BY <1>2, <1>4 DEF ProcOK, SightOK, FileOK, StageOK, Opening, Importing
<1> QED
  BY <1>1, <1>2, <1>3, <1>5, ProcStep DEF IInv, TypeOK, JsonLoad

LEMMA StoredTypes == IInv => Stored \subseteq Rows
BY RowsTypes DEF IInv, TypeOK, Stored

LEMMA JsonPutIInv ==
    ASSUME IInv, NEW p \in Procs, NEW k \in Keys, NEW v \in Values, JsonPut(p, k, v)
    PROVE  IInv'
<1>0. PICK payload \in Stored :
        \E gone \in Evictable([payload EXCEPT ![k] = v]) :
            JsonLoad(p, Without([payload EXCEPT ![k] = v], gone))
  BY DEF JsonPut
<1> DEFINE rows == [payload EXCEPT ![k] = v]
<1>1. rows \in Rows
  BY StoredTypes DEF Rows
<1>2. PICK gone \in Evictable(rows) : JsonLoad(p, Without(rows, gone))
  BY <1>0
<1> QED
  BY <1>1, <1>2, RowsTypes, JsonLoadIInv

LEMMA JsonRemoveIInv ==
    ASSUME IInv, NEW p \in Procs, NEW gone \in Removals, JsonRemove(p, gone) PROVE IInv'
BY StoredTypes, RowsTypes, JsonLoadIInv DEF JsonRemove

LEMMA OperatesIInv ==
    ASSUME IInv, NEW p \in Procs, Operates(p) PROVE IInv'
<1> USE DEF At, Goto, Return
<1>1. CASE StatementFails(p)
  <2>1. Opened(p) /\ ~At(p, "import")
    BY <1>1 DEF StatementFails, Opened, Importing
  <2>2. proc' = [proc EXCEPT ![p] = [Closed EXCEPT !.pc = "open"]]
    BY <1>1 DEF StatementFails
  <2> QED
    BY <1>1, <2>1, <2>2, ReturnIInv DEF IInv, TypeOK, StatementFails
<1>2. CASE JsonSave(p)
  BY <1>2, ReturnIInv DEF IInv, TypeOK, Proc, JsonSave
<1> QED
  BY <1>1, <1>2, PutIInv, RemoveIInv, JsonPutIInv, JsonRemoveIInv, EnforceLruIInv DEF Operates

-----------------------------------------------------------------------------
(* The invariant and what follows from it *)

LEMMA NextIInv == IInv /\ [Next]_vars => IInv'
<1> SUFFICES ASSUME IInv, [Next]_vars PROVE IInv'
  OBVIOUS
<1>1. ASSUME NEW p \in Procs, Crash(p) PROVE IInv'
  BY <1>1, ReturnIInv DEF IInv, TypeOK, At, Return, Crash
<1>2. CASE UNCHANGED vars
  <2>1. TypeOK' /\ TablesOK'
    BY <1>2 DEF IInv, vars, TypeOK, TablesOK, MovedRowsSurvive, ImportOK, At
  <2>2. \A p \in Procs : ProcOK(proc[p])'
    BY <1>2 DEF IInv, vars, ProcOK, SightOK, FileOK, StageOK, Kept
  <2> QED
    BY <2>1, <2>2 DEF IInv
<1> QED
  BY <1>1, <1>2, OpensIInv, ImportsFileIInv, OperatesIInv DEF Next

\* The invariant of the migration: while a candidate's table is there nobody
\* works on the database, and every row that is dropped has been copied.
THEOREM MigrationInvariant == Spec => []IInv
<1> QED
  BY InitIInv, NextIInv, PTL DEF Spec

\* Tables, files and processes keep their types.
THEOREM MigrationTypes == Spec => []TypeOK
<1>1. IInv => TypeOK
  BY DEF IInv
<1> QED
  BY <1>1, MigrationInvariant, PTL

\* Wherever migrations are cut off and however many run at the same time, no
\* untouched row of an earlier version is lost.
THEOREM MigrationLosesNoRow == Spec => []MovedRowsSurvive
<1>1. IInv => MovedRowsSurvive
  BY DEF IInv, TablesOK
<1> QED
  BY <1>1, MigrationInvariant, PTL

\* While a session works on the database, untouched rows of an earlier version
\* are there for it, or about to be imported, unless an import was given up.
THEOREM MigrationHidesNothing == Spec => []RacesHideNothing
<1>1. IInv => RacesHideNothing
  <2> SUFFICES ASSUME IInv, ~interrupted, ~redropped, NEW k \in Keys \ touched,
                      origin[k] # None, NEW p \in Procs, Opened(p)
               PROVE  table.rows[k] # None \/ \E q \in Procs : At(q, "import")
    BY DEF RacesHideNothing
  <2>1. legacy.layout # "rc" /\ table.layout = "v2"
    BY DEF IInv, ProcOK, SightOK, StageOK, Opened, Importing
  <2> QED
    BY <2>1 DEF IInv, TypeOK, TablesOK, MovedRowsSurvive, ImportOK
<1> QED
  BY <1>1, MigrationInvariant, PTL

\* memory.json is put aside only when what it held is in the database.
THEOREM MigrationImportsAll == Spec => []FilePutAsideComplete
<1>1. IInv => FilePutAsideComplete
  <2> SUFFICES ASSUME IInv, ~redropped, NEW p \in Procs, At(p, "rename")
               PROVE  Used(proc[p].payload) \subseteq touched \union Used(table.rows)
    BY DEF FilePutAsideComplete
  <2>1. FileOK(proc[p]) /\ proc[p].pc = "rename"
    BY DEF IInv, ProcOK, At
  <2> QED
    BY <2>1 DEF FileOK
<1> QED
  BY <1>1, MigrationInvariant, PTL

\* However often the rows of a candidate are moved, no session's work on the new
\* table is undone.
THEOREM MigrationUndoesNothing == Spec => MoveUndoesNothing
<1>1. ASSUME IInv, NEW p \in Procs, NEW q \in Procs, At(p, "move"), At(p, "dropLegacy")',
             Opens(q) \/ ImportsFile(q) \/ Operates(q) \/ Crash(q)
      PROVE  q = p /\ MoveRows(p)
  <2>1. proc \in [Procs -> Proc] /\ proc[p].pc = "move" /\ proc'[p].pc = "dropLegacy"
    BY <1>1 DEF IInv, TypeOK, At
  <2>2. q = p
    BY <1>1, <2>1
    DEF Opens, Open, ReadScoped, DropIncompatible, CreateTable, MoveRows, DropLegacy,
        ImportLegacy, RestoreLegacy, Prepare, OpenFails, ImportsFile, FileExists, CountRows,
        LoadFile, ImportRow, EnforceLru, RenameFile, Operates, Put, Remove, StatementFails,
        JsonPut, JsonRemove, JsonLoad, JsonSave, Crash, Goto, Return
  <2> QED
    BY <1>1, <2>1, <2>2
    DEF Opens, Open, ReadScoped, DropIncompatible, CreateTable, MoveRows, DropLegacy,
        ImportLegacy, RestoreLegacy, Prepare, OpenFails, ImportsFile, FileExists, CountRows,
        LoadFile, ImportRow, EnforceLru, RenameFile, Operates, Put, Remove, StatementFails,
        JsonPut, JsonRemove, JsonLoad, JsonSave, Crash, Goto, Return, At, Closed
<1>2. ASSUME IInv, NEW p \in Procs, At(p, "move"), At(p, "dropLegacy")', [Next]_vars
      PROVE  touched = {}
  <2>1. MoveRows(p)
    BY <1>1, <1>2 DEF Next, vars, At
  <2> QED
    BY <1>2, <2>1 DEF IInv, TablesOK, MoveRows
<1>3. IInv /\ [Next]_vars =>
        [\A p \in Procs :
            At(p, "move") /\ At(p, "dropLegacy")' /\ ~redropped =>
                \A k \in touched : table'.rows[k] = table.rows[k]]_vars
  BY <1>2
<1> QED
  BY <1>3, MigrationInvariant, PTL DEF Spec, MoveUndoesNothing
=============================================================================
