------------------------ MODULE CompressCacheProofs ------------------------
(* What a hit of the shared compression cache can serve, for any number of  *)
(* requests, files and contents.                                            *)
EXTENDS CompressCache, FiniteSetTheorems, TLAPS

\* A row is sound if it holds the view of the content it is stored by, belongs
\* to gate_dedup_context or lost the race between two reads.
Sound(r) == r.depth # Explicit => r.late \/ r.view = r.hash

\* A request has a hash that its file has had, and a depth of its own.
Hashed(t) ==
    task[t].pc # "idle" =>
        /\ task[t].hash \in Contents
        /\ task[t].kind = "compress" => task[t].depth # Explicit
        /\ task[t].kind # "compress" => task[t].depth = Explicit
        /\ task[t].pc \in {"lookup", "found", "reread", "missed"} => task[t].hash \in seen[t]

\* The row it has found is sound, and of its identity when it compresses.
Found(t) ==
    task[t].pc \in {"found", "reread"} =>
        /\ task[t].row \in Row
        /\ Sound(task[t].row)
        /\ task[t].kind = "compress" =>
             task[t].row.depth # Explicit /\ task[t].row.hash = task[t].hash

\* What it has read is what the file holds until an edit makes it late, and
\* what it stores has the hash of what it read unless it is late.
Read(t) ==
    task[t].kind = "compress" =>
        /\ task[t].pc = "compress" => task[t].late \/ task[t].content = file[task[t].path]
        /\ task[t].pc = "put" => task[t].late \/ task[t].content = task[t].hash

TaskOK(t) == Hashed(t) /\ Found(t) /\ Read(t)

\* The table is finite, so that its rows can be counted.
TableOK(R) == R \in SUBSET Row /\ IsFiniteSet(R) /\ \A r \in R : Sound(r)

IInv ==
    /\ TypeOK
    /\ TableOK(rows)
    /\ \A t \in Tasks : TaskOK(t)

-----------------------------------------------------------------------------

\* The chosen file exists, so an idle request is a request.
LEMMA FinishedIsTask == Finished \in Task /\ Finished.pc = "idle"
<1>1. AnyFile \in Files
  BY FilesAssumption DEF AnyFile
<1> QED
  BY <1>1 DEF Finished, Request, Task, PCs

\* A request starts with no files edited and an empty table.
LEMMA InitIInv == Init => IInv
<1> SUFFICES ASSUME Init PROVE IInv
  OBVIOUS
<1>1. TypeOK
  BY FinishedIsTask, EntriesAssumption DEF Init, TypeOK
<1>2. \A t \in Tasks : TaskOK(t)
  BY FinishedIsTask DEF Init, TaskOK, Hashed, Found, Read
<1> QED
  BY <1>1, <1>2, FS_EmptySet DEF Init, IInv, TableOK

\* A step of one request preserves the invariant when it leaves that request,
\* the table and the clock in order and the files alone.
LEMMA OneTaskStep ==
    ASSUME IInv, NEW t \in Tasks, NEW h \in Task, NEW S \in SUBSET Contents,
           task' = [task EXCEPT ![t] = h],
           seen' = [seen EXCEPT ![t] = S],
           UNCHANGED file,
           TableOK(rows'),
           now' \in 0 .. MaxClock,
           TaskOK(t)'
    PROVE  IInv'
<1>1. TypeOK'
  BY DEF IInv, TypeOK, TableOK
<1>2. ASSUME NEW u \in Tasks, u # t
      PROVE  TaskOK(u)'
  BY <1>2 DEF IInv, TypeOK, TaskOK, Hashed, Found, Read
<1>3. TableOK(rows)'
  OBVIOUS
<1> QED
  BY <1>1, <1>2, <1>3 DEF IInv

\* The case of a step that writes neither the table nor the clock.
LEMMA QuietStep ==
    ASSUME IInv, NEW t \in Tasks, NEW h \in Task,
           task' = [task EXCEPT ![t] = h],
           UNCHANGED <<file, rows, now, seen>>,
           TaskOK(t)'
    PROVE  IInv'
<1>1. seen[t] \in SUBSET Contents /\ seen' = [seen EXCEPT ![t] = seen[t]]
  BY DEF IInv, TypeOK
<1>2. TableOK(rows') /\ now' \in 0 .. MaxClock
  BY DEF IInv, TypeOK
<1> QED
  BY <1>1, <1>2, OneTaskStep

\* A request may end at any step that keeps the table in order.
LEMMA FinishStep ==
    ASSUME IInv, NEW t \in Tasks, Finish(t),
           UNCHANGED file,
           TableOK(rows'),
           now' \in 0 .. MaxClock
    PROVE  IInv'
<1>1. task' = [task EXCEPT ![t] = Finished] /\ seen' = [seen EXCEPT ![t] = {}]
  BY DEF Finish, Goto
<1>2. {} \in SUBSET Contents
  OBVIOUS
<1>3. TaskOK(t)'
  BY <1>1, FinishedIsTask DEF IInv, TypeOK, TaskOK, Hashed, Found, Read
<1> QED
  BY <1>1, <1>2, <1>3, FinishedIsTask, OneTaskStep

\* A request starts with the hash its file has.
LEMMA StartIInv ==
    ASSUME IInv, NEW t \in Tasks, NEW f \in Files,
           NEW kind \in {"compress", "check", "store"},
           NEW d \in Depths \union {Explicit},
           kind = "compress" <=> d # Explicit,
           Start(t, kind, f, d)
    PROVE  IInv'
<1>1. file[f] \in Contents
  BY DEF IInv, TypeOK
<1>2. PICK pc \in {"compress", "lookup"} :
        /\ pc = "compress" => kind = "store"
        /\ task' = [task EXCEPT ![t] = Request(pc, kind, f, d, file[f])]
  BY DEF Start, Goto
<1> DEFINE h == Request(pc, kind, f, d, file[f])
<1>3. h \in Task /\ task' = [task EXCEPT ![t] = h]
  BY <1>1, <1>2 DEF Request, Task, PCs
<1>4. seen' = [seen EXCEPT ![t] = {file[f]}] /\ UNCHANGED <<file, rows, now>>
  BY DEF Start
<1>5. task'[t] = h /\ seen'[t] = {file[f]}
  BY <1>3, <1>4 DEF IInv, TypeOK
<1>6. TaskOK(t)'
  BY <1>1, <1>2, <1>5 DEF TaskOK, Hashed, Found, Read, Request
<1>7. {file[f]} \in SUBSET Contents
  BY <1>1
<1> QED
  BY <1>3, <1>4, <1>6, <1>7, OneTaskStep DEF IInv, TypeOK

\* The lookups preserve the invariant: what they find is sound and their own.
LEMMA LookupIInv ==
    ASSUME IInv, NEW t \in Tasks,
           Lookup(t) \/ LookupLatest(t) \/ LookupFails(t)
    PROVE  IInv'
<1>1. task[t] \in Task /\ rows \in SUBSET Row /\ TaskOK(t) /\ UNCHANGED <<file, rows, now>>
  BY DEF IInv, TypeOK, Lookup, LookupLatest, LookupFails
<1>2. ASSUME NEW r \in rows,
             task[t].pc \in {"lookup", "missed"},
             task[t].kind = "compress" => r.depth = task[t].depth /\ r.hash = task[t].hash,
             Goto(t, [task[t] EXCEPT !.pc = "found", !.row = r]),
             UNCHANGED seen
      PROVE  IInv'
  <2> DEFINE h == [task[t] EXCEPT !.pc = "found", !.row = r]
  <2>1. h \in Task /\ Sound(r) /\ r \in Row
    BY <1>1 DEF Task, PCs, IInv, TableOK
  <2>2. task' = [task EXCEPT ![t] = h] /\ task'[t] = h
    BY <1>2 DEF Goto, IInv, TypeOK
  <2>3. /\ h.pc = "found" /\ h.row = r /\ h.kind = task[t].kind
        /\ h.hash = task[t].hash /\ h.depth = task[t].depth
    BY <1>1 DEF Task
  <2> HIDE DEF h
  <2>4. TaskOK(t)'
    BY <1>1, <1>2, <2>1, <2>2, <2>3 DEF TaskOK, Hashed, Found, Read
  <2> QED
    BY <1>1, <1>2, <2>1, <2>2, <2>4, QuietStep
<1>3. ASSUME NEW pc \in {"missed", "read", "stale"}, NEW r \in Row \union {None},
             task[t].pc \in {"lookup", "found", "reread", "missed", "stale"},
             pc = "missed" => task[t].pc = "lookup",
             Goto(t, [task[t] EXCEPT !.pc = pc, !.row = r]),
             UNCHANGED seen
      PROVE  IInv'
  <2> DEFINE h == [task[t] EXCEPT !.pc = pc, !.row = r]
  <2>1. h \in Task
    BY <1>1 DEF Task, PCs
  <2>2. task' = [task EXCEPT ![t] = h] /\ task'[t] = h
    BY <1>3 DEF Goto, IInv, TypeOK
  <2>3. /\ h.pc = pc /\ h.kind = task[t].kind
        /\ h.hash = task[t].hash /\ h.depth = task[t].depth
    BY <1>1 DEF Task
  <2> HIDE DEF h
  <2>4. TaskOK(t)'
    BY <1>1, <1>3, <2>2, <2>3 DEF TaskOK, Hashed, Found, Read
  <2> QED
    BY <1>1, <1>3, <2>1, <2>2, <2>4, QuietStep
<1>4. [task[t] EXCEPT !.row = task[t].row] = task[t] /\ task[t].row \in Row \union {None}
  BY <1>1 DEF Task
<1>5. ASSUME NEW pc \in PCs
      PROVE  [task[t] EXCEPT !.pc = pc, !.row = task[t].row] = [task[t] EXCEPT !.pc = pc]
  BY <1>1 DEF Task
<1>6. ASSUME Finish(t) PROVE IInv'
  BY <1>1, <1>6, FinishStep DEF IInv, TypeOK
<1>7. CASE Lookup(t)
  <2>1. CASE \E r \in rows : /\ HasIdentity(r, task[t].path, task[t].hash, task[t].depth)
                             /\ Goto(t, [task[t] EXCEPT !.pc = "found", !.row = r])
    BY <1>2, <1>7, <2>1 DEF Lookup, HasIdentity
  <2>2. CASE Goto(t, [task[t] EXCEPT !.pc = "missed"])
    BY <1>3, <1>4, <1>5, <1>7, <2>2 DEF Lookup, PCs
  <2> QED
    BY <1>7, <2>1, <2>2 DEF Lookup
<1>8. CASE LookupLatest(t)
  <2>1. CASE \E r \in rows : /\ task[t].kind = "check"
                             /\ Goto(t, [task[t] EXCEPT !.pc = "found", !.row = r])
                             /\ UNCHANGED seen
    BY <1>2, <1>8, <2>1 DEF LookupLatest
  <2>2. CASE /\ Goto(t, [task[t] EXCEPT !.pc = "stale"]) \/ Goto(t, [task[t] EXCEPT !.pc = "read"])
             /\ UNCHANGED seen
    BY <1>3, <1>4, <1>5, <1>8, <2>2 DEF LookupLatest, PCs
  <2> QED
    BY <1>6, <1>8, <2>1, <2>2 DEF LookupLatest, Latest, RowsOf
<1>9. CASE LookupFails(t)
  BY <1>3, <1>6, <1>9 DEF LookupFails
<1> QED
  BY <1>7, <1>8, <1>9

\* recordHit moves a row up and leaves the view it holds alone.
LEMMA RecordHitIInv ==
    ASSUME IInv, NEW t \in Tasks, RecordHit(t)
    PROVE  IInv'
<1>1. PICK later \in {now, now + 1} :
        /\ later <= MaxClock
        /\ now' = later
        /\ \/ Finish(t) /\ UNCHANGED rows
           \/ \E r \in rows :
                /\ rows' = (rows \ {r}) \union {[r EXCEPT !.at = later]}
                /\ Goto(t, [task[t] EXCEPT !.pc = "reread"])
                /\ UNCHANGED seen
  BY DEF RecordHit, OwnRows
<1>2. later \in 0 .. MaxClock /\ task[t].pc = "found" /\ UNCHANGED file
  BY <1>1, EntriesAssumption DEF IInv, TypeOK, RecordHit
<1>3. ASSUME NEW r \in rows
      PROVE  TableOK((rows \ {r}) \union {[r EXCEPT !.at = later]})
  <2>1. [r EXCEPT !.at = later] \in Row /\ Sound([r EXCEPT !.at = later])
    BY <1>2 DEF IInv, TableOK, Row, Sound
  <2>2. IsFiniteSet(rows \ {r})
    BY FS_Subset DEF IInv, TableOK
  <2>3. IsFiniteSet((rows \ {r}) \union {[r EXCEPT !.at = later]})
    BY <2>2, FS_AddElement
  <2> QED
    BY <2>1, <2>3 DEF IInv, TableOK
<1>4. TableOK(rows')
  BY <1>1, <1>3 DEF IInv
<1>5. CASE Finish(t)
  BY <1>1, <1>2, <1>4, <1>5, FinishStep
<1>6. CASE Goto(t, [task[t] EXCEPT !.pc = "reread"]) /\ UNCHANGED seen
  <2> DEFINE h == [task[t] EXCEPT !.pc = "reread"]
  <2>1. h \in Task /\ TaskOK(t)
    BY DEF IInv, TypeOK, Task, PCs
  <2>2. task' = [task EXCEPT ![t] = h] /\ task'[t] = h
    BY <1>6 DEF Goto, IInv, TypeOK
  <2>3. /\ h.pc = "reread" /\ h.row = task[t].row /\ h.kind = task[t].kind
        /\ h.hash = task[t].hash /\ h.depth = task[t].depth
    BY DEF IInv, TypeOK, Task
  <2> HIDE DEF h
  <2>4. TaskOK(t)'
    BY <1>2, <1>6, <2>1, <2>2, <2>3 DEF TaskOK, Hashed, Found, Read
  <2>5. seen' = [seen EXCEPT ![t] = seen[t]] /\ seen[t] \in SUBSET Contents
    BY <1>6 DEF IInv, TypeOK
  <2> QED
    BY <1>1, <1>2, <1>4, <2>1, <2>2, <2>4, <2>5, OneTaskStep
<1> QED
  BY <1>1, <1>5, <1>6

\* The steps that only take rows away preserve the invariant.
LEMMA DropStaleIInv ==
    ASSUME IInv, NEW t \in Tasks, DropStale(t)
    PROVE  IInv'
<1>1. TableOK(rows') /\ now' \in 0 .. MaxClock /\ UNCHANGED file
  <2>1. rows' \subseteq rows
    BY DEF DropStale
  <2> QED
    BY <2>1, FS_Subset DEF DropStale, IInv, TypeOK, TableOK
<1>2. CASE Finish(t)
  BY <1>1, <1>2, FinishStep
<1>3. CASE Goto(t, [task[t] EXCEPT !.pc = "read"]) /\ UNCHANGED seen
  <2> DEFINE h == [task[t] EXCEPT !.pc = "read"]
  <2>1. h \in Task /\ TaskOK(t) /\ task[t].pc = "stale"
    BY DEF IInv, TypeOK, Task, PCs, DropStale
  <2>2. task' = [task EXCEPT ![t] = h] /\ task'[t] = h
    BY <1>3 DEF Goto, IInv, TypeOK
  <2>3. h.pc = "read" /\ h.kind = task[t].kind /\ h.hash = task[t].hash /\ h.depth = task[t].depth
    BY DEF IInv, TypeOK, Task
  <2> HIDE DEF h
  <2>4. TaskOK(t)'
    BY <2>1, <2>2, <2>3 DEF TaskOK, Hashed, Found, Read
  <2>5. seen' = [seen EXCEPT ![t] = seen[t]] /\ seen[t] \in SUBSET Contents
    BY <1>3 DEF IInv, TypeOK
  <2> QED
    BY <1>1, <2>1, <2>2, <2>4, <2>5, OneTaskStep
<1> QED
  BY <1>2, <1>3 DEF DropStale

\* readFile and the second hash: what was read is what the file holds at that
\* moment, and what it is stored by too, unless an edit has come between.
LEMMA ReadIInv ==
    ASSUME IInv, NEW t \in Tasks, ReadFile(t) \/ HashForStore(t)
    PROVE  IInv'
<1>1. /\ task[t] \in Task /\ TaskOK(t)
      /\ file[task[t].path] \in Contents
      /\ UNCHANGED <<file, rows, now, seen>>
  BY DEF IInv, TypeOK, Task, ReadFile, HashForStore
<1>2. CASE ReadFile(t)
  <2> DEFINE h == [task[t] EXCEPT !.pc = "compress", !.content = file[task[t].path]]
  <2>1. h \in Task /\ task[t].pc = "read"
    BY <1>1, <1>2 DEF Task, PCs, ReadFile
  <2>2. task' = [task EXCEPT ![t] = h] /\ task'[t] = h
    BY <1>2 DEF ReadFile, Goto, IInv, TypeOK
  <2>3. /\ h.pc = "compress" /\ h.content = file[h.path] /\ h.kind = task[t].kind
        /\ h.hash = task[t].hash /\ h.depth = task[t].depth
    BY <1>1 DEF Task
  <2> HIDE DEF h
  <2>4. TaskOK(t)'
    BY <1>1, <2>1, <2>2, <2>3 DEF TaskOK, Hashed, Found, Read
  <2> QED
    BY <1>1, <2>1, <2>2, <2>4, QuietStep
<1>3. ASSUME NEW x \in Contents,
             task[t].pc = "compress",
             task[t].kind = "compress" => x = file[task[t].path],
             Goto(t, [task[t] EXCEPT !.pc = "put", !.hash = x])
      PROVE  IInv'
  <2> DEFINE h == [task[t] EXCEPT !.pc = "put", !.hash = x]
  <2>1. h \in Task
    BY <1>1, <1>3 DEF Task, PCs
  <2>2. task' = [task EXCEPT ![t] = h] /\ task'[t] = h
    BY <1>3 DEF Goto, IInv, TypeOK
  <2>3. /\ h.pc = "put" /\ h.content = task[t].content /\ h.kind = task[t].kind
        /\ h.hash = x /\ h.depth = task[t].depth /\ h.late = task[t].late
    BY <1>1 DEF Task
  <2> HIDE DEF h
  <2>4. TaskOK(t)'
    BY <1>1, <1>3, <2>2, <2>3 DEF TaskOK, Hashed, Found, Read
  <2> QED
    BY <1>1, <2>1, <2>2, <2>4, QuietStep
<1>4. CASE HashForStore(t) /\ task[t].kind = "compress"
  BY <1>1, <1>3, <1>4 DEF HashForStore
<1>5. CASE HashForStore(t) /\ task[t].kind # "compress"
  <2>1. [task[t] EXCEPT !.pc = "put", !.hash = task[t].hash] = [task[t] EXCEPT !.pc = "put"]
    BY <1>1 DEF Task
  <2>2. task[t].pc = "compress" /\ task[t].hash \in Contents
    BY <1>1, <1>5 DEF HashForStore, TaskOK, Hashed
  <2> QED
    BY <1>3, <1>5, <2>1, <2>2 DEF HashForStore
<1> QED
  BY <1>2, <1>4, <1>5

\* The row that putEntry writes is sound.
LEMMA PutEntryIInv ==
    ASSUME IInv, NEW t \in Tasks, PutEntry(t)
    PROVE  IInv'
<1> DEFINE h == [task[t] EXCEPT !.pc = "count"]
           new(at) == [path |-> task[t].path, hash |-> task[t].hash, depth |-> task[t].depth,
                       view |-> task[t].content, late |-> task[t].late, at |-> at]
<1>1. task[t] \in Task /\ TaskOK(t) /\ task[t].pc = "put" /\ UNCHANGED <<file, seen>>
  BY DEF IInv, TypeOK, PutEntry
<1>2. PICK later \in {now, now + 1} :
        /\ later <= MaxClock
        /\ now' = later
        /\ rows' = {r \in rows : ~HasIdentity(r, task[t].path, task[t].hash, task[t].depth)}
                      \union {new(later)}
  BY DEF PutEntry
<1>3. later \in 0 .. MaxClock
  BY <1>2, EntriesAssumption DEF IInv, TypeOK
<1>4. new(later) \in Row
  BY <1>1, <1>3 DEF Row, Task, TaskOK, Hashed
<1>5. Sound(new(later))
  <2>1. task[t].kind = "compress" => task[t].late \/ task[t].content = task[t].hash
    BY <1>1 DEF TaskOK, Read
  <2>2. task[t].kind # "compress" => task[t].depth = Explicit
    BY <1>1 DEF TaskOK, Hashed
  <2> QED
    BY <2>1, <2>2 DEF Sound
<1> HIDE DEF new
<1>6. TableOK(rows')
  <2> DEFINE kept == {r \in rows : ~HasIdentity(r, task[t].path, task[t].hash, task[t].depth)}
  <2>1. kept \in SUBSET rows /\ rows' = kept \union {new(later)}
    BY <1>2
  <2> HIDE DEF kept
  <2>2. IsFiniteSet(kept)
    BY <2>1, FS_Subset DEF IInv, TableOK
  <2>3. IsFiniteSet(rows')
    BY <2>1, <2>2, FS_AddElement
  <2> QED
    BY <1>4, <1>5, <2>1, <2>3 DEF IInv, TableOK
<1>7. h \in Task /\ h.pc = "count" /\ h.kind = task[t].kind /\ h.hash = task[t].hash
        /\ h.depth = task[t].depth
  BY <1>1 DEF Task, PCs
<1>8. task' = [task EXCEPT ![t] = h] /\ task'[t] = h
  BY DEF PutEntry, Goto, IInv, TypeOK
<1> HIDE DEF h
<1>9. TaskOK(t)'
  BY <1>1, <1>7, <1>8 DEF TaskOK, Hashed, Found, Read
<1>10. seen' = [seen EXCEPT ![t] = seen[t]] /\ seen[t] \in SUBSET Contents
  BY <1>1 DEF IInv, TypeOK
<1> QED
  BY <1>1, <1>2, <1>3, <1>6, <1>7, <1>8, <1>9, <1>10, OneTaskStep

\* The count of a finite table is a number.
LEMMA CountRowsIInv ==
    ASSUME IInv, NEW t \in Tasks, CountRows(t)
    PROVE  IInv'
<1> DEFINE excess == IF Cardinality(rows) > MaxEntries THEN Cardinality(rows) - MaxEntries ELSE 0
           h == [task[t] EXCEPT !.pc = "evict", !.excess = excess]
<1>1. task[t] \in Task /\ TaskOK(t) /\ task[t].pc = "count" /\ UNCHANGED <<file, rows, now, seen>>
  BY DEF IInv, TypeOK, CountRows
<1>2. excess \in Nat
  BY FS_CardinalityType, EntriesAssumption DEF IInv, TableOK
<1>3. task' = [task EXCEPT ![t] = h] /\ task'[t] = h
  BY DEF CountRows, Goto, IInv, TypeOK
<1> HIDE DEF excess
<1>4. /\ h \in Task /\ h.pc = "evict" /\ h.kind = task[t].kind
      /\ h.hash = task[t].hash /\ h.depth = task[t].depth
  BY <1>1, <1>2 DEF Task, PCs
<1> HIDE DEF h
<1>5. TaskOK(t)'
  BY <1>1, <1>3, <1>4 DEF TaskOK, Hashed, Found, Read
<1> QED
  BY <1>1, <1>3, <1>4, <1>5, QuietStep

\* An edit makes every request late that has read the file and not hashed it
\* again, and adds the new content to what their files have had.
LEMMA EditIInv ==
    ASSUME IInv, NEW f \in Files, NEW c \in Contents, Edit(f, c)
    PROVE  IInv'
<1> DEFINE Caught(t) == task[t].path = f /\ task[t].pc = "compress" /\ task[t].kind = "compress"
<1>1. /\ file' = [file EXCEPT ![f] = c]
      /\ task' = [t \in Tasks |-> IF Caught(t) THEN [task[t] EXCEPT !.late = TRUE] ELSE task[t]]
      /\ seen' = [t \in Tasks |-> IF task[t].path = f /\ task[t].pc # "idle"
                                   THEN seen[t] \union {c} ELSE seen[t]]
      /\ UNCHANGED <<rows, now>>
  BY DEF Edit
<1>2. ASSUME NEW t \in Tasks
      PROVE  task'[t] \in Task /\ TaskOK(t)'
  <2>1. task[t] \in Task /\ TaskOK(t)
    BY DEF IInv, TypeOK
  <2>2. seen[t] \subseteq seen'[t]
    BY <1>1
  <2>3. CASE Caught(t)
    <3>1. task'[t] = [task[t] EXCEPT !.late = TRUE]
      BY <1>1, <2>3
    <3>2. /\ task'[t] \in Task
          /\ task'[t].late
          /\ task'[t].pc = "compress"
          /\ task'[t].kind = "compress"
          /\ task'[t].hash = task[t].hash
          /\ task'[t].depth = task[t].depth
      BY <2>1, <2>3, <3>1 DEF Task
    <3> QED
      BY <2>1, <2>3, <3>2 DEF TaskOK, Hashed, Found, Read
  <2>4. CASE ~Caught(t)
    <3>1. task'[t] = task[t]
      BY <1>1, <2>4
    <3>2. task[t].pc = "compress" /\ task[t].kind = "compress"
            => file'[task[t].path] = file[task[t].path]
      BY <1>1, <2>4 DEF IInv, TypeOK
    <3>3. Hashed(t)'
      BY <2>1, <2>2, <3>1 DEF TaskOK, Hashed
    <3>4. Found(t)'
      BY <2>1, <3>1 DEF TaskOK, Found
    <3>5. Read(t)'
      BY <2>1, <3>1, <3>2 DEF TaskOK, Read
    <3> QED
      BY <2>1, <3>1, <3>3, <3>4, <3>5 DEF TaskOK
  <2> QED
    BY <2>3, <2>4
<1>3. file' \in [Files -> Contents]
  BY <1>1 DEF IInv, TypeOK
<1>4. seen' \in [Tasks -> SUBSET Contents]
  BY <1>1 DEF IInv, TypeOK
<1>5. task' \in [Tasks -> Task]
  BY <1>1, <1>2
<1>6. TypeOK' /\ TableOK(rows)'
  BY <1>1, <1>3, <1>4, <1>5 DEF IInv, TypeOK
<1> QED
  BY <1>2, <1>6 DEF IInv

\* The inductive invariant of the shared cache.
THEOREM CacheInvariant == Spec => []IInv
<1>1. Init => IInv
  BY InitIInv
<1>2. IInv /\ [Next]_vars => IInv'
  <2> SUFFICES ASSUME IInv, [Next]_vars PROVE IInv'
    OBVIOUS
  <2>1. ASSUME NEW t \in Tasks, NEW f \in Files, NEW d \in Depths, Start(t, "compress", f, d)
        PROVE  IInv'
    BY <2>1, StartIInv, ExplicitAssumption
  <2>2. ASSUME NEW t \in Tasks, NEW f \in Files, NEW kind \in {"check", "store"},
               Start(t, kind, f, Explicit)
        PROVE  IInv'
    <3>1. kind \in {"compress", "check", "store"} /\ kind # "compress"
            /\ Explicit \in Depths \union {Explicit}
      OBVIOUS
    <3> QED
      BY <2>2, <3>1, StartIInv
  <2>3. ASSUME NEW t \in Tasks, Lookup(t) \/ LookupLatest(t) \/ LookupFails(t)
        PROVE  IInv'
    BY <2>3, LookupIInv
  <2>4. ASSUME NEW t \in Tasks, RecordHit(t) PROVE IInv'
    BY <2>4, RecordHitIInv
  <2>4a. ASSUME NEW t \in Tasks, Reread(t) PROVE IInv'
    BY <2>4a, FinishStep DEF Reread, IInv, TypeOK
  <2>5. ASSUME NEW t \in Tasks, DropStale(t) PROVE IInv'
    BY <2>5, DropStaleIInv
  <2>6. ASSUME NEW t \in Tasks, ReadFile(t) \/ HashForStore(t) PROVE IInv'
    BY <2>6, ReadIInv
  <2>7. ASSUME NEW t \in Tasks, PutEntry(t) PROVE IInv'
    BY <2>7, PutEntryIInv
  <2>8. ASSUME NEW t \in Tasks, SkipStore(t) \/ EnforceLru(t) \/ StoreFails(t)
        PROVE  IInv'
    <3>1. /\ Finish(t)
          /\ UNCHANGED <<file, now>>
          /\ rows' \subseteq rows
      BY <2>8 DEF SkipStore, EnforceLru, StoreFails
    <3>2. TableOK(rows')
      BY <3>1, FS_Subset DEF IInv, TableOK
    <3> QED
      BY <3>1, <3>2, FinishStep DEF IInv, TypeOK
  <2>9. ASSUME NEW F \in SUBSET Files, Clear(F) PROVE IInv'
    <3>1. rows' \subseteq rows /\ UNCHANGED <<file, now, task, seen>>
      BY <2>9 DEF Clear
    <3>2. TableOK(rows')
      BY <3>1, FS_Subset DEF IInv, TableOK
    <3> QED
      BY <3>1, <3>2 DEF IInv, TypeOK, TableOK, TaskOK, Hashed, Found, Read
  <2>10. ASSUME NEW t \in Tasks, CountRows(t) PROVE IInv'
    BY <2>10, CountRowsIInv
  <2>11. ASSUME NEW f \in Files, NEW c \in Contents, Edit(f, c) PROVE IInv'
    BY <2>11, EditIInv
  <2>12. CASE UNCHANGED vars
    BY <2>12 DEF vars, IInv, TypeOK, TaskOK, Hashed, Found, Read
  <2> QED
    BY <2>1, <2>2, <2>3, <2>4, <2>4a, <2>5, <2>6, <2>7, <2>8, <2>9, <2>10, <2>11, <2>12
    DEF Next, TaskStep
<1> QED
  BY <1>1, <1>2, PTL DEF Spec

\* The requests and the table are well typed.
THEOREM CacheTypes == Spec => []TypeOK
<1>1. IInv => TypeOK
  BY DEF IInv
<1> QED
  BY <1>1, CacheInvariant, PTL

\* A row of gate_compress_file holds the view of its hash unless an edit fell
\* between the reads of the request that stored it.
THEOREM CacheStaleOnlyFromRace == Spec => []StaleOnlyFromRace
<1>1. IInv => StaleOnlyFromRace
  BY DEF IInv, TableOK, Sound, StaleOnlyFromRace
<1> QED
  BY <1>1, CacheInvariant, PTL

\* A hit of gate_compress_file serves the view of a content its file has had
\* during the request, unless the row it found lost that race.
THEOREM CacheHitIsCurrent == Spec => []HitIsCurrentUnlessRaced
<1>1. IInv => HitIsCurrentUnlessRaced
  <2> SUFFICES ASSUME IInv, NEW t \in Tasks, NEW r \in Serving(t)
               PROVE  r.view \in seen[t] \/ r.late
    BY DEF HitIsCurrentUnlessRaced
  <2>1. Hashed(t) /\ Found(t) /\ TableOK(rows)
    BY DEF IInv, TaskOK
  <2>2. /\ task[t].kind = "compress"
        /\ task[t].pc \in {"found", "reread"}
        /\ r = task[t].row \/ r \in OwnRows(t)
    BY DEF Serving
  <2>3. r.hash = task[t].hash /\ r.depth # Explicit /\ Sound(r)
    BY <2>1, <2>2 DEF Found, TableOK, OwnRows, HasIdentity
  <2> QED
    BY <2>1, <2>2, <2>3 DEF Hashed, Sound
<1> QED
  BY <1>1, CacheInvariant, PTL
=============================================================================
