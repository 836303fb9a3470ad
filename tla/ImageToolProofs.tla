--------------------------- MODULE ImageToolProofs ---------------------------
(* What handlers of gate_optimize_image may rely on, for any number of them. *)
EXTENDS ImageTool, TLAPS

\* A handler uses its file only from the end of its own write on, and reads
\* and returns its own picture unless it has clashed.
PictureOK(h) ==
    /\ h.pc \in {"metadata", "resize", "writing"} => h.file = "original" /\ h.got = None
    /\ ~h.clashed =>
        /\ h.file = "temp" => temp[NameOf[h.image]] = Resized(h)
        /\ h.got \in {None, Unresized(h), Resized(h)}

\* Whoever uses a file that another handler is writing has clashed.
WritersClash ==
    \A t, u \in Tasks : task[u].pc = "writing" /\ Touched(u, t) => task[t].clashed

FilesOK == (\A t \in Tasks : PictureOK(task[t])) /\ WritersClash

\* A worker that is being created has one handler waiting for it, its creator;
\* while the server runs, none is ready before one is shared.
WorkersOK ==
    /\ tesseractWorker # None => worker[tesseractWorker] \in {"ready", "gone"}
    /\ \A t \in Tasks :
        task[t].pc = "creating" =>
            worker[task[t].worker] = "creating" /\ creator[task[t].worker] = t
    /\ \A w \in Workers :
        worker[w] = "creating" =>
            /\ creator[w] \in Tasks
            /\ task[creator[w]].pc = "creating"
            /\ task[creator[w]].worker = w
    /\ phase = "running" /\ tesseractWorker = None => \A w \in Workers : worker[w] # "ready"
    /\ OneWorkerPerHandler

IInv == TypeOK /\ FilesOK /\ WorkersOK

-----------------------------------------------------------------------------

\* An idle handler is a handler in order.
LEMMA IdleIsTask ==
    /\ Idle \in Task
    /\ Idle.pc = "idle" /\ Idle.worker = None /\ Idle.file = "original"
    /\ PictureOK(Idle)
<1>1. (CHOOSE i \in Images : TRUE) \in Images
  BY ImagesAssumption
<1>2. Idle \in Task
  BY <1>1 DEF Idle, Task, PCs
<1> QED
  BY <1>2 DEF Idle, PictureOK

\* The pictures a stage makes are pictures.
LEMMA Pictures ==
    ASSUME NEW h \in Task
    PROVE  Resized(h) \in Picture /\ Unresized(h) \in Picture
BY DEF Resized, Unresized, WidthOf, Picture, Task, QuickWidth, TextWidth, Original

\* The initial state is in order.
LEMMA InitIInv == Init => IInv
<1> SUFFICES ASSUME Init PROVE IInv
  OBVIOUS
<1>1. TypeOK
  BY IdleIsTask DEF Init, TypeOK, Waiting
<1>2. FilesOK
  BY IdleIsTask DEF Init, FilesOK, WritersClash
<1>3. WorkersOK
  BY IdleIsTask DEF Init, WorkersOK, OneWorkerPerHandler, Alive
<1> QED
  BY <1>1, <1>2, <1>3 DEF IInv

\* A step of one handler that writes no file keeps the files in order: the
\* handler goes on using the file it has used, or uses none.
LEMMA FilesKept ==
    ASSUME IInv, NEW t \in Tasks, NEW h \in Task,
           task' = [task EXCEPT ![t] = h],
           UNCHANGED temp,
           PictureOK(h),
           h.pc # "writing",
           h.file = "temp" =>
               task[t].file = "temp" /\ h.image = task[t].image /\ h.clashed = task[t].clashed
    PROVE  FilesOK'
<1>1. task'[t] = h /\ \A u \in Tasks : u # t => task'[u] = task[u]
  BY DEF IInv, TypeOK
<1>2. \A u \in Tasks : PictureOK(task[u])'
  BY <1>1 DEF IInv, FilesOK, PictureOK
<1>3. WritersClash'
  <2> SUFFICES ASSUME NEW v \in Tasks, NEW u \in Tasks,
                      task'[u].pc = "writing", Touched(u, v)'
               PROVE  task'[v].clashed
    BY DEF WritersClash
  <2>1. u # t /\ task'[u] = task[u] /\ v # u
    BY <1>1 DEF Touched
  <2>2. CASE v = t
    <3>1. h.file = "temp" /\ NameOf[h.image] = NameOf[task[u].image]
      BY <1>1, <2>1, <2>2 DEF Touched, Uses, SameFile
    <3>2. Touched(u, t)
      BY <2>1, <2>2, <3>1 DEF Touched, Uses, SameFile
    <3>3. task[t].clashed
      BY <2>1, <3>2 DEF IInv, FilesOK, WritersClash
    <3> QED
      BY <1>1, <2>2, <3>1, <3>3
  <2>3. CASE v # t
    <3>1. task'[v] = task[v]
      BY <1>1, <2>3
    <3>2. Touched(u, v)
      BY <2>1, <3>1 DEF Touched, Uses, SameFile
    <3> QED
      BY <2>1, <3>1, <3>2 DEF IInv, FilesOK, WritersClash
  <2> QED
    BY <2>2, <2>3
<1> QED
  BY <1>2, <1>3 DEF FilesOK

\* A step of one handler that neither starts nor ends a creation keeps the
\* workers in order.
LEMMA WorkersKept ==
    ASSUME IInv, NEW t \in Tasks, NEW h \in Task,
           task' = [task EXCEPT ![t] = h],
           UNCHANGED <<phase, tesseractWorker, worker, creator>>,
           task[t].pc # "creating", h.pc # "creating"
    PROVE  WorkersOK'
BY DEF IInv, TypeOK, WorkersOK, OneWorkerPerHandler, Alive

\* A step of one handler that touches neither files nor workers.
LEMMA HandlerStep ==
    ASSUME IInv, NEW t \in Tasks, NEW h \in Task,
           task' = [task EXCEPT ![t] = h],
           UNCHANGED <<phase, temp, tesseractWorker, worker, creator>>,
           task[t].pc # "creating",
           h.pc \notin {"creating", "writing"},
           h.worker # None <=> h.pc \in Waiting,
           PictureOK(h),
           h.file = "temp" =>
               task[t].file = "temp" /\ h.image = task[t].image /\ h.clashed = task[t].clashed
    PROVE  IInv'
<1>1. TypeOK'
  BY DEF IInv, TypeOK
<1>2. FilesOK'
  BY FilesKept
<1>3. WorkersOK'
  BY WorkersKept
<1> QED
  BY <1>1, <1>2, <1>3 DEF IInv

\* What a handler that goes on has in common with what it was.
SameUse(g, h) ==
    /\ g.file = h.file /\ g.image = h.image /\ g.mode = h.mode
    /\ g.clashed = h.clashed /\ g.got = h.got

\* A stage that fails leaves a handler that replies or is idle.
LEMMA FailedIsTask ==
    ASSUME NEW h \in Task
    PROVE  /\ Failed(h) \in Task
           /\ Failed(h).pc \in {"recognised", "idle"}
           /\ Failed(h).worker = None
           /\ Failed(h) = Idle \/ SameUse(Failed(h), h)
BY IdleIsTask DEF Failed, SameUse, Task, PCs

\* A handler in order that goes on is in order, past its resize.
LEMMA SameUseOK ==
    ASSUME NEW g \in Task, NEW h \in Task, PictureOK(h), SameUse(g, h),
           g.pc \notin {"metadata", "resize", "writing"}
    PROVE  PictureOK(g)
BY DEF PictureOK, SameUse, Resized, Unresized

\* getOcrWorker hands out the shared worker or starts one, the handler's only
\* one, or the stage has failed.
LEMMA OcrWorker ==
    ASSUME IInv, NEW t \in Tasks, NEW h \in Task,
           task[t].pc \in {"resize", "writing"}, h.worker = None,
           getOcrWorker(t, h), UNCHANGED <<phase, tesseractWorker>>
    PROVE  /\ worker' \in [Workers -> {"unborn", "creating", "ready", "gone"}]
           /\ creator' \in [Workers -> Tasks \union {None}]
           /\ WorkersOK'
           /\ \E g \in Task :
                /\ task' = [task EXCEPT ![t] = g]
                /\ g.worker # None <=> g.pc \in Waiting
                /\ g.pc \notin {"metadata", "resize", "writing"}
                /\ g = Idle \/ SameUse(g, h)
<1>0. /\ worker \in [Workers -> {"unborn", "creating", "ready", "gone"}]
      /\ creator \in [Workers -> Tasks \union {None}]
      /\ task \in [Tasks -> Task]
      /\ tesseractWorker \in Workers \union {None}
      /\ WorkersOK
  BY DEF IInv, TypeOK
<1>1. CASE /\ tesseractWorker # None
           /\ Goto(t, [h EXCEPT !.pc = "recognise", !.worker = tesseractWorker])
           /\ UNCHANGED <<worker, creator>>
  <2> DEFINE g == [h EXCEPT !.pc = "recognise", !.worker = tesseractWorker]
  <2>1. g \in Task /\ g.pc = "recognise" /\ g.worker # None /\ SameUse(g, h)
    BY <1>0, <1>1 DEF Task, PCs, SameUse
  <2>2. task' = [task EXCEPT ![t] = g]
    BY <1>1 DEF Goto
  <2> HIDE DEF g
  <2>3. WorkersOK'
    BY <1>1, <2>1, <2>2, WorkersKept
  <2> QED
    BY <1>0, <1>1, <2>1, <2>2, <2>3 DEF Waiting
<1>2. ASSUME tesseractWorker = None, NEW w \in Workers,
             worker[w] = "unborn",
             worker' = [worker EXCEPT ![w] = "creating"],
             creator' = [creator EXCEPT ![w] = t],
             Goto(t, [h EXCEPT !.pc = "creating", !.worker = w])
      PROVE  /\ worker' \in [Workers -> {"unborn", "creating", "ready", "gone"}]
             /\ creator' \in [Workers -> Tasks \union {None}]
             /\ WorkersOK'
             /\ \E g \in Task :
                  /\ task' = [task EXCEPT ![t] = g]
                  /\ g.worker # None <=> g.pc \in Waiting
                  /\ g.pc \notin {"metadata", "resize", "writing"}
                  /\ g = Idle \/ SameUse(g, h)
  <2> DEFINE g == [h EXCEPT !.pc = "creating", !.worker = w]
  <2>1. g \in Task /\ g.pc = "creating" /\ g.worker = w /\ SameUse(g, h)
    BY DEF Task, PCs, SameUse
  <2>2. task' = [task EXCEPT ![t] = g] /\ task'[t] = g
        /\ \A u \in Tasks : u # t => task'[u] = task[u]
    BY <1>0, <1>2 DEF Goto
  <2> HIDE DEF g
  <2>3. /\ worker'[w] = "creating" /\ creator'[w] = t
        /\ \A v \in Workers : v # w => worker'[v] = worker[v] /\ creator'[v] = creator[v]
    BY <1>0, <1>2
  <2>4. \A v \in Workers : worker[v] = "creating" => creator[v] # t
    BY <1>0 DEF WorkersOK
  <2>5. OneWorkerPerHandler'
    BY <1>0, <1>2, <2>3, <2>4 DEF WorkersOK, OneWorkerPerHandler, Alive
  <2>6. \A u \in Tasks :
          task'[u].pc = "creating" =>
              worker'[task'[u].worker] = "creating" /\ creator'[task'[u].worker] = u
    <3> SUFFICES ASSUME NEW u \in Tasks, u # t, task[u].pc = "creating"
                 PROVE  worker'[task[u].worker] = "creating" /\ creator'[task[u].worker] = u
      BY <2>1, <2>2, <2>3
    <3>1. task[u].worker \in Workers
      BY <1>0 DEF IInv, TypeOK, Task, Waiting
    <3> QED
      BY <1>0, <1>2, <2>3, <3>1 DEF WorkersOK
  <2>7. \A v \in Workers :
          worker'[v] = "creating" =>
              /\ creator'[v] \in Tasks
              /\ task'[creator'[v]].pc = "creating"
              /\ task'[creator'[v]].worker = v
    BY <1>0, <2>1, <2>2, <2>3, <2>4 DEF WorkersOK
  <2>8. WorkersOK'
    BY <1>0, <1>2, <2>3, <2>5, <2>6, <2>7 DEF WorkersOK
  <2> QED
    BY <1>0, <1>2, <2>1, <2>2, <2>8, NoneAssumption DEF Waiting
<1>3. CASE Goto(t, Failed(h)) /\ UNCHANGED <<worker, creator>>
  <2>1. /\ Failed(h) \in Task
        /\ Failed(h).pc \in {"recognised", "idle"}
        /\ Failed(h).worker = None
        /\ Failed(h) = Idle \/ SameUse(Failed(h), h)
    BY FailedIsTask
  <2>2. task' = [task EXCEPT ![t] = Failed(h)]
    BY <1>3 DEF Goto
  <2>3. WorkersOK'
    BY <1>3, <2>1, <2>2, WorkersKept
  <2> QED
    BY <1>0, <1>3, <2>1, <2>2, <2>3 DEF Waiting
<1> QED
  BY <1>1, <1>2, <1>3 DEF getOcrWorker

-----------------------------------------------------------------------------
(* The steps *)

\* The steps of a handler that touch neither its file nor a worker.
LEMMA QuietIInv ==
    ASSUME IInv, NEW t \in Tasks,
           \/ \E i \in Images, intent \in {"auto", "text", "visual"} : Start(t, i, intent)
           \/ Metadata(t) \/ Recognise(t) \/ RecogniseFails(t) \/ Recognised(t)
    PROVE  IInv'
<1>1. /\ task[t] \in Task /\ PictureOK(task[t])
      /\ task[t].worker # None <=> task[t].pc \in Waiting
  BY DEF IInv, TypeOK, FilesOK
<1>2. ASSUME NEW h \in Task,
             Goto(t, h),
             UNCHANGED <<phase, temp, tesseractWorker, worker, creator>>,
             task[t].pc # "creating",
             h.pc \notin {"creating", "writing"},
             h.worker = None, h.pc \notin Waiting,
             h.file = "original", h.got = None
      PROVE  IInv'
  <2>1. PictureOK(h)
    BY <1>2 DEF PictureOK
  <2> QED
    BY <1>2, <2>1, HandlerStep DEF Goto
<1>3. CASE \E i \in Images, intent \in {"auto", "text", "visual"} : Start(t, i, intent)
  <2>1. PICK i \in Images, intent \in {"auto", "text", "visual"} : Start(t, i, intent)
    BY <1>3
  <2> DEFINE h == [Idle EXCEPT !.pc = "metadata", !.image = i, !.mode = intent]
  <2>2. h \in Task /\ h.pc = "metadata" /\ h.worker = None /\ h.file = "original" /\ h.got = None
    BY IdleIsTask DEF Idle, Task, PCs
  <2>3. Goto(t, h) /\ task[t].pc = "idle"
        /\ UNCHANGED <<phase, temp, tesseractWorker, worker, creator>>
    BY <2>1 DEF Start, At
  <2> QED
    BY <1>2, <2>2, <2>3 DEF Waiting
<1>4. Idle \in Task /\ Idle.pc = "idle" /\ Idle.worker = None /\ Idle.file = "original"
      /\ Idle.got = None
  BY IdleIsTask DEF Idle
<1>5. ASSUME NEW mode \in {"auto", "text", "visual"}, task[t].worker = None
      PROVE  LET h == Stage(task[t], mode)
             IN  h \in Task /\ h.pc = "resize" /\ h.worker = None /\ h.file = "original"
                 /\ h.got = None
  BY <1>1, <1>5 DEF Stage, Task, PCs
<1>6. CASE Metadata(t)
  <2>1. task[t].pc = "metadata" /\ task[t].worker = None
        /\ task[t].mode \in {"auto", "text", "visual"}
        /\ UNCHANGED <<phase, temp, tesseractWorker, worker, creator>>
    BY <1>1, <1>6 DEF Metadata, At, Waiting, Task
  <2> QED
    BY <1>2, <1>4, <1>5, <1>6, <2>1 DEF Metadata, Waiting
<1>7. CASE Recognised(t)
  <2>1. task[t].pc = "recognised" /\ task[t].worker = None
        /\ UNCHANGED <<phase, temp, tesseractWorker, worker, creator>>
    BY <1>1, <1>7 DEF Recognised, At, Waiting
  <2>2. CASE Goto(t, Idle)
    BY <1>2, <1>4, <2>1, <2>2 DEF Waiting
  <2>3. CASE \E mode \in {"text", "visual"} : Goto(t, Stage(task[t], mode))
    BY <1>2, <1>5, <2>1, <2>3 DEF Waiting
  <2> QED
    BY <1>7, <2>2, <2>3 DEF Recognised
<1>8. CASE Recognise(t)
  <2> DEFINE picture == IF task[t].file = "original" THEN Unresized(task[t])
                        ELSE temp[NameOf[task[t].image]]
             h == [task[t] EXCEPT !.pc = "recognised", !.worker = None, !.got = picture]
  <2>1. picture \in Picture \union {Torn, None}
    BY <1>1, Pictures, NameAssumption DEF IInv, TypeOK, Task
  <2>2. ~task[t].clashed => picture \in {Unresized(task[t]), Resized(task[t])}
    BY <1>1 DEF PictureOK, Task
  <2> HIDE DEF picture
  <2>3. /\ h \in Task /\ h.pc = "recognised" /\ h.worker = None /\ h.got = picture
        /\ h.file = task[t].file /\ h.image = task[t].image /\ h.mode = task[t].mode
        /\ h.clashed = task[t].clashed
    BY <1>1, <2>1 DEF Task, PCs
  <2>4. task' = [task EXCEPT ![t] = h] /\ task[t].pc = "recognise"
        /\ UNCHANGED <<phase, temp, tesseractWorker, worker, creator>>
    BY <1>8 DEF Recognise, At, Goto, picture
  <2> HIDE DEF h
  <2>5. PictureOK(h)
    BY <1>1, <2>2, <2>3 DEF PictureOK, Resized, Unresized
  <2> QED
    BY <2>3, <2>4, <2>5, HandlerStep DEF Waiting
<1>9. CASE RecogniseFails(t)
  <2> DEFINE h == Failed(task[t])
  <2>1. h \in Task /\ h.pc \in {"recognised", "idle"} /\ h.worker = None
        /\ (h = Idle \/ SameUse(h, task[t]))
    BY <1>1, FailedIsTask
  <2>2. task' = [task EXCEPT ![t] = h] /\ task[t].pc = "recognise"
        /\ UNCHANGED <<phase, temp, tesseractWorker, worker, creator>>
    BY <1>9 DEF RecogniseFails, At, Goto
  <2> HIDE DEF h
  <2>3. PictureOK(h)
    BY <1>1, <2>1, IdleIsTask, SameUseOK
  <2>4. h.file = "temp" =>
            task[t].file = "temp" /\ h.image = task[t].image /\ h.clashed = task[t].clashed
    BY <2>1, IdleIsTask DEF SameUse
  <2> QED
    BY <2>1, <2>2, <2>3, <2>4, HandlerStep DEF Waiting
<1> QED
  BY <1>3, <1>6, <1>7, <1>8, <1>9

\* A writer marks those that use a file of the name, itself included.
LEMMA BeginWriteIInv ==
    ASSUME IInv, NEW t \in Tasks, BeginWrite(t)
    PROVE  IInv'
<1> DEFINE clash == \E v \in Tasks : Touched(t, v)
           h == [task[t] EXCEPT !.pc = "writing", !.clashed = clash]
<1>1. /\ task[t] \in Task /\ PictureOK(task[t]) /\ task[t].pc = "resize"
      /\ task[t].worker = None /\ task[t].file = "original" /\ task[t].got = None
  BY DEF IInv, TypeOK, FilesOK, BeginWrite, At, PictureOK, Waiting
<1>2. clash \in BOOLEAN
  OBVIOUS
<1>3. /\ h \in Task /\ h.pc = "writing" /\ h.clashed = clash /\ h.file = "original"
      /\ h.got = None /\ h.image = task[t].image /\ h.worker = None
  BY <1>1, <1>2 DEF Task, PCs
<1>4. task'[t] = h /\ \A u \in Tasks : u # t =>
        task'[u] = IF Touched(t, u) THEN [task[u] EXCEPT !.clashed = TRUE] ELSE task[u]
  BY DEF BeginWrite
<1> HIDE DEF h
<1>5. \A u \in Tasks : u # t =>
        /\ task'[u] \in Task
        /\ task'[u].pc = task[u].pc /\ task'[u].worker = task[u].worker
        /\ task'[u].file = task[u].file /\ task'[u].image = task[u].image
        /\ task'[u].mode = task[u].mode /\ task'[u].got = task[u].got
        /\ task'[u].clashed = (task[u].clashed \/ Touched(t, u))
  <2> TAKE u \in Tasks
  <2>1. task[u] \in Task
    BY DEF IInv, TypeOK
  <2>2. CASE u # t /\ Touched(t, u)
    BY <1>4, <2>1, <2>2 DEF Task
  <2>3. CASE u # t /\ ~Touched(t, u)
    BY <1>4, <2>1, <2>3 DEF Task
  <2> QED
    BY <2>2, <2>3
<1>6. TypeOK'
  <2>1. task' \in [Tasks -> Task]
    BY <1>3, <1>4, <1>5 DEF BeginWrite
  <2>2. \A u \in Tasks : task'[u].worker # None <=> task'[u].pc \in Waiting
    BY <1>3, <1>4, <1>5 DEF IInv, TypeOK, Waiting
  <2>3. temp' \in [Names -> Picture \union {Torn, None}]
    BY DEF BeginWrite, IInv, TypeOK
  <2> QED
    BY <2>1, <2>2, <2>3 DEF BeginWrite, IInv, TypeOK
<1>7. \A u \in Tasks : PictureOK(task[u])'
  <2> SUFFICES ASSUME NEW u \in Tasks PROVE PictureOK(task[u])'
    OBVIOUS
  <2>1. CASE u = t
    BY <1>3, <1>4, <2>1 DEF PictureOK
  <2>2. CASE u # t
    <3>1. PictureOK(task[u]) /\ task[u] \in Task
      BY DEF IInv, FilesOK, TypeOK
    <3>2. ~Touched(t, u) /\ task[u].file = "temp" =>
            temp'[NameOf[task[u].image]] = temp[NameOf[task[u].image]]
      BY <2>2, <3>1, NameAssumption
      DEF BeginWrite, IInv, TypeOK, Touched, SameFile, Uses, Task
    <3> QED
      BY <1>5, <2>2, <3>1, <3>2 DEF PictureOK, Resized, Unresized
  <2> QED
    BY <2>1, <2>2
<1>8. WritersClash'
  <2> SUFFICES ASSUME NEW v \in Tasks, NEW u \in Tasks,
                      task'[u].pc = "writing", Touched(u, v)'
               PROVE  task'[v].clashed
    BY DEF WritersClash
  <2>1. u # v /\ NameOf[task[u].image] = NameOf[task[v].image]
    BY <1>3, <1>4, <1>5 DEF Touched, SameFile
  <2>2. CASE u = t
    <3>1. Touched(t, v)
      BY <1>5, <2>1, <2>2 DEF Touched, SameFile, Uses
    <3> QED
      BY <1>5, <2>1, <2>2, <3>1
  <2>3. CASE v = t
    <3>1. Touched(t, u)
      BY <1>5, <2>1, <2>3 DEF Touched, SameFile, Uses
    <3> QED
      BY <1>3, <1>4, <2>3, <3>1
  <2>4. CASE u # t /\ v # t
    <3>1. task[u].pc = "writing" /\ Touched(u, v)
      BY <1>5, <2>1, <2>4 DEF Touched, SameFile, Uses
    <3>2. task[v].clashed
      BY <3>1 DEF IInv, FilesOK, WritersClash
    <3> QED
      BY <1>5, <2>4, <3>2
  <2> QED
    BY <2>2, <2>3, <2>4
<1>9. WorkersOK'
  <2>1. \A u \in Tasks : /\ task'[u].worker = task[u].worker
                         /\ task'[u].pc = "creating" <=> task[u].pc = "creating"
    BY <1>1, <1>3, <1>4, <1>5
  <2>2. UNCHANGED <<phase, tesseractWorker, worker, creator>>
    BY DEF BeginWrite
  <2>3. OneWorkerPerHandler'
    BY <2>2 DEF IInv, WorkersOK, OneWorkerPerHandler, Alive
  <2> QED
    BY <2>1, <2>2, <2>3 DEF IInv, WorkersOK
<1> QED
  BY <1>6, <1>7, <1>8, <1>9 DEF IInv, FilesOK

\* A resize that fails leaves its handler without a file.
LEMMA ResizeFailsIInv ==
    ASSUME IInv, NEW t \in Tasks, ResizeFails(t)
    PROVE  IInv'
<1>1. /\ task[t] \in Task /\ PictureOK(task[t]) /\ task[t].pc \in {"resize", "writing"}
      /\ task[t].worker = None /\ task[t].file = "original" /\ task[t].got = None
      /\ UNCHANGED <<phase, temp, tesseractWorker>>
  BY DEF IInv, TypeOK, FilesOK, ResizeFails, At, PictureOK, Waiting
<1>2. CASE Goto(t, Idle) /\ UNCHANGED <<worker, creator>>
  BY <1>1, <1>2, IdleIsTask, HandlerStep DEF Goto, Waiting
<1>3. CASE getOcrWorker(t, task[t])
  <2>1. /\ worker' \in [Workers -> {"unborn", "creating", "ready", "gone"}]
        /\ creator' \in [Workers -> Tasks \union {None}]
        /\ WorkersOK'
        /\ \E g \in Task :
             /\ task' = [task EXCEPT ![t] = g]
             /\ g.worker # None <=> g.pc \in Waiting
             /\ g.pc \notin {"metadata", "resize", "writing"}
             /\ g = Idle \/ SameUse(g, task[t])
    BY <1>1, <1>3, OcrWorker
  <2>2. PICK g \in Task :
          /\ task' = [task EXCEPT ![t] = g]
          /\ g.worker # None <=> g.pc \in Waiting
          /\ g.pc \notin {"metadata", "resize", "writing"}
          /\ g = Idle \/ SameUse(g, task[t])
    BY <2>1
  <2>3. PictureOK(g) /\ g.file = "original"
    BY <1>1, <2>2, IdleIsTask, SameUseOK DEF SameUse
  <2>4. FilesOK'
    BY <1>1, <2>2, <2>3, FilesKept
  <2>5. TypeOK'
    BY <1>1, <2>1, <2>2 DEF IInv, TypeOK
  <2> QED
    BY <2>1, <2>4, <2>5 DEF IInv
<1> QED
  BY <1>2, <1>3 DEF ResizeFails

\* At the end of a write the file shows the writer's picture, or the writer has
\* clashed; nobody else uses the file without having clashed.
LEMMA EndWriteIInv ==
    ASSUME IInv, NEW t \in Tasks, EndWrite(t)
    PROVE  IInv'
<1> DEFINE h == [task[t] EXCEPT !.file = "temp"]
<1>1. /\ task[t] \in Task /\ task[t].pc = "writing" /\ task[t].worker = None
      /\ task[t].got = None
      /\ UNCHANGED <<phase, tesseractWorker>>
      /\ getOcrWorker(t, h)
  BY DEF IInv, TypeOK, FilesOK, EndWrite, At, PictureOK, Waiting
<1>2. /\ h \in Task /\ h.file = "temp" /\ h.image = task[t].image /\ h.mode = task[t].mode
      /\ h.clashed = task[t].clashed /\ h.got = None /\ h.worker = None
  BY <1>1 DEF Task
<1> HIDE DEF h
<1>3. PICK picture \in {Resized(task[t])} \union (IF task[t].clashed THEN {Torn} ELSE {}) :
        temp' = [temp EXCEPT ![NameOf[task[t].image]] = picture]
  BY DEF EndWrite
<1>4. /\ picture \in Picture \union {Torn, None}
      /\ ~task[t].clashed => picture = Resized(task[t])
  BY <1>1, <1>3, Pictures
<1>5. /\ worker' \in [Workers -> {"unborn", "creating", "ready", "gone"}]
      /\ creator' \in [Workers -> Tasks \union {None}]
      /\ WorkersOK'
      /\ \E g \in Task :
           /\ task' = [task EXCEPT ![t] = g]
           /\ g.worker # None <=> g.pc \in Waiting
           /\ g.pc \notin {"metadata", "resize", "writing"}
           /\ g = Idle \/ SameUse(g, h)
  BY <1>1, <1>2, OcrWorker
<1>6. PICK g \in Task :
        /\ task' = [task EXCEPT ![t] = g]
        /\ g.worker # None <=> g.pc \in Waiting
        /\ g.pc \notin {"metadata", "resize", "writing"}
        /\ g = Idle \/ SameUse(g, h)
  BY <1>5
<1>7. task'[t] = g /\ \A u \in Tasks : u # t => task'[u] = task[u]
  BY <1>6 DEF IInv, TypeOK
<1>8. NameOf[task[t].image] \in Names
      /\ temp'[NameOf[task[t].image]] = picture
      /\ \A n \in Names : n # NameOf[task[t].image] => temp'[n] = temp[n]
  BY <1>1, <1>3, NameAssumption DEF IInv, TypeOK, Task
<1>9. TypeOK'
  BY <1>1, <1>3, <1>4, <1>5, <1>6 DEF IInv, TypeOK
<1>10. \A u \in Tasks : PictureOK(task[u])'
  <2> SUFFICES ASSUME NEW u \in Tasks PROVE PictureOK(task[u])'
    OBVIOUS
  <2>1. CASE u = t /\ g = Idle
    BY <1>7, <2>1 DEF PictureOK, Idle
  <2>2. CASE u = t /\ SameUse(g, h)
    BY <1>2, <1>4, <1>6, <1>7, <1>8, <2>2 DEF PictureOK, SameUse, Resized
  <2>3. CASE u # t
    <3>1. PictureOK(task[u]) /\ task[u] \in Task
      BY DEF IInv, FilesOK, TypeOK
    <3>2. CASE task[u].clashed \/ task[u].file # "temp"
      BY <1>7, <2>3, <3>1, <3>2 DEF PictureOK
    <3>3. CASE ~task[u].clashed /\ task[u].file = "temp"
      <4>1. ~Touched(t, u)
        BY <1>1, <3>3 DEF IInv, FilesOK, WritersClash
      <4>2. NameOf[task[u].image] # NameOf[task[t].image]
        BY <2>3, <3>3, <4>1 DEF Touched, SameFile, Uses
      <4>3. NameOf[task[u].image] \in Names
        BY <3>1, NameAssumption DEF Task
      <4> QED
        BY <1>7, <1>8, <2>3, <3>1, <4>2, <4>3 DEF PictureOK
    <3> QED
      BY <3>2, <3>3
  <2> QED
    BY <1>6, <2>1, <2>2, <2>3
<1>11. WritersClash'
  <2> SUFFICES ASSUME NEW v \in Tasks, NEW u \in Tasks,
                      task'[u].pc = "writing", Touched(u, v)'
               PROVE  task'[v].clashed
    BY DEF WritersClash
  <2>1. u # t /\ task'[u] = task[u] /\ u # v
    BY <1>6, <1>7 DEF Touched
  <2>2. CASE v = t
    <3>1. g # Idle
      BY <1>6, <1>7, <2>2, IdleIsTask DEF Touched, Uses
    <3>2. SameUse(g, h)
      BY <1>6, <3>1
    <3>3. Touched(u, t)
      BY <1>1, <1>2, <1>7, <2>1, <2>2, <3>2 DEF Touched, SameFile, Uses, SameUse
    <3>4. task[t].clashed
      BY <2>1, <3>3 DEF IInv, FilesOK, WritersClash
    <3> QED
      BY <1>2, <1>7, <2>2, <3>2, <3>4 DEF SameUse
  <2>3. CASE v # t
    <3>1. Touched(u, v)
      BY <1>7, <2>1, <2>3 DEF Touched, SameFile, Uses
    <3> QED
      BY <1>7, <2>1, <2>3, <3>1 DEF IInv, FilesOK, WritersClash
  <2> QED
    BY <2>2, <2>3
<1> QED
  BY <1>5, <1>9, <1>10, <1>11 DEF IInv, FilesOK

\* The end of a creation: the worker is shared, or gone.
LEMMA CreationIInv ==
    ASSUME IInv, NEW t \in Tasks, WorkerReady(t) \/ WorkerFails(t)
    PROVE  IInv'
<1> DEFINE w == task[t].worker
<1>1. /\ task[t] \in Task /\ PictureOK(task[t]) /\ task[t].pc = "creating"
      /\ w \in Workers /\ worker[w] = "creating" /\ creator[w] = t
      /\ UNCHANGED <<phase, temp, creator>>
  BY DEF IInv, TypeOK, FilesOK, WorkersOK, WorkerReady, WorkerFails, At, Task, Waiting
<1> HIDE DEF w
<1>2. ASSUME NEW h \in Task, NEW s \in {"ready", "gone"},
             task' = [task EXCEPT ![t] = h],
             worker' = [worker EXCEPT ![w] = s],
             tesseractWorker' = IF s = "ready" THEN w ELSE tesseractWorker,
             h.pc \in {"recognise", "recognised", "idle"},
             h.worker # None <=> h.pc \in Waiting,
             h = Idle \/ SameUse(h, task[t])
      PROVE  IInv'
  <2>1. TypeOK'
    BY <1>1, <1>2 DEF IInv, TypeOK
  <2>2. PictureOK(h)
    BY <1>1, <1>2, IdleIsTask, SameUseOK
  <2>3. FilesOK'
    BY <1>1, <1>2, <2>2, FilesKept, IdleIsTask DEF SameUse
  <2>4. /\ worker'[w] = s
        /\ \A v \in Workers : v # w => worker'[v] = worker[v]
        /\ task'[t] = h
        /\ \A u \in Tasks : u # t => task'[u] = task[u]
    BY <1>1, <1>2 DEF IInv, TypeOK
  <2>5. OneWorkerPerHandler'
    BY <1>1, <1>2, <2>4 DEF IInv, WorkersOK, OneWorkerPerHandler, Alive
  <2>6. \A u \in Tasks :
          task'[u].pc = "creating" =>
              worker'[task'[u].worker] = "creating" /\ creator'[task'[u].worker] = u
    <3> SUFFICES ASSUME NEW u \in Tasks, u # t, task[u].pc = "creating"
                 PROVE  worker'[task[u].worker] = "creating" /\ creator'[task[u].worker] = u
      BY <1>2, <2>4
    <3>1. task[u].worker \in Workers /\ worker[task[u].worker] = "creating"
          /\ creator[task[u].worker] = u
      BY DEF IInv, TypeOK, WorkersOK, Task, Waiting
    <3> QED
      BY <1>1, <2>4, <3>1
  <2>7. \A v \in Workers :
          worker'[v] = "creating" =>
              /\ creator'[v] \in Tasks
              /\ task'[creator'[v]].pc = "creating"
              /\ task'[creator'[v]].worker = v
    BY <1>1, <1>2, <2>4 DEF IInv, WorkersOK, w
  <2>8. tesseractWorker' # None => worker'[tesseractWorker'] \in {"ready", "gone"}
    BY <1>1, <1>2, <2>4 DEF IInv, TypeOK, WorkersOK
  <2>9. phase' = "running" /\ tesseractWorker' = None =>
            \A v \in Workers : worker'[v] # "ready"
    BY <1>1, <1>2, <2>4, NoneAssumption DEF IInv, TypeOK, WorkersOK
  <2> QED
    BY <2>1, <2>3, <2>5, <2>6, <2>7, <2>8, <2>9 DEF IInv, WorkersOK
<1>3. CASE WorkerReady(t)
  <2> DEFINE h == [task[t] EXCEPT !.pc = "recognise"]
  <2>1. h \in Task /\ h.pc = "recognise" /\ h.worker = w /\ SameUse(h, task[t])
    BY <1>1 DEF Task, PCs, SameUse, w
  <2>2. /\ task' = [task EXCEPT ![t] = h]
        /\ worker' = [worker EXCEPT ![w] = "ready"]
        /\ tesseractWorker' = w
    BY <1>3 DEF WorkerReady, Goto, w
  <2> HIDE DEF h
  <2> QED
    BY <1>1, <1>2, <2>1, <2>2, NoneAssumption DEF Waiting
<1>4. CASE WorkerFails(t)
  <2> DEFINE h == Failed(task[t])
  <2>1. h \in Task /\ h.pc \in {"recognised", "idle"} /\ h.worker = None
        /\ (h = Idle \/ SameUse(h, task[t]))
    BY <1>1, FailedIsTask
  <2>2. /\ task' = [task EXCEPT ![t] = h]
        /\ worker' = [worker EXCEPT ![w] = "gone"]
        /\ tesseractWorker' = tesseractWorker
    BY <1>4 DEF WorkerFails, Goto, w
  <2> HIDE DEF h
  <2> QED
    BY <1>2, <2>1, <2>2 DEF Waiting
<1> QED
  BY <1>3, <1>4

\* The shutdown touches no handler and no file.
LEMMA ProcessStepIInv ==
    ASSUME IInv, ProcessStep
    PROVE  IInv'
<1>1. UNCHANGED <<temp, creator, task>> /\ phase' # "running"
      /\ phase' \in {"terminating", "stopped", "exited"}
  BY DEF ProcessStep, Shutdown, Terminated, Exit
<1>2. FilesOK'
  BY <1>1 DEF IInv, FilesOK, PictureOK, WritersClash, Touched, SameFile, Uses
<1>3. CASE Shutdown /\ tesseractWorker # None
  <2>1. worker' = [worker EXCEPT ![tesseractWorker] = "gone"]
        /\ UNCHANGED tesseractWorker /\ tesseractWorker \in Workers
        /\ worker[tesseractWorker] # "creating"
    BY <1>3 DEF Shutdown, IInv, TypeOK, WorkersOK
  <2>2. TypeOK'
    BY <1>1, <2>1 DEF IInv, TypeOK
  <2>3. \A v \in Workers :
            worker'[v] = IF v = tesseractWorker THEN "gone" ELSE worker[v]
    BY <2>1 DEF IInv, TypeOK
  <2>4. \A u \in Tasks : task[u].pc = "creating" => task[u].worker \in Workers
    BY DEF IInv, TypeOK, Task, Waiting
  <2>5. WorkersOK'
    BY <1>1, <2>1, <2>3, <2>4 DEF IInv, WorkersOK, OneWorkerPerHandler
  <2> QED
    BY <1>2, <2>2, <2>5 DEF IInv
<1>4. CASE UNCHANGED worker /\ tesseractWorker' \in {tesseractWorker, None}
  <2>1. TypeOK'
    BY <1>1, <1>4 DEF IInv, TypeOK
  <2>2. WorkersOK'
    BY <1>1, <1>4 DEF IInv, WorkersOK, OneWorkerPerHandler
  <2> QED
    BY <1>2, <2>1, <2>2 DEF IInv
<1> QED
  BY <1>3, <1>4 DEF ProcessStep, Shutdown, Terminated, Exit

-----------------------------------------------------------------------------
(* The theorems *)

\* The invariant holds of every behaviour of the handlers and the shutdown.
THEOREM ImageInvariant == Spec => []IInv
<1>1. ASSUME IInv, [Next]_vars
      PROVE  IInv'
  <2>1. CASE UNCHANGED vars
    BY <1>1, <2>1
    DEF vars, IInv, TypeOK, FilesOK, PictureOK, WritersClash, Touched, SameFile, Uses,
        WorkersOK, OneWorkerPerHandler, Alive
  <2>2. CASE ProcessStep
    BY <1>1, <2>2, ProcessStepIInv
  <2>3. ASSUME NEW t \in Tasks, TaskStep(t)
        PROVE  IInv'
    BY <1>1, <2>3, QuietIInv, BeginWriteIInv, EndWriteIInv, ResizeFailsIInv, CreationIInv
    DEF TaskStep
  <2> QED
    BY <1>1, <2>1, <2>2, <2>3 DEF Next
<1> QED
  BY <1>1, InitIInv, PTL DEF Spec

\* The handlers, the workers and the files are well typed.
THEOREM ImageTypes == Spec => []TypeOK
<1>1. IInv => TypeOK
  BY DEF IInv
<1> QED
  BY <1>1, ImageInvariant, PTL

\* A handler reads and returns pictures of its own image unless it clashed.
THEOREM ImageOwnPicture == Spec => []OwnPictureUnlessClash
<1>1. IInv => OwnPictureUnlessClash
  BY DEF IInv, FilesOK, PictureOK, OwnPictureUnlessClash
<1> QED
  BY <1>1, ImageInvariant, PTL

\* As long as the server runs, no handler has added a second worker.
THEOREM ImageOneWorker == Spec => []OneWorkerPerHandler
<1>1. IInv => OneWorkerPerHandler
  BY DEF IInv, WorkersOK
<1> QED
  BY <1>1, ImageInvariant, PTL
=============================================================================
