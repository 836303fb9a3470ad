------------------------------ MODULE ImageTool ------------------------------
(***************************************************************************)
(* gate_optimize_image: tools/optimizeImage.ts over lib/imageProcessor.ts, *)
(* with the part of main.ts's gracefulShutdown that ends the OCR worker.   *)
(*                                                                         *)
(* The handlers of one process share two things: the OCR worker, created   *)
(* by the first handler that needs it, and the files that resizeImage      *)
(* writes, named after the base name of the image alone.  A task is one    *)
(* handler; an action is the code between two awaits.  sharp, jimp and     *)
(* tesseract.js are modelled from the way imageProcessor.ts uses them.     *)
(***************************************************************************)
EXTENDS Naturals

CONSTANTS
    Images,     \* image files, by path
    Names,      \* base names without extension
    NameOf,     \* the base name of each image
    Tasks,      \* handlers that may run at the same time
    Workers,    \* OCR workers: the bound on the number of creations
    None, Torn  \* "nothing"; a file whose bytes nobody wrote as a whole

QuickWidth == 512    \* of the quick look and of the optimised image
TextWidth == 768     \* of the image that text is extracted from
Original == 0        \* the width of an image that was not resized

\* What an image file shows: which image, at which width.
Picture == [image : Images, width : {Original, QuickWidth, TextWidth}]

ASSUME NameAssumption == NameOf \in [Images -> Names]
ASSUME ImagesAssumption == Images # {}
ASSUME NoneAssumption == None \notin Workers \union Tasks

VARIABLES
    phase,            \* of the Gate process
    temp,             \* temp[n]: gate-mcp/<n>_optimized.jpg
    tesseractWorker,  \* the worker that handlers are to share
    worker,           \* what each worker is doing
    creator,          \* history: the handler that created it
    task              \* the handlers

vars == <<phase, temp, tesseractWorker, worker, creator, task>>

PCs == {"idle", "metadata", "resize", "writing", "creating", "recognise", "recognised"}
Waiting == {"creating", "recognise"}

Task == [pc : PCs,
         image : Images,
         mode : {"auto", "text", "visual"},          \* the stage it is in
         file : {"original", "temp"},                \* targetPath
         worker : Workers \union {None},
         got : Picture \union {Torn, None},          \* what OCR has read
         clashed : BOOLEAN]                          \* history: see Touched

TypeOK ==
    /\ phase \in {"running", "terminating", "stopped", "exited"}
    /\ temp \in [Names -> Picture \union {Torn, None}]
    /\ tesseractWorker \in Workers \union {None}
    /\ worker \in [Workers -> {"unborn", "creating", "ready", "gone"}]
    /\ creator \in [Workers -> Tasks \union {None}]
    /\ task \in [Tasks -> Task]
    /\ \A t \in Tasks : task[t].worker # None <=> task[t].pc \in Waiting

Idle == [pc |-> "idle", image |-> CHOOSE i \in Images : TRUE, mode |-> "auto",
         file |-> "original", worker |-> None, got |-> None, clashed |-> FALSE]

Init ==
    /\ phase = "running"
    /\ temp = [n \in Names |-> None]
    /\ tesseractWorker = None
    /\ worker = [w \in Workers |-> "unborn"]
    /\ creator = [w \in Workers |-> None]
    /\ task = [t \in Tasks |-> Idle]

-----------------------------------------------------------------------------
(* Helpers *)

At(t, pc) == phase # "exited" /\ task[t].pc = pc
Goto(t, h) == task' = [task EXCEPT ![t] = h]

\* The width a stage resizes to: the quick look of "auto" and the optimised
\* image are smaller than what text is extracted from.
WidthOf(mode) == IF mode = "text" THEN TextWidth ELSE QuickWidth
Resized(h) == [image |-> h.image, width |-> WidthOf(h.mode)]
Unresized(h) == [image |-> h.image, width |-> Original]

\* A handler enters a stage with nothing written and nothing read.
Stage(h, mode) == [h EXCEPT !.pc = "resize", !.mode = mode, !.file = "original",
                            !.got = None, !.clashed = FALSE]

\* A stage whose OCR fails: the optimised image is returned without text, any
\* other handler throws.
Failed(h) == IF h.mode = "visual"
             THEN [h EXCEPT !.pc = "recognised", !.worker = None] ELSE Idle

\* Two handlers clash when one writes a file of the name that the other is
\* writing, or has written and goes on using.
SameFile(t, u) == NameOf[task[t].image] = NameOf[task[u].image]
Uses(u) == task[u].pc = "writing" \/ task[u].file = "temp"
Touched(t, u) == u # t /\ SameFile(t, u) /\ Uses(u)

-----------------------------------------------------------------------------
(* The stages *)

\* Mutant of getOcrWorker: the worker that is there is not looked at.
getOcrWorkerAnew(t, h) ==
    /\ \E w \in Workers :
        /\ worker[w] = "unborn"
        /\ worker' = [worker EXCEPT ![w] = "creating"]
        /\ creator' = [creator EXCEPT ![w] = t]
        /\ Goto(t, [h EXCEPT !.pc = "creating", !.worker = w])

\* Mutant of getOcrWorker: what it holds is returned, created or not.
getOcrWorkerUnchecked(t, h) ==
    /\ Goto(t, [h EXCEPT !.pc = "recognise", !.worker = tesseractWorker])
    /\ UNCHANGED <<worker, creator>>

\* getOcrWorker for handler t, whose locals are h: the shared worker, or a new
\* one that nobody else knows of until it is ready.  The import may fail.
getOcrWorker(t, h) ==
    \/ /\ tesseractWorker # None
       /\ Goto(t, [h EXCEPT !.pc = "recognise", !.worker = tesseractWorker])
       /\ UNCHANGED <<worker, creator>>
    \/ /\ tesseractWorker = None
       /\ \E w \in Workers :
            /\ worker[w] = "unborn"
            /\ worker' = [worker EXCEPT ![w] = "creating"]
            /\ creator' = [creator EXCEPT ![w] = t]
            /\ Goto(t, [h EXCEPT !.pc = "creating", !.worker = w])
    \/ /\ tesseractWorker = None
       /\ Goto(t, Failed(h))
       /\ UNCHANGED <<worker, creator>>

\* handleOptimizeImage asks for the metadata.
Start(t, i, intent) ==
    /\ At(t, "idle")
    /\ Goto(t, [Idle EXCEPT !.pc = "metadata", !.image = i, !.mode = intent])
    /\ UNCHANGED <<phase, temp, tesseractWorker, worker, creator>>

\* Every intent starts with a resize; an image that cannot be read is refused.
Metadata(t) ==
    /\ At(t, "metadata")
    /\ \/ Goto(t, Stage(task[t], task[t].mode))
       \/ Goto(t, Idle)
    /\ UNCHANGED <<phase, temp, tesseractWorker, worker, creator>>

\* The processor opens the file to write.
BeginWrite(t) ==
    /\ At(t, "resize")
    /\ temp' = [temp EXCEPT ![NameOf[task[t].image]] = Torn]
    /\ task' = [u \in Tasks |->
                  IF u = t
                  THEN [task[t] EXCEPT !.pc = "writing",
                                       !.clashed = \E v \in Tasks : Touched(t, v)]
                  ELSE IF Touched(t, u) THEN [task[u] EXCEPT !.clashed = TRUE]
                  ELSE task[u]]
    /\ UNCHANGED <<phase, tesseractWorker, worker, creator>>

\* The file is complete, or mixed with what another handler writes.
EndWrite(t) ==
    /\ At(t, "writing")
    /\ \E picture \in {Resized(task[t])} \union (IF task[t].clashed THEN {Torn} ELSE {}) :
        temp' = [temp EXCEPT ![NameOf[task[t].image]] = picture]
    /\ getOcrWorker(t, [task[t] EXCEPT !.file = "temp"])
    /\ UNCHANGED <<phase, tesseractWorker>>

\* Mutant of ResizeFails: the path of the resized image is used all the same.
ResizeFailsUnnoticed(t) ==
    /\ At(t, "resize") \/ At(t, "writing")
    /\ getOcrWorker(t, [task[t] EXCEPT !.file = "temp"])
    /\ UNCHANGED <<phase, temp, tesseractWorker>>

\* The resize fails, before or while it writes: OCR falls back to the original,
\* but there is no optimised image to return.
ResizeFails(t) ==
    /\ At(t, "resize") \/ At(t, "writing")
    /\ IF task[t].mode = "visual"
       THEN Goto(t, Idle) /\ UNCHANGED <<worker, creator>>
       ELSE getOcrWorker(t, task[t])
    /\ UNCHANGED <<phase, temp, tesseractWorker>>

\* createWorker returns: the handler publishes its worker and uses it.
WorkerReady(t) ==
    /\ At(t, "creating")
    /\ worker' = [worker EXCEPT ![task[t].worker] = "ready"]
    /\ tesseractWorker' = task[t].worker
    /\ Goto(t, [task[t] EXCEPT !.pc = "recognise"])
    /\ UNCHANGED <<phase, temp, creator>>

WorkerFails(t) ==
    /\ At(t, "creating")
    /\ worker' = [worker EXCEPT ![task[t].worker] = "gone"]
    /\ Goto(t, Failed(task[t]))
    /\ UNCHANGED <<phase, temp, tesseractWorker, creator>>

\* recognize reads the file it was given, as it is by now.
Recognise(t) ==
    /\ At(t, "recognise")
    /\ worker[task[t].worker] = "ready"
    /\ Goto(t, [task[t] EXCEPT !.pc = "recognised", !.worker = None,
                               !.got = IF task[t].file = "original"
                                       THEN Unresized(task[t])
                                       ELSE temp[NameOf[task[t].image]]])
    /\ UNCHANGED <<phase, temp, tesseractWorker, worker, creator>>

\* An unreadable image, or a worker that was terminated.
RecogniseFails(t) ==
    /\ At(t, "recognise")
    /\ Goto(t, Failed(task[t]))
    /\ UNCHANGED <<phase, temp, tesseractWorker, worker, creator>>

\* The confidence of the quick look decides what an "auto" request becomes; it
\* starts over with that.  Any other request replies.
Recognised(t) ==
    /\ At(t, "recognised")
    /\ IF task[t].mode = "auto"
       THEN \E mode \in {"text", "visual"} : Goto(t, Stage(task[t], mode))
       ELSE Goto(t, Idle)
    /\ UNCHANGED <<phase, temp, tesseractWorker, worker, creator>>

-----------------------------------------------------------------------------
(* gracefulShutdown *)

\* terminateOcr: the worker goes, and its termination is awaited...
Shutdown ==
    /\ phase = "running"
    /\ IF tesseractWorker = None
       THEN phase' = "stopped" /\ UNCHANGED worker
       ELSE /\ phase' = "terminating"
            /\ worker' = [worker EXCEPT ![tesseractWorker] = "gone"]
    /\ UNCHANGED <<temp, tesseractWorker, creator, task>>

\* ...before the worker is forgotten, or whatever took its place meanwhile.
Terminated ==
    /\ phase = "terminating"
    /\ phase' = "stopped"
    /\ tesseractWorker' = None
    /\ UNCHANGED <<temp, worker, creator, task>>

\* The databases are closed, the proxies awaited: handlers go on until the exit.
Exit ==
    /\ phase = "stopped"
    /\ phase' = "exited"
    /\ UNCHANGED <<temp, tesseractWorker, worker, creator, task>>

TaskStep(t) ==
    \/ \E i \in Images, intent \in {"auto", "text", "visual"} : Start(t, i, intent)
    \/ Metadata(t)
    \/ BeginWrite(t)
    \/ EndWrite(t)
    \/ ResizeFails(t)
    \/ WorkerReady(t)
    \/ WorkerFails(t)
    \/ Recognise(t)
    \/ RecogniseFails(t)
    \/ Recognised(t)

ProcessStep == Shutdown \/ Terminated \/ Exit

Next == (\E t \in Tasks : TaskStep(t)) \/ ProcessStep

Spec == Init /\ [][Next]_vars

-----------------------------------------------------------------------------
(* Properties *)

\* A handler reads and returns pictures of its own image at the width of its
\* own stage, whatever failed, was left behind by earlier requests or is being
\* terminated, unless another handler wrote the file of the same base name
\* while it was in use.
OwnPictureUnlessClash ==
    \A t \in Tasks :
        ~task[t].clashed =>
            /\ task[t].file = "temp" => temp[NameOf[task[t].image]] = Resized(task[t])
            /\ task[t].got \in {None, Unresized(task[t]), Resized(task[t])}

Alive(w) == worker[w] \in {"creating", "ready"}

\* The check of getOcrWorker and its assignment are two awaits apart, so that
\* more workers than the one shared may live, and are never terminated.  But
\* no handler adds a second one: as long as the server runs there are at most
\* as many as handlers found no worker at the same time.
OneWorkerPerHandler ==
    phase = "running" =>
        \A v, w \in Workers : Alive(v) /\ Alive(w) /\ creator[v] = creator[w] => v = w
=============================================================================
