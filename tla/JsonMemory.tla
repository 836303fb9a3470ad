----------------------------- MODULE JsonMemory -----------------------------
(***************************************************************************)
(* gate_memory on its JSON fallback: withJsonLock, loadJsonPayload,        *)
(* saveJsonPayload and the operations of lib/memoryDb.ts that use them.    *)
(*                                                                         *)
(* A process is one Gate server of an IDE session; several of them share   *)
(* memory.json and memory.json.lock of one project.  The operations are    *)
(* synchronous, so a process has at most one under way, but every file     *)
(* system call is a step: those of two processes interleave, and a process *)
(* may be suspended or killed between any two.                             *)
(***************************************************************************)
EXTENDS Naturals, FiniteSets

CONSTANTS
    Procs,         \* Gate servers
    Keys, Values,  \* what agents remember
    MaxEntries,    \* MAX_MEMORY_ENTRIES
    LockAttempts,  \* LOCK_ATTEMPTS
    None           \* "no value", "no lock", "no owner"

\* The lock file itself only has an age.  owner and judged are history: the
\* process that created it, None once that has died or given up its removal,
\* and the processes that found this very file stale.
Lock == [owner : Procs \union {None}, stale : BOOLEAN, judged : SUBSET Procs]

ASSUME LimitsAssumption == MaxEntries \in Nat \ {0} /\ LockAttempts \in Nat \ {0}
ASSUME DataAssumption == Keys # {} /\ Values # {}
ASSUME NoneAssumption == None \notin Procs \union Values \union Lock

VARIABLES
    json,       \* memory.json: key -> value; a missing file has no entries
    lock,       \* memory.json.lock
    call,       \* the operation each process has under way
    overstayed, \* history: a lock grew stale while its creator still worked
    misjudged   \* history: a lock was removed by a process that judged another

vars == <<json, lock, call, overstayed, misjudged>>

Payload == [Keys -> Values \union {None}]

Call == [pc : {"idle", "open", "stat", "unlink", "load", "save", "release"},
         op : {"put", "delete", "clear"},
         key : Keys,
         value : Values,
         attempt : 0 .. LockAttempts - 1,
         payload : Payload,
         unread : BOOLEAN]   \* history: the payload is not what the file held

TypeOK ==
    /\ json \in Payload
    /\ lock \in Lock \union {None}
    /\ call \in [Procs -> Call]
    /\ overstayed \in BOOLEAN
    /\ misjudged \in BOOLEAN

EmptyPayload == [k \in Keys |-> None]

Idle == [pc |-> "idle", op |-> "clear", key |-> CHOOSE k \in Keys : TRUE,
         value |-> CHOOSE v \in Values : TRUE, attempt |-> 0,
         payload |-> EmptyPayload, unread |-> FALSE]

Init ==
    /\ json \in Payload
    /\ lock = None
    /\ call = [p \in Procs |-> Idle]
    /\ overstayed = FALSE
    /\ misjudged = FALSE

-----------------------------------------------------------------------------
(* The payload *)

Used(payload) == {k \in Keys : payload[k] # None}

\* enforceLruJson: the excess of entries goes, and for the sake of the byte
\* limit any number more, but never the last one.  Ages are not kept, so any
\* entries may be the oldest.
Evicted(payload) ==
    {[k \in Keys |-> IF k \in E THEN None ELSE payload[k]] :
        E \in {F \in SUBSET Used(payload) :
                 /\ F # Used(payload)
                 /\ Cardinality(Used(payload)) <= MaxEntries + Cardinality(F)}}

\* What the action of memoryPut, memoryDelete or memoryClear saves.
Outcomes(c) ==
    CASE c.op = "put"    -> Evicted([c.payload EXCEPT ![c.key] = c.value])
      [] c.op = "delete" -> {[c.payload EXCEPT ![c.key] = None]}
      [] c.op = "clear"  -> {EmptyPayload}

-----------------------------------------------------------------------------
(* withJsonLock *)

Goto(p, pc) == call' = [call EXCEPT ![p].pc = pc]

\* The operation is over but for the finally.
Leave(p) == call' = [call EXCEPT ![p] = [Idle EXCEPT !.pc = "release"]]

\* Mutant of NextAttempt: one round too many.
NextAttemptOneMore(p) ==
    IF call[p].attempt < LockAttempts
    THEN call' = [call EXCEPT ![p].pc = "open", ![p].attempt = @ + 1]
    ELSE call' = [call EXCEPT ![p] = Idle]

\* Mutant of NextAttempt: the loop does not count.
NextAttemptUncounted(p) == Goto(p, "open")

\* Mutant of NextAttempt: out of rounds, the action runs without the lock.
NextAttemptAnyway(p) ==
    IF call[p].attempt + 1 < LockAttempts
    THEN call' = [call EXCEPT ![p].pc = "open", ![p].attempt = @ + 1]
    ELSE Goto(p, "load")

\* The next round of the loop, or "timed out acquiring lock".
NextAttempt(p) ==
    IF call[p].attempt + 1 < LockAttempts
    THEN call' = [call EXCEPT ![p].pc = "open", ![p].attempt = @ + 1]
    ELSE call' = [call EXCEPT ![p] = Idle]

\* memoryPut, memoryDelete and memoryClear take the lock for their action.
Put(k, v) == [Idle EXCEPT !.op = "put", !.key = k, !.value = v]
Delete(k) == [Idle EXCEPT !.op = "delete", !.key = k]
Clear == Idle

Start(p, request) ==
    /\ call[p].pc = "idle"
    /\ call' = [call EXCEPT ![p] = [request EXCEPT !.pc = "open"]]
    /\ UNCHANGED <<json, lock, overstayed, misjudged>>

\* openSync(lockPath, "wx") creates the lock file if there is none.
CreateLock(p) ==
    /\ call[p].pc = "open"
    /\ lock = None
    /\ lock' = [owner |-> p, stale |-> FALSE, judged |-> {}]
    /\ Goto(p, "load")
    /\ UNCHANGED <<json, overstayed, misjudged>>

LockExists(p) ==
    /\ call[p].pc = "open"
    /\ lock # None
    /\ Goto(p, "stat")
    /\ UNCHANGED <<json, lock, overstayed, misjudged>>

\* Any other error of the open is thrown.
OpenFails(p) ==
    /\ call[p].pc = "open"
    /\ call' = [call EXCEPT ![p] = Idle]
    /\ UNCHANGED <<json, lock, overstayed, misjudged>>

\* Mutant of StatLock: the age of the lock is not looked at.
StatAnyAge(p) ==
    /\ call[p].pc = "stat"
    /\ IF lock # None
       THEN /\ lock' = [lock EXCEPT !.judged = @ \union {p}]
            /\ Goto(p, "unlink")
       ELSE NextAttempt(p) /\ UNCHANGED lock
    /\ UNCHANGED <<json, overstayed, misjudged>>

\* The age of the lock, if it is still there: a stale one is to be removed, on
\* a fresh one the process sleeps.
StatLock(p) ==
    /\ call[p].pc = "stat"
    /\ IF lock # None /\ lock.stale
       THEN /\ lock' = [lock EXCEPT !.judged = @ \union {p}]
            /\ Goto(p, "unlink")
       ELSE NextAttempt(p) /\ UNCHANGED lock
    /\ UNCHANGED <<json, overstayed, misjudged>>

\* unlinkSync removes whatever lock is there by now.
UnlinkStale(p) ==
    /\ call[p].pc = "unlink"
    /\ lock' = None
    /\ misjudged' = (misjudged \/ (lock # None /\ p \notin lock.judged))
    /\ NextAttempt(p)
    /\ UNCHANGED <<json, overstayed>>

\* statSync or unlinkSync throws, which is caught.
CheckFails(p) ==
    /\ call[p].pc \in {"stat", "unlink"}
    /\ NextAttempt(p)
    /\ UNCHANGED <<json, lock, overstayed, misjudged>>

\* loadJsonPayload: the entries of memory.json, none if there is no such file.
Load(p) ==
    /\ call[p].pc = "load"
    /\ call' = [call EXCEPT ![p].payload = json, ![p].pc = "save"]
    /\ UNCHANGED <<json, lock, overstayed, misjudged>>

\* A file that cannot be looked up, read or parsed is taken for an empty one,
\* and the operation goes on from there.
LoadFails(p) ==
    /\ call[p].pc = "load"
    /\ call' = [call EXCEPT ![p].payload = EmptyPayload, ![p].unread = TRUE, ![p].pc = "save"]
    /\ UNCHANGED <<json, lock, overstayed, misjudged>>

\* hardenPrivatePath throws before the file is read: the operation fails.
LoadThrows(p) ==
    /\ call[p].pc = "load"
    /\ Leave(p)
    /\ UNCHANGED <<json, lock, overstayed, misjudged>>

\* saveJsonPayload: the rename of the temporary file is what others see.
Save(p) ==
    /\ call[p].pc = "save"
    /\ json' \in Outcomes(call[p])
    /\ Leave(p)
    /\ UNCHANGED <<lock, overstayed, misjudged>>

\* Writing, syncing or renaming the temporary file fails: nothing is saved.
SaveFails(p) ==
    /\ call[p].pc = "save"
    /\ Leave(p)
    /\ UNCHANGED <<json, lock, overstayed, misjudged>>

\* The finally removes whatever lock is there by now.
Release(p) ==
    /\ call[p].pc = "release"
    /\ lock' = None
    /\ call' = [call EXCEPT ![p] = Idle]
    /\ UNCHANGED <<json, overstayed, misjudged>>

Abandoned(p) ==
    IF lock # None /\ lock.owner = p THEN [lock EXCEPT !.owner = None] ELSE lock

\* Or the removal fails, which is logged.
ReleaseFails(p) ==
    /\ call[p].pc = "release"
    /\ lock' = Abandoned(p)
    /\ call' = [call EXCEPT ![p] = Idle]
    /\ UNCHANGED <<json, overstayed, misjudged>>

-----------------------------------------------------------------------------
(* The world *)

\* A process is killed; a new server may take its place.
Crash(p) ==
    /\ call[p].pc # "idle"
    /\ lock' = Abandoned(p)
    /\ call' = [call EXCEPT ![p] = Idle]
    /\ UNCHANGED <<json, overstayed, misjudged>>

\* LOCK_STALE_MS have passed since the lock was created.
GrowStale ==
    /\ lock # None
    /\ ~lock.stale
    /\ lock' = [lock EXCEPT !.stale = TRUE]
    /\ overstayed' = (overstayed \/ lock.owner # None)
    /\ UNCHANGED <<json, call, misjudged>>

Acquire(p) ==
    \/ CreateLock(p)
    \/ LockExists(p)
    \/ OpenFails(p)
    \/ StatLock(p)
    \/ UnlinkStale(p)
    \/ CheckFails(p)

Work(p) ==
    \/ Load(p)
    \/ LoadFails(p)
    \/ LoadThrows(p)
    \/ Save(p)
    \/ SaveFails(p)
    \/ Release(p)
    \/ ReleaseFails(p)

Next ==
    \/ \E p \in Procs :
        \/ \E k \in Keys, v \in Values : Start(p, Put(k, v))
        \/ \E k \in Keys : Start(p, Delete(k))
        \/ Start(p, Clear)
        \/ Acquire(p)
        \/ Work(p)
        \/ Crash(p)
    \/ GrowStale

Spec == Init /\ [][Next]_vars

\* A synchronous operation runs on unless its process is killed.
FairSpec == Spec /\ \A p \in Procs : WF_vars(Acquire(p) \/ Work(p))

-----------------------------------------------------------------------------
(* Properties *)

Working(p) == call[p].pc \in {"load", "save", "release"}

\* The lock excludes.  Crashes, failed removals and stale locks included, two
\* processes are between the creation and the removal of the lock at the same
\* time only after one of two mishaps: a process worked for longer than
\* LOCK_STALE_MS, or a lock was removed by a process that had found another
\* one stale.
ExclusiveUnlessMishap ==
    overstayed \/ misjudged \/ \A p, q \in Procs : Working(p) /\ Working(q) => p = q

\* Unless such a mishap has happened, an operation that could read memory.json
\* replaces exactly the payload it loaded: what another session has stored in
\* between is never lost, what it has deleted never comes back.  An operation
\* whose own read fails starts from no entries and saves over them all
\* (loadJsonPayload), which is the one further way to lose an entry.
NoLostUpdateUnlessMishap ==
    [][\A p \in Procs :
          call[p].pc = "save" /\ json' # json /\ call'[p].pc = "release"
          => overstayed \/ misjudged \/ call[p].unread \/ json = call[p].payload]_vars

\* An operation returns, in a value or an error, however the other processes
\* take the lock before it: the loop is bounded.
CallsReturn == \A p \in Procs : call[p].pc # "idle" ~> call[p].pc = "idle"
=============================================================================
