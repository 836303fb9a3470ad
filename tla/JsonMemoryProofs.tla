-------------------------- MODULE JsonMemoryProofs --------------------------
(* What memory.json's lock guarantees, for any number of processes. *)
EXTENDS JsonMemory, TLAPS

NoMishap == ~overstayed /\ ~misjudged

\* Whoever works holds the lock it created itself.
WorkersHold ==
    NoMishap => \A p \in Procs : Working(p) => lock # None /\ lock.owner = p

\* A lock that any process judged is stale, and a stale lock has no owner.
StaleIsOrphaned ==
    NoMishap /\ lock # None =>
        /\ lock.judged # {} => lock.stale
        /\ lock.stale => lock.owner = None

\* Nobody has saved since the process that is about to save loaded, if it
\* could read what there was to load.
LoadedIsCurrent ==
    NoMishap => \A p \in Procs :
        call[p].pc = "save" => call[p].unread \/ call[p].payload = json

IInv == TypeOK /\ WorkersHold /\ StaleIsOrphaned /\ LoadedIsCurrent

-----------------------------------------------------------------------------

\* The idle call is a call: the chosen key and value exist.
LEMMA IdleIsCall == Idle \in Call /\ Idle.pc = "idle"
<1>1. (CHOOSE k \in Keys : TRUE) \in Keys /\ (CHOOSE v \in Values : TRUE) \in Values
  BY DataAssumption
<1>2. EmptyPayload \in Payload
  BY DEF EmptyPayload, Payload
<1> QED
  BY <1>1, <1>2, LimitsAssumption DEF Idle, Call

\* Whatever an operation makes of a payload is a payload.
LEMMA OutcomesArePayloads ==
    ASSUME NEW c \in Call
    PROVE  Outcomes(c) \subseteq Payload
<1>1. ASSUME NEW P \in Payload
      PROVE  Evicted(P) \subseteq Payload
  BY <1>1 DEF Evicted, Payload
<1>2. [c.payload EXCEPT ![c.key] = c.value] \in Payload
  BY DEF Call, Payload
<1>3. [c.payload EXCEPT ![c.key] = None] \in Payload
  BY DEF Call, Payload
<1>4. EmptyPayload \in Payload
  BY DEF EmptyPayload, Payload
<1>5. c.op \in {"put", "delete", "clear"}
  BY DEF Call
<1> QED
  BY <1>1, <1>2, <1>3, <1>4, <1>5 DEF Outcomes

\* A round of the lock loop ends in another round or in an idle process.
LEMMA NextAttemptIsCall ==
    ASSUME TypeOK, NEW p \in Procs, NextAttempt(p)
    PROVE  /\ call' \in [Procs -> Call]
           /\ call'[p].pc \in {"open", "idle"}
           /\ \A q \in Procs : q # p => call'[q] = call[q]
<1>1. call[p] \in Call
  BY DEF TypeOK
<1>2. CASE call[p].attempt + 1 < LockAttempts
  <2>1. call[p].attempt + 1 \in 0 .. LockAttempts - 1
    BY <1>1, <1>2, LimitsAssumption DEF Call
  <2>2. call' = [call EXCEPT ![p].pc = "open", ![p].attempt = @ + 1]
    BY <1>2 DEF NextAttempt
  <2> QED
    BY <1>1, <2>1, <2>2 DEF TypeOK, Call
<1>3. CASE ~(call[p].attempt + 1 < LockAttempts)
  <2>1. call' = [call EXCEPT ![p] = Idle]
    BY <1>3 DEF NextAttempt
  <2> QED
    BY <2>1, IdleIsCall DEF TypeOK
<1> QED
  BY <1>2, <1>3

\* The processes start idle and without a lock.
LEMMA InitIInv == Init => IInv
<1> SUFFICES ASSUME Init PROVE IInv
  OBVIOUS
<1>1. TypeOK
  BY IdleIsCall DEF Init, TypeOK
<1> QED
  BY <1>1, IdleIsCall DEF Init, IInv, WorkersHold, StaleIsOrphaned, LoadedIsCurrent, Working

\* A step by which one process leaves the lock loop or the critical section, or
\* stays out of it, with the lock as it was.
LEMMA StayOut ==
    ASSUME IInv, NEW p \in Procs,
           call' \in [Procs -> Call],
           call'[p].pc \in {"idle", "open", "stat", "unlink"},
           \A q \in Procs : q # p => call'[q] = call[q],
           UNCHANGED <<json, overstayed, misjudged>>,
           lock' = lock
    PROVE  IInv'
BY DEF IInv, TypeOK, WorkersHold, StaleIsOrphaned, LoadedIsCurrent, NoMishap, Working

\* The steps of the lock loop preserve the invariant.
LEMMA AcquireIInv ==
    ASSUME IInv, NEW p \in Procs, Acquire(p)
    PROVE  IInv'
<1> USE DEF IInv
<1>0. call \in [Procs -> Call] /\ call[p] \in Call
  BY DEF TypeOK
<1>1. CASE CreateLock(p)
  <2>1. /\ call' = [call EXCEPT ![p].pc = "load"]
        /\ lock = None
        /\ lock' = [owner |-> p, stale |-> FALSE, judged |-> {}]
        /\ UNCHANGED <<json, overstayed, misjudged>>
    BY <1>1 DEF CreateLock, Goto
  <2>2. call' \in [Procs -> Call] /\ call'[p].pc = "load"
    BY <1>0, <2>1 DEF Call
  <2>3. lock' \in Lock
    BY <2>1 DEF Lock
  <2>4. lock' # None /\ lock'.owner = p /\ lock'.judged = {} /\ lock'.stale = FALSE
    BY <2>1, <2>3, NoneAssumption
  <2>5. TypeOK'
    BY <2>1, <2>2, <2>3 DEF TypeOK
  <2>6. NoMishap' => \A q \in Procs : ~Working(q)
    BY <2>1 DEF WorkersHold, NoMishap
  <2>7. \A q \in Procs : q # p => call'[q] = call[q]
    BY <1>0, <2>1
  <2>8. WorkersHold'
    BY <2>4, <2>6, <2>7 DEF WorkersHold, Working
  <2>9. StaleIsOrphaned'
    BY <2>4 DEF StaleIsOrphaned
  <2>10. LoadedIsCurrent'
    BY <2>1, <2>2, <2>6, <2>7 DEF LoadedIsCurrent, Working
  <2> QED
    BY <2>5, <2>8, <2>9, <2>10
<1>2. CASE LockExists(p)
  BY <1>0, <1>2, StayOut DEF LockExists, Goto, Call
<1>3. CASE OpenFails(p)
  BY <1>0, <1>3, StayOut, IdleIsCall DEF OpenFails
<1>4. CASE StatLock(p)
  <2>1. CASE lock # None /\ lock.stale
    <3>1. /\ call' = [call EXCEPT ![p].pc = "unlink"]
          /\ lock' = [lock EXCEPT !.judged = @ \union {p}]
          /\ UNCHANGED <<json, overstayed, misjudged>>
      BY <1>4, <2>1 DEF StatLock, Goto
    <3>2. lock \in Lock
      BY <2>1 DEF TypeOK
    <3>3. /\ lock' \in Lock
          /\ lock'.owner = lock.owner
          /\ lock'.stale = lock.stale
      BY <3>1, <3>2 DEF Lock
    <3>4. /\ call' \in [Procs -> Call]
          /\ call'[p].pc = "unlink"
          /\ \A q \in Procs : q # p => call'[q] = call[q]
      BY <1>0, <3>1 DEF Call
    <3>5. TypeOK'
      BY <3>1, <3>3, <3>4 DEF TypeOK
    <3>6. NoMishap' => lock.owner = None
      BY <2>1, <3>1 DEF StaleIsOrphaned, NoMishap
    <3>7. NoMishap' => \A q \in Procs : ~Working(q)
      BY <3>1, <3>6, NoneAssumption DEF WorkersHold, NoMishap
    <3>8. NoMishap' => \A q \in Procs : ~Working(q)'
      BY <3>4, <3>7 DEF Working
    <3> QED
      BY <2>1, <3>3, <3>5, <3>6, <3>8
      DEF WorkersHold, StaleIsOrphaned, LoadedIsCurrent, Working
  <2>2. CASE ~(lock # None /\ lock.stale)
    <3>1. NextAttempt(p) /\ UNCHANGED <<json, lock, overstayed, misjudged>>
      BY <1>4, <2>2 DEF StatLock
    <3> QED
      BY <3>1, NextAttemptIsCall, StayOut
  <2> QED
    BY <2>1, <2>2
<1>5. CASE UnlinkStale(p)
  <2>1. /\ lock' = None
        /\ misjudged' = (misjudged \/ (lock # None /\ p \notin lock.judged))
        /\ UNCHANGED <<json, overstayed>>
        /\ NextAttempt(p)
    BY <1>5 DEF UnlinkStale
  <2>2. /\ call' \in [Procs -> Call]
        /\ call'[p].pc \in {"open", "idle"}
        /\ \A q \in Procs : q # p => call'[q] = call[q]
    BY <2>1, NextAttemptIsCall
  <2>3. misjudged' \in BOOLEAN
    BY <2>1 DEF TypeOK
  <2>4. TypeOK'
    BY <2>1, <2>2, <2>3 DEF TypeOK
  <2>5. NoMishap' => NoMishap /\ (lock # None => p \in lock.judged)
    BY <2>1 DEF NoMishap
  <2>6. NoMishap' => \A q \in Procs : ~Working(q)
    <3> SUFFICES ASSUME NoMishap', NEW q \in Procs, Working(q) PROVE FALSE
      OBVIOUS
    <3>1. lock # None /\ lock.owner = q
      BY <2>5 DEF WorkersHold
    <3>2. lock.owner = None
      BY <2>5, <3>1 DEF StaleIsOrphaned
    <3> QED
      BY <3>1, <3>2, NoneAssumption
  <2>7. NoMishap' => \A q \in Procs : ~Working(q)'
    BY <2>2, <2>6 DEF Working
  <2> QED
    BY <2>1, <2>4, <2>7 DEF WorkersHold, StaleIsOrphaned, LoadedIsCurrent, Working
<1>6. CASE CheckFails(p)
  BY <1>6, NextAttemptIsCall, StayOut DEF CheckFails
<1> QED
  BY <1>1, <1>2, <1>3, <1>4, <1>5, <1>6 DEF Acquire

\* A process that leaves the critical section, or dies anywhere, leaves the
\* invariant behind: the lock it created is removed or abandoned.
LEMMA LeaveIInv ==
    ASSUME IInv, NEW p \in Procs,
           call' = [call EXCEPT ![p] = Idle],
           UNCHANGED <<json, overstayed, misjudged>>,
           \/ call[p].pc = "release" /\ lock' = None
           \/ lock' = Abandoned(p)
    PROVE  IInv'
<1> USE DEF IInv
<1>1. /\ call' \in [Procs -> Call]
      /\ call'[p].pc = "idle"
      /\ \A q \in Procs : q # p => call'[q] = call[q]
  BY IdleIsCall DEF TypeOK
<1>2. CASE call[p].pc = "release" /\ lock' = None
  <2>1. NoMishap => lock # None /\ lock.owner = p
    BY <1>2 DEF WorkersHold, Working
  <2>2. NoMishap => \A q \in Procs : q # p => ~Working(q)
    BY <2>1 DEF WorkersHold
  <2> QED
    BY <1>1, <1>2, <2>2
    DEF TypeOK, WorkersHold, StaleIsOrphaned, LoadedIsCurrent, Working, NoMishap
<1>3. CASE lock' = Abandoned(p)
  <2>1. CASE lock # None /\ lock.owner = p
    <3>1. lock' = [lock EXCEPT !.owner = None] /\ lock \in Lock
      BY <1>3, <2>1 DEF Abandoned, TypeOK
    <3>2. lock' \in Lock /\ lock'.owner = None
      BY <3>1 DEF Lock
    <3>3. lock'.stale = lock.stale /\ lock'.judged = lock.judged
      BY <3>1 DEF Lock
    <3>4. NoMishap => \A q \in Procs : q # p => ~Working(q)
      BY <2>1 DEF WorkersHold
    <3>5. NoMishap' => \A q \in Procs : ~Working(q)'
      BY <1>1, <3>4 DEF Working, NoMishap
    <3>6. TypeOK'
      BY <1>1, <3>2 DEF TypeOK
    <3> QED
      BY <2>1, <3>2, <3>3, <3>5, <3>6
      DEF WorkersHold, StaleIsOrphaned, LoadedIsCurrent, Working, NoMishap
  <2>2. CASE ~(lock # None /\ lock.owner = p)
    <3>1. lock' = lock
      BY <1>3, <2>2 DEF Abandoned
    <3> QED
      BY <1>1, <3>1, StayOut
  <2> QED
    BY <2>1, <2>2
<1> QED
  BY <1>2, <1>3

\* The steps under the lock preserve the invariant.
LEMMA WorkIInv ==
    ASSUME IInv, NEW p \in Procs, Work(p)
    PROVE  IInv'
<1> USE DEF IInv
<1>0. call \in [Procs -> Call] /\ call[p] \in Call /\ json \in Payload
  BY DEF TypeOK
<1>1. CASE Load(p) \/ LoadFails(p)
  <2>1. /\ UNCHANGED <<json, lock, overstayed, misjudged>>
        /\ Working(p)
    BY <1>1 DEF Load, LoadFails, Working
  <2>2. /\ call' \in [Procs -> Call]
        /\ call'[p].pc = "save"
        /\ call'[p].unread \/ call'[p].payload = json
        /\ \A q \in Procs : q # p => call'[q] = call[q]
    <3>1. CASE Load(p)
      BY <1>0, <3>1 DEF Load, Call
    <3>2. CASE LoadFails(p)
      <4>1. EmptyPayload \in Payload
        BY DEF EmptyPayload, Payload
      <4> QED
        BY <1>0, <3>2, <4>1 DEF LoadFails, Call
    <3> QED
      BY <1>1, <3>1, <3>2
  <2>3. TypeOK'
    BY <2>1, <2>2 DEF TypeOK
  <2>4. NoMishap' = NoMishap
    BY <2>1 DEF NoMishap
  <2>5. WorkersHold'
    BY <2>1, <2>2, <2>4 DEF WorkersHold, Working
  <2>6. StaleIsOrphaned'
    BY <2>1, <2>4 DEF StaleIsOrphaned
  <2>7. LoadedIsCurrent'
    BY <2>1, <2>2, <2>4 DEF LoadedIsCurrent
  <2> QED
    BY <2>3, <2>5, <2>6, <2>7
<1>2. CASE Save(p) \/ SaveFails(p) \/ LoadThrows(p)
  <2>1. /\ call' = [call EXCEPT ![p] = [Idle EXCEPT !.pc = "release"]]
        /\ UNCHANGED <<lock, overstayed, misjudged>>
        /\ Working(p)
    BY <1>2 DEF Save, SaveFails, LoadThrows, Leave, Working
  <2>2. json' \in Payload
    BY <1>0, <1>2, OutcomesArePayloads DEF Save, SaveFails, LoadThrows
  <2>3. [Idle EXCEPT !.pc = "release"] \in Call /\ [Idle EXCEPT !.pc = "release"].pc = "release"
    BY IdleIsCall DEF Call
  <2>4. /\ call' \in [Procs -> Call]
        /\ call'[p].pc = "release"
        /\ \A q \in Procs : q # p => call'[q] = call[q]
    BY <1>0, <2>1, <2>3
  <2>5. TypeOK'
    BY <2>1, <2>2, <2>4 DEF TypeOK
  <2>6. NoMishap' = NoMishap
    BY <2>1 DEF NoMishap
  <2>7. NoMishap => lock # None /\ lock.owner = p
    BY <2>1 DEF WorkersHold
  <2>8. NoMishap => \A q \in Procs : q # p => ~Working(q)
    BY <2>7 DEF WorkersHold
  <2>9. WorkersHold'
    BY <2>1, <2>4, <2>6, <2>7, <2>8 DEF WorkersHold, Working
  <2>10. StaleIsOrphaned'
    BY <2>1, <2>6 DEF StaleIsOrphaned
  <2>11. LoadedIsCurrent'
    BY <2>4, <2>6, <2>8 DEF LoadedIsCurrent, Working
  <2> QED
    BY <2>5, <2>9, <2>10, <2>11
<1>3. CASE Release(p)
  BY <1>3, LeaveIInv DEF Release
<1>4. CASE ReleaseFails(p)
  BY <1>4, LeaveIInv DEF ReleaseFails
<1> QED
  BY <1>1, <1>2, <1>3, <1>4 DEF Work

\* Time passes: a lock that grows stale in its owner's hands is a mishap.
LEMMA GrowStaleIInv ==
    ASSUME IInv, GrowStale
    PROVE  IInv'
<1> USE DEF IInv
<1>1. /\ lock # None
      /\ lock' = [lock EXCEPT !.stale = TRUE]
      /\ overstayed' = (overstayed \/ lock.owner # None)
      /\ UNCHANGED <<json, call, misjudged>>
  BY DEF GrowStale
<1>2. lock \in Lock
  BY <1>1 DEF TypeOK
<1>3. lock' \in Lock /\ lock'.owner = lock.owner /\ lock'.stale
  BY <1>1, <1>2 DEF Lock
<1>4. overstayed' \in BOOLEAN
  BY <1>1 DEF TypeOK
<1>5. TypeOK'
  BY <1>1, <1>3, <1>4 DEF TypeOK
<1>6. NoMishap' => NoMishap /\ lock.owner = None
  BY <1>1 DEF NoMishap
<1>7. NoMishap' => \A q \in Procs : ~Working(q)
  BY <1>6, NoneAssumption DEF WorkersHold
<1> QED
  BY <1>1, <1>3, <1>5, <1>6, <1>7 DEF WorkersHold, StaleIsOrphaned, LoadedIsCurrent, Working

\* The inductive invariant of the lock protocol.
THEOREM LockInvariant == Spec => []IInv
<1>1. Init => IInv
  BY InitIInv
<1>2. IInv /\ [Next]_vars => IInv'
  <2> SUFFICES ASSUME IInv, [Next]_vars PROVE IInv'
    OBVIOUS
  <2>0. /\ \A k \in Keys, v \in Values : Put(k, v) \in Call
        /\ \A k \in Keys : Delete(k) \in Call
        /\ Clear \in Call
    BY IdleIsCall DEF Put, Delete, Clear, Call
  <2>1. ASSUME NEW p \in Procs, NEW request \in Call, Start(p, request)
        PROVE  IInv'
    <3>1. [request EXCEPT !.pc = "open"] \in Call /\ [request EXCEPT !.pc = "open"].pc = "open"
      BY DEF Call
    <3>2. /\ call' \in [Procs -> Call]
          /\ call'[p].pc = "open"
          /\ \A q \in Procs : q # p => call'[q] = call[q]
      BY <2>1, <3>1 DEF Start, IInv, TypeOK
    <3> QED
      BY <2>1, <3>2, StayOut DEF Start
  <2>2. ASSUME NEW p \in Procs, Acquire(p) PROVE IInv'
    BY <2>2, AcquireIInv
  <2>3. ASSUME NEW p \in Procs, Work(p) PROVE IInv'
    BY <2>3, WorkIInv
  <2>4. ASSUME NEW p \in Procs, Crash(p) PROVE IInv'
    BY <2>4, LeaveIInv DEF Crash
  <2>5. CASE GrowStale
    BY <2>5, GrowStaleIInv
  <2>6. CASE UNCHANGED vars
    BY <2>6 DEF vars, IInv, TypeOK, WorkersHold, StaleIsOrphaned, LoadedIsCurrent,
                NoMishap, Working
  <2> QED
    BY <2>0, <2>1, <2>2, <2>3, <2>4, <2>5, <2>6 DEF Next
<1> QED
  BY <1>1, <1>2, PTL DEF Spec

\* The state of the lock protocol is well typed.
THEOREM JsonMemoryTypes == Spec => []TypeOK
<1>1. IInv => TypeOK
  BY DEF IInv
<1> QED
  BY <1>1, LockInvariant, PTL

\* withJsonLock excludes, crashes and stale locks included, unless a process
\* works for longer than LOCK_STALE_MS or removes a lock it did not judge.
THEOREM LockExcludes == Spec => []ExclusiveUnlessMishap
<1>1. IInv => ExclusiveUnlessMishap
  BY DEF IInv, TypeOK, WorkersHold, NoMishap, ExclusiveUnlessMishap
<1> QED
  BY <1>1, LockInvariant, PTL

\* memoryPut, memoryDelete and memoryClear lose no update but by such a mishap,
\* or when they could not read memory.json.
THEOREM LockLosesNoUpdate == Spec => NoLostUpdateUnlessMishap
<1> DEFINE A == \A p \in Procs :
                   call[p].pc = "save" /\ json' # json /\ call'[p].pc = "release"
                   => overstayed \/ misjudged \/ call[p].unread \/ json = call[p].payload
<1>1. IInv => A
  BY DEF IInv, TypeOK, LoadedIsCurrent, NoMishap
<1>2. IInv /\ [Next]_vars => [A]_vars
  BY <1>1
<1> QED
  BY <1>2, LockInvariant, PTL DEF NoLostUpdateUnlessMishap, Spec
=============================================================================
