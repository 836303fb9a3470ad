-------------------------- MODULE ProxyPoolProofs --------------------------
(***************************************************************************)
(* TLAPS proofs about ProxyPool, for any sets of roots, servers, handlers  *)
(* and children.                                                           *)
(*                                                                         *)
(* The invariants of the runs are not inductive by themselves: that no     *)
(* child is lost needs the two maps never to hold something under the same *)
(* key, and that a timeout or a refresh closes everything it removes needs *)
(* the pool to hold only processes that are live or crashed.               *)
(***************************************************************************)
EXTENDS ProxyPool, TLAPS

\* Each map holds children under their own key, in the states it is for, and
\* a key is in at most one of the maps.
MapsOK ==
    \A k \in Keys :
        /\ connections[k] # NoChild =>
            /\ KeyOf(connections[k]) = k
            /\ child[connections[k]] \in {"live", "dead"}
            /\ pendingConnects[k] = NoChild
        /\ pendingConnects[k] # NoChild =>
            /\ KeyOf(pendingConnects[k]) = k
            /\ child[pendingConnects[k]] \in {"connecting", "closing"}

\* What a handler that holds a child may rely on.
HandlerOK(h) ==
    /\ h.conn = NoChild <=> h.pc \notin {"connecting", "calling"}
    /\ h.conn # NoChild => Home[h.conn] = h.want
    /\ h.pc = "connecting" => pendingConnects[KeyOf(h.conn)] = h.conn
    /\ h.pc = "calling" => child[h.conn] \in {"live", "closing", "dead"}

IInv ==
    /\ TypeOK
    /\ MapsOK
    /\ NoLostChild
    /\ \A t \in Tasks : HandlerOK(task[t])

-----------------------------------------------------------------------------
(* Keys and handlers *)

\* The key of a request is the pair itself.
LEMMA KeyIsPair == \A k \in Keys : proxyConnectionKey(k[1], k[2]) = k
  BY DEF Keys, proxyConnectionKey

\* A connection's key is the root and server its child was spawned for.
LEMMA KeyIsHome == \A c \in Children : KeyOf(c) \in Keys /\ KeyOf(c) = Home[c]
  BY HomeAssumption, KeyIsPair DEF KeyOf

\* The idle handler is a handler.
LEMMA IdleIsTask == Idle \in Task /\ Idle.pc = "idle" /\ Idle.conn = NoChild
  BY DEF Idle, Task

\* A settled handler holds no child and is in no await.
LEMMA SettledIsTask ==
  ASSUME NEW h \in Task
  PROVE  /\ Settled(h) \in Task
         /\ Settled(h).pc \in {"idle", "between"}
         /\ Settled(h).conn = NoChild
  BY IdleIsTask DEF Settled, Task

-----------------------------------------------------------------------------
(* The steps *)

\* An empty pool with idle handlers satisfies the invariant.
LEMMA InitIInv == Init => IInv
  BY IdleIsTask DEF Init, IInv, TypeOK, MapsOK, NoLostChild, HandlerOK, Phases, ChildStates

\* getProxyConnection keeps the invariant, from any handler h that holds no
\* child yet and wants a key.
LEMMA ConnectionStep ==
  ASSUME IInv, NEW t \in Tasks, NEW h \in Task, h.conn = NoChild, h.want \in Keys,
         h.pc \in {"idle", "between"},
         getProxyConnection(t, h)
  PROVE  IInv'
<1> DEFINE key == proxyConnectionKey(h.want[1], h.want[2])
<1>k. key = h.want /\ key \in Keys
  BY KeyIsPair
<1> HIDE DEF key
<1>s. /\ Settled(h) \in Task
      /\ Settled(h).pc \in {"idle", "between"}
      /\ Settled(h).conn = NoChild
  BY SettledIsTask
<1>u. UNCHANGED <<phase, config, connections, catalog, shutdownAwaits>>
  BY DEF getProxyConnection
<1>1. CASE UsePooled(t, key, h)
  <2> DEFINE c == connections[key]
  <2>1. c \in Children /\ Home[c] = h.want /\ child[c] \in {"live", "dead"}
    BY <1>1, <1>k, KeyIsHome DEF UsePooled, IInv, TypeOK, MapsOK
  <2> HIDE DEF c
  <2> DEFINE g == [h EXCEPT !.pc = "calling", !.conn = c]
  <2>2. g \in Task /\ g.pc = "calling" /\ g.conn = c /\ g.want = h.want
    BY <2>1 DEF Task
  <2> HIDE DEF g
  <2>3. task' = [task EXCEPT ![t] = Settled(h)] \/ task' = [task EXCEPT ![t] = g]
    BY <1>1 DEF UsePooled, c, g
  <2>4. UNCHANGED <<pendingConnects, child>>
    BY <1>1 DEF UsePooled
  <2>5. TypeOK'
    BY <1>s, <1>u, <2>2, <2>3, <2>4 DEF IInv, TypeOK
  <2>6. MapsOK' /\ NoLostChild'
    BY <1>u, <2>4 DEF IInv, MapsOK, NoLostChild
  <2>7. \A u \in Tasks : HandlerOK(task[u])'
    BY <1>s, <2>1, <2>2, <2>3, <2>4, NoneAssumption DEF IInv, TypeOK, HandlerOK
  <2> QED BY <2>5, <2>6, <2>7 DEF IInv
<1>2. CASE JoinPending(t, key, h)
  <2> DEFINE c == pendingConnects[key]
  <2>1. c \in Children /\ Home[c] = h.want /\ KeyOf(c) = key
    BY <1>2, <1>k, KeyIsHome DEF JoinPending, IInv, TypeOK, MapsOK
  <2>1a. c = pendingConnects[KeyOf(c)]
    BY <2>1
  <2> HIDE DEF c
  <2> DEFINE g == [h EXCEPT !.pc = "connecting", !.conn = c]
  <2>2. g \in Task /\ g.pc = "connecting" /\ g.conn = c /\ g.want = h.want
    BY <2>1 DEF Task
  <2> HIDE DEF g
  <2>3. task' = [task EXCEPT ![t] = g]
    BY <1>2 DEF JoinPending, c, g
  <2>4. UNCHANGED <<pendingConnects, child>>
    BY <1>2 DEF JoinPending
  <2>5. TypeOK'
    BY <1>u, <2>2, <2>3, <2>4 DEF IInv, TypeOK
  <2>6. MapsOK' /\ NoLostChild'
    BY <1>u, <2>4 DEF IInv, MapsOK, NoLostChild
  <2>7. \A u \in Tasks : HandlerOK(task[u])'
    BY <2>1, <2>1a, <2>2, <2>3, <2>4, NoneAssumption DEF IInv, TypeOK, HandlerOK
  <2> QED BY <2>5, <2>6, <2>7 DEF IInv
<1>3. CASE SpawnChild(t, key, h)
  <2>0. connections[key] = NoChild /\ pendingConnects[key] = NoChild
    BY <1>3 DEF SpawnChild
  <2> PICK c \in Children :
        /\ child[c] = "unborn"
        /\ Home[c] = h.want
        /\ child' = [child EXCEPT ![c] = "connecting"]
        /\ pendingConnects' = [pendingConnects EXCEPT ![key] = c]
        /\ task' = [task EXCEPT ![t] = [h EXCEPT !.pc = "connecting", !.conn = c]]
    BY <1>3 DEF SpawnChild
  <2>1. KeyOf(c) = key /\ c # NoChild
    BY <1>k, KeyIsHome, NoneAssumption
  <2> DEFINE g == [h EXCEPT !.pc = "connecting", !.conn = c]
  <2>2. g \in Task /\ g.pc = "connecting" /\ g.conn = c /\ g.want = h.want
    BY DEF Task
  <2> HIDE DEF g
  <2>3. task' = [task EXCEPT ![t] = g]
    BY DEF g
  <2>5. TypeOK'
    BY <1>u, <1>k, <2>2, <2>3 DEF IInv, TypeOK, ChildStates
  <2>6. MapsOK'
    BY <1>u, <1>k, <2>0, <2>1 DEF IInv, TypeOK, MapsOK
  <2>7. NoLostChild'
    BY <1>u, <1>k, <2>0, <2>1, KeyIsHome, NoneAssumption DEF IInv, TypeOK, NoLostChild
  <2>8. \A u \in Tasks : HandlerOK(task[u])'
    <3> TAKE u \in Tasks
    <3>1. CASE u = t
      BY <3>1, <1>k, <2>1, <2>2, <2>3 DEF IInv, TypeOK, HandlerOK
    <3>2. CASE u # t
      <4>1. task'[u] = task[u] /\ HandlerOK(task[u])
        BY <3>2 DEF IInv, TypeOK
      <4>2. task[u].pc = "connecting" =>
              /\ task[u].conn \in Children
              /\ KeyOf(task[u].conn) \in Keys
              /\ KeyOf(task[u].conn) # key
        BY <4>1, <2>0, KeyIsHome, NoneAssumption DEF IInv, TypeOK, Task, HandlerOK
      <4>3. task[u].pc = "calling" => task[u].conn \in Children /\ task[u].conn # c
        BY <4>1 DEF IInv, TypeOK, Task, HandlerOK
      <4>4. task[u].pc = "connecting" =>
              pendingConnects'[KeyOf(task[u].conn)] = task[u].conn
        BY <4>1, <4>2 DEF IInv, TypeOK, HandlerOK
      <4>5. task[u].pc = "calling" =>
              child'[task[u].conn] \in {"live", "closing", "dead"}
        BY <4>1, <4>3 DEF IInv, TypeOK, HandlerOK
      <4> QED BY <4>1, <4>4, <4>5 DEF HandlerOK, KeyOf, proxyConnectionKey
    <3> QED BY <3>1, <3>2
  <2> QED BY <2>5, <2>6, <2>7, <2>8 DEF IInv
<1>4. CASE RefuseSpawn(t, key, h)
  <2>1. UNCHANGED <<pendingConnects, child>> /\ task' = [task EXCEPT ![t] = Settled(h)]
    BY <1>4 DEF RefuseSpawn
  <2>2. TypeOK' /\ MapsOK' /\ NoLostChild'
    BY <1>s, <1>u, <2>1 DEF IInv, TypeOK, MapsOK, NoLostChild
  <2>3. \A u \in Tasks : HandlerOK(task[u])'
    BY <1>s, <2>1 DEF IInv, TypeOK, HandlerOK
  <2> QED BY <2>2, <2>3 DEF IInv
<1> QED
  BY <1>1, <1>2, <1>3, <1>4 DEF getProxyConnection, key

\* Removing keys from the pool and closing what they held, as a timeout, a
\* refresh and the shutdown do.
LEMMA DropStep ==
  ASSUME IInv, NEW K \in SUBSET Keys,
         connections' = Without(K),
         child' = Closing(Pooled(K)),
         UNCHANGED pendingConnects
  PROVE  /\ connections' \in [Keys -> Children \union {NoChild}]
         /\ child' \in [Children -> ChildStates]
         /\ Pooled(K) \subseteq Children
         /\ MapsOK'
         /\ NoLostChild'
         /\ \A u \in Tasks : task'[u] = task[u] => HandlerOK(task[u])'
<1>1. Pooled(K) \subseteq Children
  BY DEF Pooled, IInv, TypeOK
<1>2. /\ connections' \in [Keys -> Children \union {NoChild}]
      /\ child' \in [Children -> ChildStates]
  BY DEF Without, Closing, IInv, TypeOK, ChildStates
<1>3. \A c \in Children : \/ child'[c] = child[c]
                          \/ child[c] = "live" /\ child'[c] = "closing"
  BY DEF Closing
<1>4. ASSUME NEW k \in Keys, connections'[k] # NoChild
      PROVE  child'[connections'[k]] = child[connections[k]] /\ connections'[k] = connections[k]
  <2>1. k \notin K /\ connections'[k] = connections[k]
    BY <1>4 DEF Without
  <2>2. connections[k] \notin Pooled(K)
    BY <1>4, <2>1 DEF Pooled, IInv, MapsOK
  <2> QED BY <1>4, <2>1, <2>2 DEF Closing, IInv, TypeOK
<1>5. MapsOK'
  <2> SUFFICES ASSUME NEW k \in Keys
               PROVE  /\ connections'[k] # NoChild =>
                            /\ KeyOf(connections'[k]) = k
                            /\ child'[connections'[k]] \in {"live", "dead"}
                            /\ pendingConnects'[k] = NoChild
                      /\ pendingConnects'[k] # NoChild =>
                            /\ KeyOf(pendingConnects'[k]) = k
                            /\ child'[pendingConnects'[k]] \in {"connecting", "closing"}
    BY DEF MapsOK, KeyOf, proxyConnectionKey
  <2>1. connections'[k] # NoChild =>
            /\ KeyOf(connections'[k]) = k
            /\ child'[connections'[k]] \in {"live", "dead"}
            /\ pendingConnects'[k] = NoChild
    BY <1>4 DEF IInv, MapsOK
  <2>2. pendingConnects'[k] # NoChild =>
            /\ KeyOf(pendingConnects'[k]) = k
            /\ child'[pendingConnects'[k]] \in {"connecting", "closing"}
    BY <1>3 DEF IInv, MapsOK, TypeOK
  <2> QED BY <2>1, <2>2
<1>6. NoLostChild'
  <2> SUFFICES ASSUME NEW c \in Children
               PROVE  /\ child'[c] = "connecting" => pendingConnects'[KeyOf(c)] = c
                      /\ child'[c] = "live" => connections'[KeyOf(c)] = c
    BY DEF NoLostChild, KeyOf, proxyConnectionKey
  <2>1. child'[c] = "connecting" => pendingConnects'[KeyOf(c)] = c
    BY <1>3 DEF IInv, NoLostChild
  <2>2. ASSUME child'[c] = "live"
        PROVE  connections'[KeyOf(c)] = c
    <3>1. child[c] = "live" /\ c \notin Pooled(K)
      BY <2>2 DEF Closing
    <3>2. connections[KeyOf(c)] = c /\ KeyOf(c) \in Keys /\ c # NoChild
      BY <3>1, KeyIsHome, NoneAssumption DEF IInv, NoLostChild
    <3>3. KeyOf(c) \notin K
      BY <3>1, <3>2 DEF Pooled
    <3> QED BY <3>2, <3>3 DEF Without
  <2> QED BY <2>1, <2>2
<1>7. ASSUME NEW u \in Tasks, task'[u] = task[u]
      PROVE  HandlerOK(task[u])'
  <2>1. HandlerOK(task[u]) /\ task[u] \in Task
    BY DEF IInv, TypeOK
  <2>2. task[u].pc = "calling" => child'[task[u].conn] \in {"live", "closing", "dead"}
    BY <2>1, <1>3 DEF HandlerOK, Task
  <2> QED BY <1>7, <2>1, <2>2 DEF HandlerOK, KeyOf, proxyConnectionKey
<1> QED BY <1>1, <1>2, <1>5, <1>6, <1>7

\* A step that moves only handlers, and those only to where they hold no child.
LEMMA ReleaseStep ==
  ASSUME IInv,
         UNCHANGED <<phase, config, connections, pendingConnects, child, shutdownAwaits>>,
         catalog' \in SUBSET Children,
         task' \in [Tasks -> Task],
         \A u \in Tasks : \/ task'[u] = task[u]
                          \/ /\ task'[u].conn = NoChild
                             /\ task'[u].pc \notin {"connecting", "calling"}
  PROVE  IInv'
<1>1. TypeOK' /\ MapsOK' /\ NoLostChild'
  BY DEF IInv, TypeOK, MapsOK, NoLostChild
<1>2. \A u \in Tasks : HandlerOK(task[u])'
  BY DEF IInv, HandlerOK
<1> QED BY <1>1, <1>2 DEF IInv

\* The steps of a handler preserve the invariant, one case per action.
LEMMA TaskStepIInv ==
  ASSUME IInv, NEW t \in Tasks, TaskStep(t)
  PROVE  IInv'
<1> USE DEF At
<1>t. task \in [Tasks -> Task] /\ task[t] \in Task /\ HandlerOK(task[t])
  BY DEF IInv, TypeOK
<1>s. /\ Settled(task[t]) \in Task
      /\ Settled(task[t]).pc \in {"idle", "between"}
      /\ Settled(task[t]).conn = NoChild
  BY <1>t, SettledIsTask
<1>1. ASSUME NEW k \in Keys, NEW o \in {"call", "untimed"}, ProxyCall(t, k, o)
      PROVE  IInv'
  <2> DEFINE h == [Idle EXCEPT !.op = o, !.want = k]
  <2>1. /\ h \in Task /\ h.conn = NoChild /\ h.want \in Keys /\ h.pc \in {"idle", "between"}
    BY DEF Idle, Task
  <2>2. getProxyConnection(t, h)
    BY <1>1 DEF ProxyCall
  <2> HIDE DEF h
  <2> QED BY <2>1, <2>2, ConnectionStep
<1>2. ASSUME NEW r \in Roots, StartList(t, r)
      PROVE  IInv'
  <2> PICK K \in TargetSets(r) :
        task' = [task EXCEPT ![t] =
                    [Idle EXCEPT !.pc = "between", !.op = "list", !.todo = K]]
    BY <1>2 DEF StartList
  <2>1. K \subseteq Keys
    BY DEF TargetSets, Targets, Keys
  <2> DEFINE g == [Idle EXCEPT !.pc = "between", !.op = "list", !.todo = K]
  <2>2. g \in Task /\ g.pc = "between" /\ g.conn = NoChild
    BY <2>1 DEF Idle, Task
  <2> HIDE DEF g
  <2>3. task' = [task EXCEPT ![t] = g]
    BY DEF g
  <2>4. /\ UNCHANGED <<phase, config, connections, pendingConnects, child, shutdownAwaits>>
        /\ catalog' \in SUBSET Children
    BY <1>2 DEF StartList, IInv, TypeOK
  <2>5. /\ task' \in [Tasks -> Task]
        /\ \A u \in Tasks : \/ task'[u] = task[u]
                            \/ /\ task'[u].conn = NoChild
                               /\ task'[u].pc \notin {"connecting", "calling"}
    BY <1>t, <2>2, <2>3
  <2> QED BY <2>4, <2>5, ReleaseStep
<1>3. CASE ListNext(t)
  <2> PICK k \in task[t].todo :
        getProxyConnection(t, [task[t] EXCEPT !.todo = @ \ {k}, !.want = k])
    BY <1>3 DEF ListNext
  <2> DEFINE h == [task[t] EXCEPT !.todo = @ \ {k}, !.want = k]
  <2>1. task[t].pc = "between" /\ task[t].conn = NoChild /\ k \in Keys
    BY <1>3, <1>t DEF ListNext, Task, HandlerOK
  <2>2. h \in Task /\ h.conn = NoChild /\ h.want \in Keys /\ h.pc \in {"idle", "between"}
    BY <1>t, <2>1 DEF Task
  <2>3. getProxyConnection(t, h)
    OBVIOUS
  <2> HIDE DEF h
  <2> QED BY <2>2, <2>3, ConnectionStep
<1>4. CASE ListEnd(t)
  BY <1>4, <1>t, IdleIsTask, ReleaseStep DEF ListEnd, IInv, TypeOK
<1>5. ASSUME NEW r \in Roots, NEW named \in BOOLEAN, Refresh(t, r, named)
      PROVE  IInv'
  <2> DEFINE K == RefreshKeys(r, named)
  <2>1. K \in SUBSET Keys
    BY DEF RefreshKeys
  <2>2. /\ connections' = Without(K)
        /\ child' = Closing(Pooled(K))
        /\ UNCHANGED <<phase, config, pendingConnects, catalog, shutdownAwaits>>
    BY <1>5 DEF Refresh
  <2> PICK T \in TargetSets(r) :
        task' = [task EXCEPT ![t] =
                    [Idle EXCEPT !.pc = "closing", !.op = "list", !.todo = T,
                                 !.awaits = Pooled(K)]]
    BY <1>5 DEF Refresh
  <2>3. T \subseteq Keys
    BY DEF TargetSets, Targets, Keys
  <2> HIDE DEF K
  <2>4. /\ connections' \in [Keys -> Children \union {NoChild}]
        /\ child' \in [Children -> ChildStates]
        /\ Pooled(K) \subseteq Children
        /\ MapsOK'
        /\ NoLostChild'
        /\ \A u \in Tasks : task'[u] = task[u] => HandlerOK(task[u])'
    BY <2>1, <2>2, DropStep
  <2> DEFINE g == [Idle EXCEPT !.pc = "closing", !.op = "list", !.todo = T,
                               !.awaits = Pooled(K)]
  <2>5. g \in Task /\ g.pc = "closing" /\ g.conn = NoChild
    BY <2>3, <2>4 DEF Idle, Task
  <2> HIDE DEF g
  <2>6. task' = [task EXCEPT ![t] = g]
    BY DEF g
  <2>7. TypeOK'
    BY <2>2, <2>4, <2>5, <2>6 DEF IInv, TypeOK
  <2>8. \A u \in Tasks : HandlerOK(task[u])'
    <3>1. HandlerOK(task[t])'
      BY <1>t, <2>5, <2>6 DEF HandlerOK
    <3>2. \A u \in Tasks : u # t => task'[u] = task[u]
      BY <1>t, <2>6
    <3> QED BY <3>1, <3>2, <2>4
  <2> QED BY <2>4, <2>7, <2>8 DEF IInv
<1>6. CASE RefreshClosed(t)
  <2> DEFINE g == [task[t] EXCEPT !.pc = "between", !.awaits = {}]
  <2>1. g \in Task /\ g.pc = "between" /\ g.conn = NoChild
    BY <1>6, <1>t DEF RefreshClosed, Task, HandlerOK
  <2>2. task' = [task EXCEPT ![t] = g]
    BY <1>6, <1>t DEF RefreshClosed, Task
  <2> HIDE DEF g
  <2> QED BY <1>6, <1>t, <2>1, <2>2, ReleaseStep DEF RefreshClosed, IInv, TypeOK
<1>7. CASE Answer(t)
  <2>1. task[t].conn \in Children
    BY <1>7, <1>t DEF Answer, HandlerOK, Task
  <2> QED BY <1>7, <1>t, <1>s, <2>1, ReleaseStep DEF Answer, IInv, TypeOK
<1>8. CASE RequestRejected(t)
  BY <1>8, <1>t, <1>s, ReleaseStep DEF RequestRejected, IInv, TypeOK
<1>9. CASE CallTimeout(t)
  <2> DEFINE K == {KeyOf(task[t].conn)}
  <2>1. K \in SUBSET Keys
    BY <1>9, <1>t, KeyIsHome DEF CallTimeout, HandlerOK, Task
  <2>2. /\ connections' = Without(K)
        /\ child' = Closing(Pooled(K))
        /\ UNCHANGED <<phase, config, pendingConnects, catalog, shutdownAwaits>>
        /\ task' = [task EXCEPT ![t] = Idle]
    BY <1>9 DEF CallTimeout, Wedged
  <2> HIDE DEF K
  <2>3. /\ connections' \in [Keys -> Children \union {NoChild}]
        /\ child' \in [Children -> ChildStates]
        /\ MapsOK'
        /\ NoLostChild'
        /\ \A u \in Tasks : task'[u] = task[u] => HandlerOK(task[u])'
    BY <2>1, <2>2, DropStep
  <2>4. TypeOK'
    BY <2>2, <2>3, IdleIsTask DEF IInv, TypeOK
  <2>5. \A u \in Tasks : HandlerOK(task[u])'
    <3>1. HandlerOK(task[t])'
      BY <1>t, <2>2, IdleIsTask DEF HandlerOK
    <3>2. \A u \in Tasks : u # t => task'[u] = task[u]
      BY <1>t, <2>2
    <3> QED BY <3>1, <3>2, <2>3
  <2> QED BY <2>3, <2>4, <2>5 DEF IInv
<1> QED
  BY <1>1, <1>2, <1>3, <1>4, <1>5, <1>6, <1>7, <1>8, <1>9 DEF TaskStep

\* The settling and the death of a child preserve the invariant.
LEMMA ChildStepIInv ==
  ASSUME IInv, NEW c \in Children, ChildStep(c)
  PROVE  IInv'
<1> USE DEF InState
<1>k. KeyOf(c) \in Keys /\ KeyOf(c) = Home[c] /\ c # NoChild
  BY KeyIsHome, NoneAssumption
<1>t. \A u \in Tasks : task[u] \in Task /\ HandlerOK(task[u])
  BY DEF IInv, TypeOK
<1>1. CASE ConnectOk(c)
  <2>1. /\ child[c] = "connecting"
        /\ pendingConnects[KeyOf(c)] = c
        /\ connections[KeyOf(c)] = NoChild
    BY <1>1, <1>k DEF ConnectOk, IInv, NoLostChild, MapsOK
  <2>2. /\ child' = [child EXCEPT ![c] = "live"]
        /\ connections' = [connections EXCEPT ![KeyOf(c)] = c]
        /\ pendingConnects' = [pendingConnects EXCEPT ![KeyOf(c)] = NoChild]
        /\ task' = [u \in Tasks |->
                      IF task[u].conn = c THEN [task[u] EXCEPT !.pc = "calling"] ELSE task[u]]
        /\ UNCHANGED <<phase, config, catalog, shutdownAwaits>>
    BY <1>1 DEF ConnectOk
  <2>3. \A u \in Tasks :
          /\ task'[u] \in Task
          /\ task'[u].conn = task[u].conn
          /\ task'[u].want = task[u].want
          /\ task'[u].pc = IF task[u].conn = c THEN "calling" ELSE task[u].pc
    <3> SUFFICES ASSUME NEW u \in Tasks
                 PROVE  /\ task'[u] \in Task
                        /\ task'[u].conn = task[u].conn
                        /\ task'[u].want = task[u].want
                        /\ task'[u].pc = IF task[u].conn = c THEN "calling" ELSE task[u].pc
      OBVIOUS
    <3> DEFINE g == [task[u] EXCEPT !.pc = "calling"]
    <3>1. g \in Task /\ g.pc = "calling" /\ g.conn = task[u].conn /\ g.want = task[u].want
      BY <1>t DEF Task
    <3>2. task'[u] = IF task[u].conn = c THEN g ELSE task[u]
      BY <2>2
    <3> HIDE DEF g
    <3> QED BY <1>t, <3>1, <3>2
  <2>4. TypeOK'
    <3>1. task' \in [Tasks -> Task]
      BY <2>2, <2>3
    <3> QED BY <1>k, <2>2, <3>1 DEF IInv, TypeOK, ChildStates
  <2>5. MapsOK'
    BY <1>k, <2>1, <2>2, KeyIsHome, NoneAssumption DEF IInv, TypeOK, MapsOK
  <2>6. NoLostChild'
    BY <1>k, <2>1, <2>2, KeyIsHome, NoneAssumption DEF IInv, TypeOK, NoLostChild
  <2>7. ASSUME NEW u \in Tasks
        PROVE  HandlerOK(task[u])'
    <3>1. CASE task[u].conn = c
      BY <3>1, <1>k, <1>t, <2>2, <2>3 DEF HandlerOK, IInv, TypeOK
    <3>2. CASE task[u].conn # c
      <4>1. task[u].pc = "connecting" =>
              /\ task[u].conn \in Children
              /\ KeyOf(task[u].conn) \in Keys
              /\ KeyOf(task[u].conn) # KeyOf(c)
        BY <1>t, <3>2, <2>1, KeyIsHome DEF Task, HandlerOK
      <4>2. task[u].pc = "connecting" =>
              pendingConnects'[KeyOf(task[u].conn)] = task[u].conn
        BY <1>t, <4>1, <2>2 DEF HandlerOK, IInv, TypeOK
      <4>3. task[u].pc = "calling" =>
              child'[task[u].conn] \in {"live", "closing", "dead"}
        BY <1>t, <3>2, <2>2 DEF HandlerOK, IInv, TypeOK, Task
      <4> QED BY <1>t, <3>2, <4>2, <4>3, <2>3 DEF HandlerOK, KeyOf, proxyConnectionKey
    <3> QED BY <3>1, <3>2
  <2> QED BY <2>4, <2>5, <2>6, <2>7 DEF IInv
<1>2. CASE ConnectFail(c)
  <2>1. /\ child[c] = "connecting"
        /\ child' = [child EXCEPT ![c] = "closing"]
        /\ UNCHANGED <<phase, config, connections, pendingConnects, catalog, task,
                       shutdownAwaits>>
    BY <1>2 DEF ConnectFail
  <2>2. TypeOK'
    BY <2>1 DEF IInv, TypeOK, ChildStates
  <2>3. MapsOK' /\ NoLostChild'
    BY <2>1 DEF IInv, TypeOK, MapsOK, NoLostChild
  <2>4. \A u \in Tasks : HandlerOK(task[u])'
    BY <1>t, <2>1 DEF IInv, TypeOK, HandlerOK, Task
  <2> QED BY <2>2, <2>3, <2>4 DEF IInv
<1>d. ASSUME task' = SettleAllOn(c)
      PROVE  \A u \in Tasks :
                /\ task'[u] \in Task
                /\ \/ task'[u] = task[u] /\ task[u].conn # c
                   \/ task'[u].pc \in {"idle", "between"} /\ task'[u].conn = NoChild
  BY <1>d, <1>t, SettledIsTask DEF SettleAllOn
<1>3. CASE CloseDone(c)
  <2>1. /\ child[c] = "closing"
        /\ child' = [child EXCEPT ![c] = "dead"]
        /\ pendingConnects' =
            [k \in Keys |-> IF pendingConnects[k] = c THEN NoChild ELSE pendingConnects[k]]
        /\ task' = SettleAllOn(c)
        /\ UNCHANGED <<phase, config, connections, catalog, shutdownAwaits>>
    BY <1>3 DEF CloseDone
  <2>2. TypeOK'
    <3>1. task' \in [Tasks -> Task]
      BY <1>d, <2>1 DEF SettleAllOn
    <3> QED BY <2>1, <3>1 DEF IInv, TypeOK, ChildStates
  <2>3. MapsOK'
    BY <1>k, <2>1 DEF IInv, TypeOK, MapsOK
  <2>4. NoLostChild'
    BY <1>k, <2>1, KeyIsHome DEF IInv, TypeOK, NoLostChild
  <2>5. ASSUME NEW u \in Tasks
        PROVE  HandlerOK(task[u])'
    <3>1. CASE task'[u].pc \in {"idle", "between"} /\ task'[u].conn = NoChild
      BY <3>1 DEF HandlerOK
    <3>2. CASE task'[u] = task[u] /\ task[u].conn # c
      <4>1. task[u].pc = "connecting" =>
              pendingConnects'[KeyOf(task[u].conn)] = task[u].conn
        BY <1>t, <3>2, <2>1, KeyIsHome DEF HandlerOK, Task
      <4>2. task[u].pc = "calling" =>
              child'[task[u].conn] \in {"live", "closing", "dead"}
        BY <1>t, <3>2, <2>1 DEF HandlerOK, IInv, TypeOK, Task
      <4> QED BY <1>t, <3>2, <4>1, <4>2 DEF HandlerOK, KeyOf, proxyConnectionKey
    <3> QED BY <3>1, <3>2, <1>d, <2>1
  <2> QED BY <2>2, <2>3, <2>4, <2>5 DEF IInv
<1>4. CASE Crash(c)
  <2>1. /\ child[c] = "live"
        /\ child' = [child EXCEPT ![c] = "dead"]
        /\ task' = SettleAllOn(c)
        /\ UNCHANGED <<phase, config, connections, pendingConnects, catalog, shutdownAwaits>>
    BY <1>4 DEF Crash
  <2>2. TypeOK'
    <3>1. task' \in [Tasks -> Task]
      BY <1>d, <2>1 DEF SettleAllOn
    <3> QED BY <2>1, <3>1 DEF IInv, TypeOK, ChildStates
  <2>3. MapsOK' /\ NoLostChild'
    BY <1>k, <2>1 DEF IInv, TypeOK, MapsOK, NoLostChild
  <2>4. ASSUME NEW u \in Tasks
        PROVE  HandlerOK(task[u])'
    <3>1. CASE task'[u].pc \in {"idle", "between"} /\ task'[u].conn = NoChild
      BY <3>1 DEF HandlerOK
    <3>2. CASE task'[u] = task[u] /\ task[u].conn # c
      <4>1. task[u].pc = "calling" =>
              child'[task[u].conn] \in {"live", "closing", "dead"}
        BY <1>t, <3>2, <2>1 DEF HandlerOK, IInv, TypeOK, Task
      <4> QED BY <1>t, <3>2, <4>1, <2>1 DEF HandlerOK, KeyOf, proxyConnectionKey
    <3> QED BY <3>1, <3>2, <1>d, <2>1
  <2> QED BY <2>2, <2>3, <2>4 DEF IInv
<1> QED
  BY <1>1, <1>2, <1>3, <1>4 DEF ChildStep

\* The edits of the config and the shutdown preserve the invariant.
LEMMA ProcessStepIInv ==
  ASSUME IInv, ProcessStep
  PROVE  IInv'
<1>1. ASSUME UNCHANGED <<connections, pendingConnects, child, catalog, task, shutdownAwaits>>,
             config' \in [Roots -> SUBSET Servers], phase' \in Phases
      PROVE  IInv'
  BY <1>1 DEF IInv, TypeOK, MapsOK, NoLostChild, HandlerOK
<1>2. ASSUME NEW r \in Roots, NEW s \in Servers, EditConfig(r, s)
      PROVE  IInv'
  <2>1. config' \in [Roots -> SUBSET Servers]
    BY <1>2 DEF EditConfig, IInv, TypeOK
  <2> QED BY <1>1, <1>2, <2>1 DEF EditConfig, IInv, TypeOK
<1>3. CASE Shutdown \/ Exit
  BY <1>1, <1>3 DEF Shutdown, Exit, IInv, TypeOK, Phases
<1>4. CASE closeAllProxies
  <2>1. /\ connections' = Without(Keys)
        /\ child' = Closing(Pooled(Keys))
        /\ phase' = "closing"
        /\ shutdownAwaits' = Pooled(Keys)
        /\ UNCHANGED <<config, pendingConnects, catalog, task>>
    BY <1>4 DEF closeAllProxies
  <2>2. /\ connections' \in [Keys -> Children \union {NoChild}]
        /\ child' \in [Children -> ChildStates]
        /\ Pooled(Keys) \subseteq Children
        /\ MapsOK'
        /\ NoLostChild'
        /\ \A u \in Tasks : task'[u] = task[u] => HandlerOK(task[u])'
    BY <2>1, DropStep
  <2>3. TypeOK'
    BY <2>1, <2>2 DEF IInv, TypeOK, Phases
  <2>4. \A u \in Tasks : HandlerOK(task[u])'
    BY <2>1, <2>2
  <2> QED BY <2>2, <2>3, <2>4 DEF IInv
<1> QED
  BY <1>2, <1>3, <1>4 DEF ProcessStep

-----------------------------------------------------------------------------
(* The theorems *)

\* IInv is inductive, so every reachable state satisfies it.
THEOREM PoolInvariant == Spec => []IInv
<1>1. IInv /\ [Next]_vars => IInv'
  <2> SUFFICES ASSUME IInv, [Next]_vars
               PROVE  IInv'
    OBVIOUS
  <2>1. CASE UNCHANGED vars
    BY <2>1 DEF vars, IInv, TypeOK, MapsOK, NoLostChild, HandlerOK
  <2>2. CASE Next
    BY <2>2, TaskStepIInv, ChildStepIInv, ProcessStepIInv DEF Next
  <2> QED BY <2>1, <2>2
<1> QED BY InitIInv, <1>1, PTL DEF Spec

\* Every variable keeps its type.
THEOREM PoolTypes == Spec => []TypeOK
<1>1. IInv => TypeOK
  BY DEF IInv
<1> QED BY <1>1, PoolInvariant, PTL

\* No downstream process is ever started or live without being registered.
THEOREM PoolLosesNoChild == Spec => []NoLostChild
<1>1. IInv => NoLostChild
  BY DEF IInv
<1> QED BY <1>1, PoolInvariant, PTL

\* A root and server pair never has two processes starting or live.
THEOREM PoolSpawnsOnce == Spec => []OneOpenChild
<1>1. IInv => OneOpenChild
  <2> SUFFICES ASSUME IInv, NEW c \in Children, NEW d \in Children,
                      child[c] \in {"connecting", "live"},
                      child[d] \in {"connecting", "live"},
                      Home[c] = Home[d]
               PROVE  c = d
    BY DEF OneOpenChild
  <2>1. KeyOf(c) = KeyOf(d) /\ KeyOf(c) \in Keys /\ c # NoChild /\ d # NoChild
    BY KeyIsHome, NoneAssumption
  <2>2. \A e \in {c, d} : pendingConnects[KeyOf(c)] = e \/ connections[KeyOf(c)] = e
    BY <2>1 DEF IInv, NoLostChild
  <2> QED BY <2>1, <2>2 DEF IInv, MapsOK
<1> QED BY <1>1, PoolInvariant, PTL

\* A child that is being closed is never in the pool.
THEOREM PoolHoldsNoClosing == Spec => []NoClosingChildPooled
<1>1. IInv => NoClosingChildPooled
  BY DEF IInv, MapsOK, NoClosingChildPooled
<1> QED BY <1>1, PoolInvariant, PTL

\* A handler holds only a child of the project and server it asked for.
THEOREM PoolIsolatesProjects == Spec => []ProjectIsolation
<1>1. IInv => ProjectIsolation
  BY DEF IInv, HandlerOK, ProjectIsolation
<1> QED BY <1>1, PoolInvariant, PTL

\* A handler that awaits a connect promise awaits the registered one.
THEOREM PoolStrandsNobody == Spec => []NoStrandedCaller
<1>1. IInv => NoStrandedCaller
  <2> SUFFICES ASSUME IInv, NEW t \in Tasks, task[t].pc = "connecting"
               PROVE  pendingConnects[proxyConnectionKey(task[t].want[1], task[t].want[2])]
                        = task[t].conn
    BY DEF NoStrandedCaller
  <2>1. task[t] \in Task /\ HandlerOK(task[t])
    BY DEF IInv, TypeOK
  <2>2. task[t].conn \in Children
    BY <2>1 DEF HandlerOK, Task
  <2> QED BY <2>1, <2>2 DEF HandlerOK, KeyOf
<1> QED BY <1>1, PoolInvariant, PTL

-----------------------------------------------------------------------------
(* The pool implements SingleFlight *)

StartedNow == {c \in Children : child[c] # "unborn"}

\* getProxyConnection leaves the slots alone, or begins an attempt.
LEMMA ConnectionRefines ==
  ASSUME IInv, NEW t \in Tasks, NEW h \in Task, h.want \in Keys,
         getProxyConnection(t, h)
  PROVE  [Slots!Next]_(Slots!slots)
<1> DEFINE key == proxyConnectionKey(h.want[1], h.want[2])
<1>k. key = h.want /\ key \in Keys
  BY KeyIsPair
<1> HIDE DEF key
<1>c. connections' = connections
  BY DEF getProxyConnection
<1>1. CASE UsePooled(t, key, h) \/ JoinPending(t, key, h) \/ RefuseSpawn(t, key, h)
  BY <1>1, <1>c DEF UsePooled, JoinPending, RefuseSpawn, Slots!slots
<1>2. CASE SpawnChild(t, key, h)
  <2>1. connections[key] = NoChild /\ pendingConnects[key] = NoChild
    BY <1>2 DEF SpawnChild
  <2> PICK c \in Children :
        /\ child[c] = "unborn"
        /\ child' = [child EXCEPT ![c] = "connecting"]
        /\ pendingConnects' = [pendingConnects EXCEPT ![key] = c]
    BY <1>2 DEF SpawnChild
  <2>2. StartedNow' = StartedNow \union {c} /\ c \notin StartedNow
    BY DEF StartedNow, IInv, TypeOK
  <2>3. Slots!Begin(key, c)
    BY <1>c, <2>1, <2>2 DEF Slots!Begin, StartedNow
  <2> QED BY <1>k, <2>3 DEF Slots!Next
<1> QED BY <1>1, <1>2 DEF getProxyConnection, key

\* Dropping keys releases them and starts nothing.
LEMMA DropRefines ==
  ASSUME IInv, NEW K \in SUBSET Keys,
         connections' = Without(K),
         child' = Closing(Pooled(K)),
         UNCHANGED pendingConnects
  PROVE  Slots!Next
<1>1. StartedNow' = StartedNow
  BY DEF StartedNow, Closing
<1>2. Slots!Release(K)
  BY <1>1 DEF Slots!Release, StartedNow, Without
<1> QED BY <1>2 DEF Slots!Next

\* The pool is a SingleFlight slot for every key.
THEOREM PoolIsSingleFlight == Spec => SingleFlightPerKey
<1>1. Init => Slots!Init
  BY DEF Init, Slots!Init
<1>2. IInv /\ [Next]_vars => [Slots!Next]_(Slots!slots)
  <2> SUFFICES ASSUME IInv, [Next]_vars
               PROVE  [Slots!Next]_(Slots!slots)
    OBVIOUS
  <2> USE DEF At, InState
  <2>1. ASSUME UNCHANGED <<connections, pendingConnects, child>>
        PROVE  [Slots!Next]_(Slots!slots)
    BY <2>1 DEF Slots!slots
  <2>2. ASSUME NEW t \in Tasks, NEW k \in Keys, NEW o \in {"call", "untimed"},
               ProxyCall(t, k, o)
        PROVE  [Slots!Next]_(Slots!slots)
    <3> DEFINE h == [Idle EXCEPT !.op = o, !.want = k]
    <3>1. h \in Task /\ h.want \in Keys
      BY DEF Idle, Task
    <3>2. getProxyConnection(t, h)
      BY <2>2 DEF ProxyCall
    <3> HIDE DEF h
    <3> QED BY <3>1, <3>2, ConnectionRefines
  <2>3. ASSUME NEW t \in Tasks, ListNext(t)
        PROVE  [Slots!Next]_(Slots!slots)
    <3> PICK k \in task[t].todo :
          getProxyConnection(t, [task[t] EXCEPT !.todo = @ \ {k}, !.want = k])
      BY <2>3 DEF ListNext
    <3> DEFINE h == [task[t] EXCEPT !.todo = @ \ {k}, !.want = k]
    <3>1. task[t] \in Task /\ k \in Keys
      BY DEF IInv, TypeOK, Task
    <3>2. h \in Task /\ h.want \in Keys /\ getProxyConnection(t, h)
      BY <3>1 DEF Task
    <3> HIDE DEF h
    <3> QED BY <3>2, ConnectionRefines
  <2>4. ASSUME NEW t \in Tasks, NEW r \in Roots, NEW named \in BOOLEAN, Refresh(t, r, named)
        PROVE  [Slots!Next]_(Slots!slots)
    <3>1. RefreshKeys(r, named) \in SUBSET Keys
      BY DEF RefreshKeys
    <3> QED BY <2>4, <3>1, DropRefines DEF Refresh
  <2>5. ASSUME NEW t \in Tasks, CallTimeout(t)
        PROVE  [Slots!Next]_(Slots!slots)
    <3>1. {KeyOf(task[t].conn)} \in SUBSET Keys
      BY <2>5, KeyIsHome DEF CallTimeout, IInv, TypeOK, HandlerOK, Task
    <3> QED BY <2>5, <3>1, DropRefines DEF CallTimeout, Wedged
  <2>6. CASE closeAllProxies
    BY <2>6, DropRefines DEF closeAllProxies
  <2>7. ASSUME NEW c \in Children, ConnectOk(c)
        PROVE  [Slots!Next]_(Slots!slots)
    <3>1. KeyOf(c) \in Keys /\ c # NoChild /\ pendingConnects[KeyOf(c)] = c
      BY <2>7, KeyIsHome, NoneAssumption DEF ConnectOk, IInv, NoLostChild
    <3>2. StartedNow' = StartedNow
      BY <2>7 DEF ConnectOk, StartedNow, IInv, TypeOK
    <3>3. Slots!Serve(KeyOf(c))
      BY <2>7, <3>1, <3>2 DEF ConnectOk, Slots!Serve, StartedNow
    <3> QED BY <3>1, <3>3 DEF Slots!Next
  <2>8. ASSUME NEW c \in Children, ConnectFail(c) \/ Crash(c)
        PROVE  [Slots!Next]_(Slots!slots)
    <3>1. StartedNow' = StartedNow /\ UNCHANGED <<connections, pendingConnects>>
      BY <2>8 DEF ConnectFail, Crash, StartedNow, IInv, TypeOK
    <3> QED BY <3>1 DEF Slots!slots, StartedNow
  <2>9. ASSUME NEW c \in Children, CloseDone(c)
        PROVE  [Slots!Next]_(Slots!slots)
    <3>1. StartedNow' = StartedNow /\ connections' = connections
      BY <2>9 DEF CloseDone, StartedNow, IInv, TypeOK
    <3>2. c # NoChild /\ KeyOf(c) \in Keys
      BY KeyIsHome, NoneAssumption
    <3>3. \A k \in Keys : pendingConnects[k] = c => k = KeyOf(c)
      BY <3>2 DEF IInv, MapsOK
    <3>4. CASE pendingConnects[KeyOf(c)] = c
      <4>1. pendingConnects' = [pendingConnects EXCEPT ![KeyOf(c)] = NoChild]
        BY <2>9, <3>2, <3>3, <3>4 DEF CloseDone, IInv, TypeOK
      <4>2. Slots!GiveUp(KeyOf(c))
        BY <3>1, <3>2, <3>4, <4>1 DEF Slots!GiveUp, StartedNow
      <4> QED BY <3>2, <4>2 DEF Slots!Next
    <3>5. CASE pendingConnects[KeyOf(c)] # c
      <4>1. pendingConnects' = pendingConnects
        BY <2>9, <3>3, <3>5 DEF CloseDone, IInv, TypeOK
      <4> QED BY <3>1, <4>1 DEF Slots!slots, StartedNow
    <3> QED BY <3>4, <3>5
  <2>10. ASSUME NEW t \in Tasks, TaskStep(t)
         PROVE  [Slots!Next]_(Slots!slots)
    <3>1. ASSUME NEW r \in Roots, StartList(t, r)
          PROVE  [Slots!Next]_(Slots!slots)
      BY <2>1, <3>1 DEF StartList
    <3>2. CASE ListEnd(t) \/ RefreshClosed(t) \/ Answer(t) \/ RequestRejected(t)
      BY <2>1, <3>2 DEF ListEnd, RefreshClosed, Answer, RequestRejected
    <3> QED BY <2>10, <2>2, <2>3, <2>4, <2>5, <3>1, <3>2 DEF TaskStep
  <2>11. CASE UNCHANGED vars
    BY <2>1, <2>11 DEF vars
  <2>12. CASE ProcessStep
    BY <2>1, <2>6, <2>12 DEF ProcessStep, EditConfig, Shutdown, Exit
  <2>13. ASSUME NEW c \in Children, ChildStep(c)
         PROVE  [Slots!Next]_(Slots!slots)
    BY <2>7, <2>8, <2>9, <2>13 DEF ChildStep
  <2> QED BY <2>10, <2>11, <2>12, <2>13 DEF Next
<1> QED
  BY <1>1, <1>2, PoolInvariant, PTL DEF Spec, SingleFlightPerKey, Slots!Spec

=============================================================================
