----------------------------- MODULE ProxyPool -----------------------------
(***************************************************************************)
(* The pool of downstream MCP servers: lib/proxyClient.ts, the handlers of *)
(* tools/proxyTools.ts that drive it and the part of main.ts's             *)
(* gracefulShutdown that empties it.                                       *)
(*                                                                         *)
(* A task is one request handler.  The event loop runs one handler at a    *)
(* time and up to its next await, so an action is the code between two     *)
(* awaits.  A child is one spawned process with its SDK Client and         *)
(* transport; the SDK is modelled from the way proxyClient.ts uses it.     *)
(***************************************************************************)
EXTENDS Naturals, FiniteSets

CONSTANTS
    Roots,          \* canonical project roots
    Servers,        \* names of servers in proxy-servers.json
    DefaultRoot,    \* the root of a request that names none
    Tasks,          \* handlers that may run at the same time
    Children,       \* child processes: the bound on the number of spawns
    Home,           \* the root and server each child is spawned for
    NoChild, NoKey  \* "no entry"

Keys == Roots \X Servers

ASSUME RootAssumption == DefaultRoot \in Roots
ASSUME HomeAssumption == Home \in [Children -> Keys]
ASSUME NoneAssumption == NoChild \notin Children /\ NoKey \notin Keys

VARIABLES
    phase,            \* of the Gate process
    config,           \* config[r]: servers of r's config that are not disabled
    connections,      \* the live connection pool: key -> child
    pendingConnects,  \* in-flight connection attempts: key -> child
    child,            \* what the process of each child is doing
    catalog,          \* children whose LiveConnection has its tools cached
    task,             \* the handlers: where each one waits, and its locals
    shutdownAwaits    \* children whose close() gracefulShutdown awaits

vars == <<phase, config, connections, pendingConnects, child, catalog, task,
          shutdownAwaits>>

Phases == {"running", "draining", "closing", "exited"}
ChildStates == {"unborn", "connecting", "live", "closing", "dead"}

\* op is "call" (raced against a timer), "untimed" (timeoutMs <= 0) or "list".
Task == [pc : {"idle", "connecting", "calling", "between", "closing"},
         op : {"call", "untimed", "list"},
         want : Keys \union {NoKey},          \* root and server asked for
         conn : Children \union {NoChild},    \* promise or connection held
         todo : SUBSET Keys,                  \* list loop: still to visit
         awaits : SUBSET Children]            \* refresh: closes awaited

Idle == [pc |-> "idle", op |-> "call", want |-> NoKey, conn |-> NoChild,
         todo |-> {}, awaits |-> {}]

TypeOK ==
    /\ phase \in Phases
    /\ config \in [Roots -> SUBSET Servers]
    /\ connections \in [Keys -> Children \union {NoChild}]
    /\ pendingConnects \in [Keys -> Children \union {NoChild}]
    /\ child \in [Children -> ChildStates]
    /\ catalog \in SUBSET Children
    /\ task \in [Tasks -> Task]
    /\ shutdownAwaits \in SUBSET Children

Init ==
    /\ phase = "running"
    /\ config \in [Roots -> SUBSET Servers]
    /\ connections = [k \in Keys |-> NoChild]
    /\ pendingConnects = [k \in Keys |-> NoChild]
    /\ child = [c \in Children |-> "unborn"]
    /\ catalog = {}
    /\ task = [t \in Tasks |-> Idle]
    /\ shutdownAwaits = {}

-----------------------------------------------------------------------------
(* Helpers *)

\* Nothing of Gate runs any more once it has exited.
At(t, pc) == phase # "exited" /\ task[t].pc = pc
InState(c, s) == phase # "exited" /\ child[c] = s

\* Mutant of proxyConnectionKey: the pool keyed by server name alone.
KeyWithoutRoot(root, server) == <<DefaultRoot, server>>

proxyConnectionKey(root, server) == <<root, server>>

\* conn.key
KeyOf(c) == proxyConnectionKey(Home[c][1], Home[c][2])

\* A handler whose await has settled, with a result or an error: a proxied
\* call ends, the loop of gate_proxy_tools catches the error and goes on.
Settled(h) ==
    IF h.op = "list"
    THEN [h EXCEPT !.pc = "between", !.want = NoKey, !.conn = NoChild]
    ELSE Idle

\* Mutant of SettleAllOn: only one of those who wait is told.
SettleOneOn(c) ==
    IF \E t \in Tasks : task[t].conn = c
    THEN LET t == CHOOSE u \in Tasks : task[u].conn = c
         IN  [task EXCEPT ![t] = Settled(task[t])]
    ELSE task

\* The death of a child settles the connect promise that callers share and
\* every request sent to it (the SDK's onclose).
SettleAllOn(c) ==
    [t \in Tasks |-> IF task[t].conn = c THEN Settled(task[t]) ELSE task[t]]

\* client.close() and transport.close() on the children of S: a live child
\* starts to close, on a dead one they do nothing.
Closing(S) ==
    [c \in Children |-> IF c \in S /\ child[c] = "live" THEN "closing" ELSE child[c]]

\* Mutant of Without: close the children but leave them in the pool.
WithoutNothing(K) == connections

\* Mutant of Pooled: close whatever the map returns, an absent entry too.
PooledUnchecked(K) == {connections[k] : k \in K}

\* The pool without the keys of K, and what it held under them.
Without(K) == [k \in Keys |-> IF k \in K THEN NoChild ELSE connections[k]]
Pooled(K) == {connections[k] : k \in K} \ {NoChild}

-----------------------------------------------------------------------------
(* getProxyConnection for handler t, whose locals become h once it waits *)

\* A pooled connection is returned as it is; a cached catalog needs no request.
UsePooled(t, key, h) ==
    /\ connections[key] # NoChild
    /\ LET c == connections[key] IN
        task' = [task EXCEPT ![t] =
                    IF h.op = "list" /\ c \in catalog
                    THEN Settled(h)
                    ELSE [h EXCEPT !.pc = "calling", !.conn = c]]
    /\ UNCHANGED <<pendingConnects, child>>

\* Concurrent callers share the promise of the spawn under way.
JoinPending(t, key, h) ==
    /\ connections[key] = NoChild
    /\ pendingConnects[key] # NoChild
    /\ task' = [task EXCEPT ![t] =
                    [h EXCEPT !.pc = "connecting", !.conn = pendingConnects[key]]]
    /\ UNCHANGED <<pendingConnects, child>>

\* Mutant of SpawnChild: no look at pendingConnects first.
SpawnAnyway(t, key, h) ==
    /\ connections[key] = NoChild
    /\ h.want[2] \in config[h.want[1]]
    /\ \E c \in Children :
        /\ child[c] = "unborn"
        /\ Home[c] = h.want
        /\ child' = [child EXCEPT ![c] = "connecting"]
        /\ pendingConnects' = [pendingConnects EXCEPT ![key] = c]
        /\ task' = [task EXCEPT ![t] = [h EXCEPT !.pc = "connecting", !.conn = c]]

\* Neither: spawn, and publish the promise before anybody else runs.
SpawnChild(t, key, h) ==
    /\ connections[key] = NoChild
    /\ pendingConnects[key] = NoChild
    /\ h.want[2] \in config[h.want[1]]
    /\ \E c \in Children :
        /\ child[c] = "unborn"
        /\ Home[c] = h.want
        /\ child' = [child EXCEPT ![c] = "connecting"]
        /\ pendingConnects' = [pendingConnects EXCEPT ![key] = c]
        /\ task' = [task EXCEPT ![t] = [h EXCEPT !.pc = "connecting", !.conn = c]]

\* Or throw: the server is unknown or disabled, or the config is unreadable.
RefuseSpawn(t, key, h) ==
    /\ connections[key] = NoChild
    /\ pendingConnects[key] = NoChild
    /\ task' = [task EXCEPT ![t] = Settled(h)]
    /\ UNCHANGED <<pendingConnects, child>>

getProxyConnection(t, h) ==
    LET key == proxyConnectionKey(h.want[1], h.want[2])
    IN  /\ \/ UsePooled(t, key, h)
           \/ JoinPending(t, key, h)
           \/ SpawnChild(t, key, h)
           \/ RefuseSpawn(t, key, h)
        /\ UNCHANGED <<phase, config, connections, catalog, shutdownAwaits>>

-----------------------------------------------------------------------------
(* The handlers *)

\* gate_proxy_call: callProxyTool.
ProxyCall(t, k, o) ==
    /\ At(t, "idle")
    /\ getProxyConnection(t, [Idle EXCEPT !.op = o, !.want = k])

\* gate_proxy_tools list and describe: the loop of handleProxyTools over the
\* server asked for or all the enabled ones of the root.
Targets(r) == {k \in Keys : k[1] = r /\ k[2] \in config[r]}
TargetSets(r) == {Targets(r)} \union {{<<r, s>>} : s \in Servers}

StartList(t, r) ==
    /\ At(t, "idle")
    /\ config[r] # {}
    /\ \E K \in TargetSets(r) :
        task' = [task EXCEPT ![t] =
                    [Idle EXCEPT !.pc = "between", !.op = "list", !.todo = K]]
    /\ UNCHANGED <<phase, config, connections, pendingConnects, child, catalog,
                   shutdownAwaits>>

\* listProxyTools for the next server.
ListNext(t) ==
    /\ At(t, "between")
    /\ \E k \in task[t].todo :
        getProxyConnection(t, [task[t] EXCEPT !.todo = @ \ {k}, !.want = k])

ListEnd(t) ==
    /\ At(t, "between")
    /\ task[t].todo = {}
    /\ task' = [task EXCEPT ![t] = Idle]
    /\ UNCHANGED <<phase, config, connections, pendingConnects, child, catalog,
                   shutdownAwaits>>

\* The connections a refresh drops: those of the request's root, or, when the
\* request names none, those of any root whose server has such a name.
RefreshKeys(r, named) == {k \in Keys : k[2] \in config[r] /\ (named => k[1] = r)}

\* gate_proxy_tools refresh: drop the connections, await their close, list.
Refresh(t, r, named) ==
    /\ At(t, "idle")
    /\ config[r] # {}
    /\ named \/ r = DefaultRoot
    /\ LET K == RefreshKeys(r, named) IN
        /\ connections' = Without(K)
        /\ child' = Closing(Pooled(K))
        /\ \E T \in TargetSets(r) :
            task' = [task EXCEPT ![t] =
                        [Idle EXCEPT !.pc = "closing", !.op = "list", !.todo = T,
                                     !.awaits = Pooled(K)]]
    /\ UNCHANGED <<phase, config, pendingConnects, catalog, shutdownAwaits>>

RefreshClosed(t) ==
    /\ At(t, "closing")
    /\ \A c \in task[t].awaits : child[c] = "dead"
    /\ task' = [task EXCEPT ![t].pc = "between", ![t].awaits = {}]
    /\ UNCHANGED <<phase, config, connections, pendingConnects, child, catalog,
                   shutdownAwaits>>

\* The downstream answers; listTools fills the cache of its connection.
Answer(t) ==
    /\ At(t, "calling")
    /\ child[task[t].conn] \in {"live", "closing"}
    /\ task' = [task EXCEPT ![t] = Settled(task[t])]
    /\ catalog' = IF task[t].op = "list" THEN catalog \union {task[t].conn} ELSE catalog
    /\ UNCHANGED <<phase, config, connections, pendingConnects, child, shutdownAwaits>>

\* The request is rejected with an error that is not a timeout of Gate's: an
\* error of the downstream, the SDK's own request timer, "Not connected" when
\* the pooled child is dead.  The pool stays as it is.
RequestRejected(t) ==
    /\ At(t, "calling")
    /\ task' = [task EXCEPT ![t] = Settled(task[t])]
    /\ UNCHANGED <<phase, config, connections, pendingConnects, child, catalog,
                   shutdownAwaits>>

\* Mutant of Wedged: look the connection up after it was removed.
WedgedAfterRemoval(t) == {}

\* The connection a timed-out call of t drops: what its key holds by now.
Wedged(t) == Pooled({KeyOf(task[t].conn)})

\* The timer wins the race, or the downstream's own error says "timed out
\* after": drop the connection, close it without awaiting, and throw.
CallTimeout(t) ==
    /\ At(t, "calling")
    /\ task[t].op = "call"
    /\ child[task[t].conn] \in {"live", "closing"}
    /\ connections' = Without({KeyOf(task[t].conn)})
    /\ child' = Closing(Wedged(t))
    /\ task' = [task EXCEPT ![t] = Idle]
    /\ UNCHANGED <<phase, config, pendingConnects, catalog, shutdownAwaits>>

-----------------------------------------------------------------------------
(* The children *)

\* Mutant of ConnectOk: the finally that clears pendingConnects is missing.
ConnectOkStillPending(c) ==
    /\ InState(c, "connecting")
    /\ child' = [child EXCEPT ![c] = "live"]
    /\ connections' = [connections EXCEPT ![KeyOf(c)] = c]
    /\ task' = [t \in Tasks |->
                  IF task[t].conn = c THEN [task[t] EXCEPT !.pc = "calling"] ELSE task[t]]
    /\ UNCHANGED <<phase, config, pendingConnects, catalog, shutdownAwaits>>

\* The handshake succeeds.  One step of the event loop moves the child from
\* pendingConnects to the pool and lets those who shared the promise send.
ConnectOk(c) ==
    /\ InState(c, "connecting")
    /\ child' = [child EXCEPT ![c] = "live"]
    /\ connections' = [connections EXCEPT ![KeyOf(c)] = c]
    /\ pendingConnects' = [pendingConnects EXCEPT ![KeyOf(c)] = NoChild]
    /\ task' = [t \in Tasks |->
                  IF task[t].conn = c THEN [task[t] EXCEPT !.pc = "calling"] ELSE task[t]]
    /\ UNCHANGED <<phase, config, catalog, shutdownAwaits>>

\* Mutant of ConnectFail: the attempt is withdrawn before its close settles.
ConnectFailEarly(c) ==
    /\ InState(c, "connecting")
    /\ child' = [child EXCEPT ![c] = "closing"]
    /\ pendingConnects' = [pendingConnects EXCEPT ![KeyOf(c)] = NoChild]
    /\ UNCHANGED <<phase, config, connections, catalog, task, shutdownAwaits>>

\* The handshake fails; transport.close() is awaited with the promise pending.
ConnectFail(c) ==
    /\ InState(c, "connecting")
    /\ child' = [child EXCEPT ![c] = "closing"]
    /\ UNCHANGED <<phase, config, connections, pendingConnects, catalog, task,
                   shutdownAwaits>>

\* A closing child is gone.  If it was a failed attempt, that is withdrawn.
CloseDone(c) ==
    /\ InState(c, "closing")
    /\ child' = [child EXCEPT ![c] = "dead"]
    /\ pendingConnects' =
        [k \in Keys |-> IF pendingConnects[k] = c THEN NoChild ELSE pendingConnects[k]]
    /\ task' = SettleAllOn(c)
    /\ UNCHANGED <<phase, config, connections, catalog, shutdownAwaits>>

\* A downstream server exits by itself.  The code installs no onclose handler:
\* the SDK rejects its requests, the pool keeps its connection.
Crash(c) ==
    /\ InState(c, "live")
    /\ child' = [child EXCEPT ![c] = "dead"]
    /\ task' = SettleAllOn(c)
    /\ UNCHANGED <<phase, config, connections, pendingConnects, catalog, shutdownAwaits>>

-----------------------------------------------------------------------------
(* The operator and the shutdown *)

\* proxy-servers.json is edited: a server is added, removed or (un)disabled.
EditConfig(r, s) ==
    /\ phase # "exited"
    /\ config' = [config EXCEPT ![r] = IF s \in @ THEN @ \ {s} ELSE @ \union {s}]
    /\ UNCHANGED <<phase, connections, pendingConnects, child, catalog, task,
                   shutdownAwaits>>

\* gracefulShutdown starts; it awaits terminateOcr while the handlers go on.
Shutdown ==
    /\ phase = "running"
    /\ phase' = "draining"
    /\ UNCHANGED <<config, connections, pendingConnects, child, catalog, task,
                   shutdownAwaits>>

\* closeAllProxies: close what is in the pool at this moment.
closeAllProxies ==
    /\ phase = "draining"
    /\ phase' = "closing"
    /\ connections' = Without(Keys)
    /\ child' = Closing(Pooled(Keys))
    /\ shutdownAwaits' = Pooled(Keys)
    /\ UNCHANGED <<config, pendingConnects, catalog, task>>

\* process.exit(0) once those closes have settled.
Exit ==
    /\ phase = "closing"
    /\ \A c \in shutdownAwaits : child[c] = "dead"
    /\ phase' = "exited"
    /\ UNCHANGED <<config, connections, pendingConnects, child, catalog, task,
                   shutdownAwaits>>

TaskStep(t) ==
    \/ \E k \in Keys, o \in {"call", "untimed"} : ProxyCall(t, k, o)
    \/ \E r \in Roots : StartList(t, r)
    \/ \E r \in Roots, named \in BOOLEAN : Refresh(t, r, named)
    \/ ListNext(t)
    \/ ListEnd(t)
    \/ RefreshClosed(t)
    \/ Answer(t)
    \/ RequestRejected(t)
    \/ CallTimeout(t)

ChildStep(c) == ConnectOk(c) \/ ConnectFail(c) \/ CloseDone(c) \/ Crash(c)

ProcessStep ==
    \/ \E r \in Roots, s \in Servers : EditConfig(r, s)
    \/ Shutdown
    \/ closeAllProxies
    \/ Exit

Next ==
    \/ \E t \in Tasks : TaskStep(t)
    \/ \E c \in Children : ChildStep(c)
    \/ ProcessStep

Spec == Init /\ [][Next]_vars

\* What runs by itself: the event loop resumes a handler whose await settled;
\* Gate's timer fires; the SDK's handshake and request timers settle connects
\* and listings, and its close() ends a child with a kill.  Nobody promises
\* that a downstream answers, so an untimed call may wait for ever.
RequestSettles(t) == task[t].op = "list" \/ child[task[t].conn] = "dead"

FairSpec ==
    /\ Spec
    /\ \A t \in Tasks :
        /\ WF_vars(ListNext(t) \/ ListEnd(t) \/ RefreshClosed(t))
        /\ WF_vars(CallTimeout(t))
        /\ WF_vars(RequestRejected(t) /\ RequestSettles(t))
    /\ \A c \in Children :
        /\ WF_vars(ConnectOk(c) \/ ConnectFail(c))
        /\ WF_vars(CloseDone(c))

-----------------------------------------------------------------------------
(* Properties *)

\* No child is lost: a process being started is in pendingConnects and a live
\* one in the pool, each under its own key, so that whoever drops it from a map
\* closes it in the same step (spawnAndConnect's "so we don't leak a child
\* process", callProxyTool's capture of the connection before its removal).
NoLostChild ==
    \A c \in Children :
        /\ child[c] = "connecting" => pendingConnects[KeyOf(c)] = c
        /\ child[c] = "live" => connections[KeyOf(c)] = c

\* pendingConnects "prevents double-spawn races": however handlers, timeouts
\* and refreshes interleave, a key has at most one process starting or live.
OneOpenChild ==
    \A c, d \in Children :
        /\ child[c] \in {"connecting", "live"}
        /\ child[d] \in {"connecting", "live"}
        /\ Home[c] = Home[d]
        => c = d

\* "Removal first means concurrent callers won't grab the wedged connection
\* while cleanup runs": a child being closed is in the pool under no key.
NoClosingChildPooled ==
    \A k \in Keys : connections[k] # NoChild => child[connections[k]] \in {"live", "dead"}

\* A request for one project never reaches a process opened for another one
\* whose server has the same name (the comment above resolveCodeRoot's call).
ProjectIsolation ==
    \A t \in Tasks : task[t].conn # NoChild => Home[task[t].conn] = task[t].want

\* A handler that shares a connect promise waits for one that will settle: the
\* attempt is still registered under its key.
NoStrandedCaller ==
    \A t \in Tasks :
        task[t].pc = "connecting" =>
            pendingConnects[proxyConnectionKey(task[t].want[1], task[t].want[2])]
                = task[t].conn

\* The pool implements one slot per key: see SingleFlight.
Slots == INSTANCE SingleFlight WITH
            attempt <- pendingConnects,
            serving <- connections,
            started <- {c \in Children : child[c] # "unborn"}
SingleFlightPerKey == Slots!Spec

\* "A hung downstream server cannot starve the parent gatemcp process": each
\* handler except an untimed call comes to an end, in a wedged child, a failed
\* connect, a crash, a refresh or a long list loop.
HandlersReturn ==
    \A t \in Tasks :
        task[t].pc # "idle" /\ task[t].op # "untimed"
            ~> task[t].pc = "idle" \/ phase = "exited"

-----------------------------------------------------------------------------
(* Claims of the source that its steps do not keep *)

\* A timeout drops "the wedged connection": the one the call was sent on.
TimeoutDropsItsOwn ==
    [][\A t \in Tasks :
          task[t].op = "call" /\ task[t].pc = "calling" /\ connections' # connections
          /\ task'[t].pc = "idle"
          => connections[KeyOf(task[t].conn)] \in {task[t].conn, NoChild}]_vars

\* closeAllProxies is wired into the shutdown "so we don't leave orphaned child
\* processes": once Gate has exited, no child runs.
NoOrphans ==
    phase = "exited" => \A c \in Children : child[c] \notin {"connecting", "live"}
=============================================================================
