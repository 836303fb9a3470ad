---------------------------- MODULE SingleFlight ----------------------------
(***************************************************************************)
(* What the proxy pool promises about each (root, server) key, with        *)
(* nothing about handlers, timers or processes: the key is unused, or one  *)
(* attempt to start a child for it is under way, or one child serves it; a *)
(* child is started once, serves only after its own attempt succeeded, and *)
(* never serves again once released.                                       *)
(***************************************************************************)
CONSTANTS Keys, Children, NoChild

VARIABLES
    attempt,   \* attempt[k]: the child being started for k
    serving,   \* serving[k]: the child that serves k
    started    \* children that were ever started

slots == <<attempt, serving, started>>

Init ==
    /\ attempt = [k \in Keys |-> NoChild]
    /\ serving = [k \in Keys |-> NoChild]
    /\ started = {}

Begin(k, c) ==
    /\ attempt[k] = NoChild
    /\ serving[k] = NoChild
    /\ c \notin started
    /\ attempt' = [attempt EXCEPT ![k] = c]
    /\ started' = started \union {c}
    /\ UNCHANGED serving

Serve(k) ==
    /\ attempt[k] # NoChild
    /\ serving' = [serving EXCEPT ![k] = attempt[k]]
    /\ attempt' = [attempt EXCEPT ![k] = NoChild]
    /\ UNCHANGED started

GiveUp(k) ==
    /\ attempt[k] # NoChild
    /\ attempt' = [attempt EXCEPT ![k] = NoChild]
    /\ UNCHANGED <<serving, started>>

Release(K) ==
    /\ serving' = [k \in Keys |-> IF k \in K THEN NoChild ELSE serving[k]]
    /\ UNCHANGED <<attempt, started>>

Next ==
    \/ \E k \in Keys, c \in Children : Begin(k, c)
    \/ \E k \in Keys : Serve(k) \/ GiveUp(k)
    \/ \E K \in SUBSET Keys : Release(K)

Spec == Init /\ [][Next]_slots
=============================================================================
