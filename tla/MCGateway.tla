----------------------------- MODULE MCGateway -----------------------------
(***************************************************************************)
(* The three sides of the managed gateway for TLC.  They share no state in *)
(* the model, so a behaviour exercises one of them, the part, while the    *)
(* others rest in a state in which they have nothing to do.                *)
(***************************************************************************)
EXTENDS GatewayRegistry, GatewayRollout, GatewayDiscovery

CONSTANTS p1, p2, b1, b2, q1, A, B    \* processes, bindings, a peer, sites

VARIABLE part

vars == <<part, registryVars, rolloutVars, discoveryVars>>

InWorld(nodes, procs, scope, changes, aborts, damage) ==
    [nodes |-> nodes, procs |-> procs, joined |-> {}, scope |-> scope,
     changes |-> changes, aborts |-> aborts, damage |-> damage]

Worlds == {
    InWorld({1}, 2, {b1}, 1, 0, 0),           \* leadership moves
    InWorld({1}, 1, {b1}, 3, 1, 0),           \* a crash, one member
    InWorld({1, 2}, 1, {b1}, 2, 1, 0),        \* a crash, two members
    InWorld({1}, 1, {b1}, 3, 0, 1),           \* a destroyed object
    InWorld({1}, 1, {b1, b2}, 2, 1, 0)}       \* two bindings share the pool

Setting(procs, next, bad, failures, crashes) ==
    [procs |-> procs, next |-> next, bad |-> bad, failures |-> failures, crashes |-> crashes]

Rollouts == {
    Setting(1, {2, 3}, {2}, 1, 0),      \* a bad generation and a failing member
    Setting(1, {2, 3}, {2}, 0, 1),      \* a bad generation and a crash
    Setting(2, {2}, {}, 0, 0)}          \* leadership moves

Init ==
    /\ part \in {"registry", "rollout", "discovery"} /\ RegistryInit /\ RolloutInit /\ DiscoveryInit
    /\ part # "registry" => world = CHOOSE w \in Scenarios : TRUE
    /\ part # "rollout" => setting = CHOOSE s \in Settings : TRUE
    /\ part # "discovery" => ~native

Next == \/ part = "registry" /\ RegistryNext /\ UNCHANGED <<part, rolloutVars, discoveryVars>>
        \/ part = "rollout" /\ RolloutNext /\ UNCHANGED <<part, registryVars, discoveryVars>>
        \/ part = "discovery" /\ DiscoveryNext /\ UNCHANGED <<part, registryVars, rolloutVars>>

\* A part that rests has nothing enabled, so its fairness asks for nothing.
Spec == Init /\ [][Next]_vars /\ RegistryFairness /\ RolloutFairness /\ DiscoveryFairness
=============================================================================
