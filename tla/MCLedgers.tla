----------------------------- MODULE MCLedgers -----------------------------
(***************************************************************************)
(* The durable ledgers for TLC under crashes, overlaps and damage: the     *)
(* platform's network IDs, a site's addresses and its gateways' addresses. *)
(* They share no state, so a behaviour exercises one of them, the part.    *)
(***************************************************************************)
EXTENDS NetworkIDRegistry, TLC

CONSTANTS p1, p2, k1, k2, h1, h2,    \* allocators, keys, shards
          solo, n1, n2, Health       \* a site process, binding names, no peer

VARIABLES part,
    ledger, identity, binding, made, source, at, seen, failure, reserved, exposed, harm, cut, lost,
    claims, anchored, members, secrets, pods, spec, status, drawn, place, known, world, announced,
    hurt

\* A process that crashes; bindings are replaced and two objects destroyed;
\* there are fewer BFD sources than reservations.
L == INSTANCE LocalAllocation WITH
        Procs <- {solo}, Names <- {n1, n2}, Transits <- 0..2, Sources <- 1..2,
        MaxReplaced <- 1, MaxAborts <- 1, MaxDamage <- 2,
        pc <- at, view <- seen, err <- failure, damage <- harm, aborts <- cut, losses <- lost

addressVars == <<ledger, identity, binding, made, source, at, seen, failure, reserved, exposed,
                 harm, cut, lost>>

\* Two overlapping processes bootstrap the gateways of two bindings.
R == INSTANCE GatewayRegistry WITH
        Operators <- {p1, p2}, Bindings <- {n1, n2}, Peers <- {},
        Addresses <- 1..4, Ports <- {}, Steps <- 3,
        Scenarios <- {[nodes |-> {1}, procs |-> 2, joined |-> {n1, n2}, scope |-> {},
                       changes |-> 0, aborts |-> 0, damage |-> 0]},
        registry <- claims, identity <- anchored, ledger <- members, pc <- place, view <- known

gatewayVars == <<claims, anchored, members, secrets, pods, spec, status, drawn, place, known,
                 world, announced, hurt>>

\* k1 and k2 in shards of their own; a VPC's own key, and a transport request
\* that needs both.
SplitShards == (k1 :> h1) @@ (k2 :> h2)
AllRequests == {{k1}, {k1, k2}}

LedgersInit == part \in {"ids", "addresses", "gateways"} /\ Init /\ L!Init /\ R!RegistryInit

LedgersNext == \/ part = "ids" /\ Next /\ UNCHANGED <<part, addressVars, gatewayVars>>
               \/ part = "addresses" /\ L!Next /\ UNCHANGED <<part, vars, gatewayVars>>
               \/ part = "gateways" /\ R!RegistryNext /\ UNCHANGED <<part, vars, addressVars>>

LedgersSpec == LedgersInit /\ [][LedgersNext]_<<part, vars, addressVars, gatewayVars>>

Symmetry == Permutations({p1, p2}) \cup Permutations({n1, n2})

\* allocate of the site and of its gateways: what was handed out is recorded,
\* unless it was destroyed, and no gateway address is announced twice, also not
\* for two bindings.
HandedOutOnce == L!CommittedFirst /\ R!Exclusive
=============================================================================
