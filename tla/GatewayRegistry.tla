-------------------------- MODULE GatewayRegistry --------------------------
(***************************************************************************)
(* The durable identities of a site's managed gateways                     *)
(* (internal/managedgateway): the shared registry of control addresses and *)
(* listen ports, the identity that pins it, the member ledger and the      *)
(* WireGuard keys of every binding, and their removal.                     *)
(*                                                                         *)
(* A process runs one pass for one binding: Ensure while the binding has   *)
(* remote subnets, Delete when it has none.  Every API call that can       *)
(* interleave with another process or be cut off by a crash is an action.  *)
(***************************************************************************)
EXTENDS Naturals, FiniteSets

CONSTANTS
    Operators,   \* operator processes; two run only while leadership moves
    Bindings,    \* NetworkBindings of the site
    Peers,       \* identities of remote gateways
    Health,      \* the key of a member's own health address
    Addresses,   \* the control pool, a set of positive numbers
    Ports,       \* the listen port range, a set of positive numbers
    Steps,       \* tries of an allocation whose writes conflict: 10
    Scenarios    \* the worlds to start in: see world

World == [nodes : SUBSET Nat, procs : Nat, joined : SUBSET Bindings, scope : SUBSET Bindings,
          changes : Nat, aborts : Nat, damage : Nat]

\* A gateway has at least two replicas (Reconciler.validate), so nodes are selected.
ASSUME RegistryAssumption ==
    /\ IsFiniteSet(Operators) /\ Bindings # {} /\ Health \notin Peers
    /\ Addresses \subseteq Nat \ {0} /\ Ports \subseteq Nat \ {0}
    /\ Steps \in Nat /\ Scenarios \subseteq World /\ \A w \in Scenarios : w.nodes # {}

VARIABLES
    registry,    \* ConfigMap managed-gateway-allocations; uid 0: absent
    identity,    \* the registry UID in the immutable identity; 0: absent
    ledger,      \* member ledger of every binding; << >>: absent
    secrets,     \* key Secrets
    pods,        \* gateway Pods, running or terminating
    spec,        \* of every binding: whether it has remote subnets, and Spec.Peers
    status,      \* Status.Gateways of every binding; << >>: none
    drawn,       \* random IDs and keys, and object UIDs, handed out so far
    pc, view,    \* where a process is, and what it has read
    world,       \* World, with nodes: selected for members, a set of numbers; procs: how many
                 \*  run at once; joined: bindings with remote subnets from
                 \*  the start; scope: those whose snapshots change;
                 \*  changes, aborts, damage: how often each may still happen
    announced,   \* history: every member and link ever in a status
    hurt         \* history: what the code answers by asking for explicit recovery:
                 \* destroyed objects (registry and identity by name), or a
                 \* deletion that was cut off or raced

Nodes == world.nodes

store == <<registry, identity, ledger, secrets, pods, spec, status, drawn>>
registryVars == <<store, pc, view, world, announced, hurt>>

First(S) == CHOOSE x \in S : \A y \in S : x <= y
Put(f, x, v) == [y \in {x} \cup DOMAIN f |-> IF y = x THEN v ELSE f[y]]

\* A binding without remote subnets needs no gateways; one with them may wait for peers.
Apart == [cross |-> FALSE, peers |-> {}]
Joined == [cross |-> TRUE, peers |-> {}]

NoRegistry == [uid |-> 0, addr |-> << >>, port |-> << >>]
NoView == [b |-> CHOOSE b \in Bindings : TRUE, spec |-> Apart, status |-> << >>,
           mem |-> << >>, keyed |-> {}, goal |-> "validate", evidence |-> FALSE,
           receipts |-> {}, identity |-> 0, reg |-> NoRegistry, tries |-> 0, doomed |-> {}]

RegistryInit ==
    /\ world \in Scenarios
    /\ registry = NoRegistry /\ identity = 0
    /\ ledger = [b \in Bindings |-> << >>]
    /\ secrets = {} /\ pods = {}
    /\ spec = [b \in Bindings |-> IF b \in world.joined THEN Joined ELSE Apart]
    /\ status = [b \in Bindings |-> << >>]
    /\ drawn = 0
    /\ pc = [p \in Operators |-> "idle"] /\ view = [p \in Operators |-> NoView]
    /\ announced = {} /\ hurt = {}

-----------------------------------------------------------------------------
(* What a pass derives from what it reads *)

\* What the members g of binding b say they hold of the registry.
Receipt(c, ip, port, key) == [claim |-> c, ip |-> ip, port |-> port, key |-> key]
Claim(b, n, id, q) == [b |-> b, node |-> n, id |-> id, peer |-> q]
Receipts(b, g) == UNION {
    {Receipt(Claim(b, n, g[n].id, Health), g[n].health, 0, g[n].key)} \cup
    {Receipt(Claim(b, n, g[n].id, q), g[n].links[q].ip, g[n].links[q].port, g[n].key)
        : q \in DOMAIN g[n].links} : n \in DOMAIN g}

LedgerReceipts == UNION {Receipts(b, ledger[b]) : b \in Bindings}
StatusReceipts == UNION {Receipts(b, status[b]) : b \in Bindings}

\* validateGatewayClaims: the registry still holds what a member holds.
Retains(reg, r) ==
    /\ r.claim \in DOMAIN reg.addr /\ reg.addr[r.claim] = r.ip
    /\ r.port # 0 => r.claim \in DOMAIN reg.port /\ reg.port[r.claim] = r.port

\* resources(): Pods and Secrets of a binding.
Resources(b) == {x \in pods : x.b = b} \cup {x \in secrets : x.b = b}

\* Mutant: a registry without identity is always taken for a damaged one.
AnchoredOnly(v, reg) ==
    IF v.identity = 0 THEN "IdentityLost"
    ELSE IF v.identity # reg.uid THEN "IdentityChanged"
    ELSE IF \A r \in v.receipts : Retains(reg, r) THEN "ok" ELSE "ReceiptMismatch"

\* What registry() concludes from a registry that exists.
Diagnosis(v, reg) ==
    IF v.identity = 0
    THEN IF reg.addr # << >> \/ v.evidence THEN "IdentityLost" ELSE "anchor"
    ELSE IF v.identity # reg.uid THEN "IdentityChanged"
    ELSE IF \A r \in v.receipts : Retains(reg, r) THEN "ok" ELSE "ReceiptMismatch"

\* registry() returns the registry and nothing else it has read.
Returned(v) == [v EXCEPT !.evidence = FALSE, !.receipts = {}, !.identity = 0,
                         !.reg = IF v.goal = "validate" THEN NoRegistry ELSE @]

GoTo(p, label, v) == pc' = [pc EXCEPT ![p] = label] /\ view' = [view EXCEPT ![p] = v]
Stop(p) == GoTo(p, "idle", NoView)
\* RetryOnConflict: read everything again, or give up after so many tries.
Conflict(p, v) ==
    IF v.tries + 1 < Steps THEN GoTo(p, "list", [v EXCEPT !.tries = @ + 1]) ELSE Stop(p)
Resume(p, v) == GoTo(p, IF v.goal = "validate" THEN "ledger" ELSE "claim", Returned(v))

\* Nodes without a member yet; members whose key is not verified; links missing.
Unplaced(v) == Nodes \ DOMAIN v.mem
Unlinked(v, n) == {q \in v.spec.peers : q \notin DOMAIN v.mem[n].links \/ v.mem[n].links[q].port = 0}
Unfinished(v) == {n \in Nodes : n \notin v.keyed \/ Unlinked(v, n) # {}}

\* What a finished pass leaves: all peers linked and announced, or nothing.
Done(b) ==
    IF ~spec[b].cross THEN ledger[b] = << >> /\ status[b] = << >> /\ Resources(b) = {}
    ELSE /\ DOMAIN status[b] = Nodes
         /\ \A n \in Nodes : spec[b].peers \subseteq DOMAIN status[b][n].links

-----------------------------------------------------------------------------
(* registry(): list, read identity and registry, bootstrap *)

\* A pass for a settled binding changes nothing and is left out.
BeginPass(p, b) ==
    /\ pc[p] = "idle" /\ ~Done(b)
    /\ Cardinality({q \in Operators : pc[q] # "idle"}) < world.procs
    /\ GoTo(p, IF ~spec[b].cross THEN "delete" ELSE "list",
             [NoView EXCEPT !.b = b, !.spec = spec[b], !.status = status[b]])
    /\ UNCHANGED <<store, announced>>

\* A list adds what members left behind: with that a lost registry is not a fresh site.
Lists(p, next, evidence, receipts) ==
    /\ GoTo(p, next, [view[p] EXCEPT !.evidence = @ \/ evidence, !.receipts = @ \cup receipts])
    /\ UNCHANGED <<store, announced>>

ListLedgers(p) ==
    /\ pc[p] = "list"
    /\ Lists(p, "listBindings", \E b \in Bindings : ledger[b] # << >>, LedgerReceipts)

\* With the copy of the binding that Ensure was called with.
ListBindings(p) ==
    /\ pc[p] = "listBindings"
    /\ LET own == IF view[p].goal = "validate" THEN view[p].status ELSE << >>
       IN  Lists(p, "listPods", own # << >> \/ \E b \in Bindings : status[b] # << >>,
                 StatusReceipts \cup Receipts(view[p].b, own))

ListGatewayPods(p) == pc[p] = "listPods" /\ Lists(p, "listKeys", pods # {}, {})
ListKeys(p) == pc[p] = "listKeys" /\ Lists(p, "identity", secrets # {}, {})

List(p) == ListLedgers(p) \/ ListBindings(p) \/ ListGatewayPods(p) \/ ListKeys(p)

GetIdentity(p) ==
    /\ pc[p] = "identity"
    /\ GoTo(p, "registry", [view[p] EXCEPT !.identity = identity])
    /\ UNCHANGED <<store, announced>>

\* Continue with the registry just read or created.
Examine(p, v) ==
    CASE Diagnosis(v, v.reg) = "anchor" -> GoTo(p, "anchor", v)
      [] Diagnosis(v, v.reg) = "ok"     -> Resume(p, v)
      [] OTHER                          -> Stop(p)

GetRegistry(p) ==
    /\ pc[p] = "registry"
    /\ IF registry.uid # 0 THEN Examine(p, [view[p] EXCEPT !.reg = registry])
       ELSE IF view[p].identity # 0 \/ view[p].evidence THEN Stop(p)   \* RegistryLost
       ELSE IF view[p].goal = "validate" THEN Resume(p, view[p])
       ELSE GoTo(p, "create", view[p])
    /\ UNCHANGED <<store, announced>>

\* Of two bootstraps the API accepts one; the other reads again.
CreateRegistry(p) ==
    /\ pc[p] = "create"
    /\ IF registry.uid = 0
       THEN /\ registry' = [NoRegistry EXCEPT !.uid = drawn + 1]
            /\ drawn' = drawn + 1
            /\ Examine(p, [view[p] EXCEPT !.reg = registry'])
       ELSE Conflict(p, view[p]) /\ UNCHANGED <<registry, drawn>>
    /\ UNCHANGED <<identity, ledger, secrets, pods, spec, status, announced>>

CreateIdentity(p) ==
    /\ pc[p] = "anchor"
    /\ IF identity = 0
       THEN identity' = view[p].reg.uid /\ Resume(p, view[p])
       ELSE /\ IF view[p].goal = "validate" THEN Stop(p) ELSE Conflict(p, view[p])
            /\ UNCHANGED identity
    /\ UNCHANGED <<registry, ledger, secrets, pods, spec, status, drawn, announced>>

-----------------------------------------------------------------------------
(* allocate(): one claim in the registry, first free, by conditional update *)

\* Mutant: the update is conditional on the object only, not on its version.
RegistrySameUID(v) == registry.uid = v.reg.uid

\* The conditional update: nobody has written since the registry was read.
RegistryUnchanged(v) == registry = v.reg

\* The claim the copy of the ledger needs next, and whether it is a port.
Target(v) ==
    LET draft == {n \in DOMAIN v.mem : v.mem[n].health = 0}
        n == First(IF draft # {} THEN draft ELSE Unfinished(v))
        q == IF draft # {} THEN Health ELSE CHOOSE q \in Unlinked(v, n) : TRUE
    IN  [claim |-> Claim(v.b, n, v.mem[n].id, q), port |-> q \in DOMAIN v.mem[n].links]

\* Mutant: addresses are looked up per node, as ports are.
FreeAddressesOfNode(reg, c) == Addresses \ {reg.addr[d] : d \in {e \in DOMAIN reg.addr : e.node = c.node}}

FreeAddresses(reg, c) == Addresses \ {reg.addr[d] : d \in DOMAIN reg.addr}
FreePorts(reg, c) == Ports \ {reg.port[d] : d \in {e \in DOMAIN reg.port : e.node = c.node}}

\* The registry with the claim, an unchanged one when it is there already, or
\* one without it when the pool is exhausted or a port has no link address.
Extended(reg, t) ==
    LET c == t.claim
        free == IF t.port THEN FreePorts(reg, c) ELSE FreeAddresses(reg, c)
        missing == t.port /\ c \notin DOMAIN reg.addr
    IN  IF c \in DOMAIN (IF t.port THEN reg.port ELSE reg.addr) \/ missing \/ free = {} THEN reg
        ELSE IF t.port THEN [reg EXCEPT !.port = Put(@, c, First(free))]
        ELSE [reg EXCEPT !.addr = Put(@, c, First(free))]

\* The copy of the ledger with what the registry says.
Filled(v, t, reg) ==
    LET n == t.claim.node  q == t.claim.peer  m == v.mem[n]
    IN  [v EXCEPT !.mem[n] =
            IF q = Health THEN [m EXCEPT !.health = reg.addr[t.claim]]
            ELSE IF t.port THEN [m EXCEPT !.links[q].port = reg.port[t.claim]]
            ELSE [m EXCEPT !.links = Put(@, q, [ip |-> reg.addr[t.claim], port |-> 0])]]

Allocate(p) ==
    /\ pc[p] = "claim"
    /\ LET v == view[p]  t == Target(v)  reg == Extended(v.reg, t)
           back == IF t.claim.peer = Health THEN "draft" ELSE "work"
       IN  \/ /\ t.claim \notin DOMAIN (IF t.port THEN reg.port ELSE reg.addr)
              /\ Stop(p) /\ UNCHANGED registry                       \* refused
           \/ /\ t.claim \in DOMAIN (IF t.port THEN reg.port ELSE reg.addr)
              /\ IF reg = v.reg \/ RegistryUnchanged(v)
                 THEN /\ registry' = IF reg = v.reg THEN registry ELSE reg
                      /\ GoTo(p, back, [Filled(v, t, reg) EXCEPT !.reg = NoRegistry, !.tries = 0])
                 ELSE /\ IF registry.uid = 0 THEN Stop(p) ELSE Conflict(p, [v EXCEPT !.reg = NoRegistry])
                      /\ UNCHANGED registry
    /\ UNCHANGED <<identity, ledger, secrets, pods, spec, status, drawn, announced>>

-----------------------------------------------------------------------------
(* members(), ensureKey, linkClaims, saveLedger, Pods and the report *)

GetLedger(p) ==
    /\ pc[p] = "ledger"
    /\ LET l == ledger[view[p].b]
       IN  GoTo(p, IF l = << >> THEN "resources" ELSE "work", [view[p] EXCEPT !.mem = l])
    /\ UNCHANGED <<store, announced>>

\* GatewayLedgerLost when anything of the binding exists without its ledger.
ListResources(p) ==
    /\ pc[p] = "resources"
    /\ IF ledger[view[p].b] = << >> /\ Resources(view[p].b) = {}
       THEN GoTo(p, "draft", [view[p] EXCEPT !.goal = "claim"]) ELSE Stop(p)
    /\ UNCHANGED <<store, announced>>

\* A fresh random ID on the next node, whose health address is then claimed.
DraftMember(p) ==
    /\ pc[p] = "draft" /\ Unplaced(view[p]) # {}
    /\ GoTo(p, "list", [view[p] EXCEPT !.mem = Put(@, First(Unplaced(view[p])),
            [id |-> drawn + 1, health |-> 0, key |-> 0, links |-> << >>])])
    /\ drawn' = drawn + 1
    /\ UNCHANGED <<registry, identity, ledger, secrets, pods, spec, status, announced>>

CreateLedger(p) ==
    /\ pc[p] = "draft" /\ Unplaced(view[p]) = {}
    /\ IF ledger[view[p].b] = << >>
       THEN /\ ledger' = [ledger EXCEPT ![view[p].b] = view[p].mem]
            /\ GoTo(p, "work", view[p])
       ELSE UNCHANGED ledger /\ GoTo(p, "ledger", view[p])
    /\ UNCHANGED <<registry, identity, secrets, pods, spec, status, drawn, announced>>

SecretOf(v, n) == {s \in secrets : s.b = v.b /\ s.id = v.mem[n].id}

\* Mutant: a lost key is replaced.
KeyReplaced(m, old, key) == old = {} \/ m.key \in {0, key}

\* GatewayKeyLost: a key that was written to the ledger is never drawn again.
KeyUsable(m, old, key) == m.key \in (IF old = {} THEN {0} ELSE {0, key})

EnsureKey(p) ==
    /\ pc[p] = "work" /\ Unfinished(view[p]) # {}
    /\ LET v == view[p]  n == First(Unfinished(v))  old == SecretOf(v, n)
           key == IF old = {} THEN drawn + 1 ELSE (CHOOSE s \in old : TRUE).key
       IN  /\ n \notin v.keyed
           /\ IF KeyUsable(v.mem[n], old, key)
              THEN /\ secrets' = secrets \cup {[b |-> v.b, id |-> v.mem[n].id, key |-> key]}
                   /\ drawn' = IF old = {} THEN drawn + 1 ELSE drawn
                   /\ GoTo(p, "work", [v EXCEPT !.mem[n].key = key, !.keyed = @ \cup {n}])
              ELSE Stop(p) /\ UNCHANGED <<secrets, drawn>>
    /\ UNCHANGED <<registry, identity, ledger, pods, spec, status, announced>>

LinkClaims(p) ==
    /\ pc[p] = "work" /\ Unfinished(view[p]) # {}
    /\ First(Unfinished(view[p])) \in view[p].keyed
    /\ GoTo(p, "list", [view[p] EXCEPT !.goal = "claim"])
    /\ UNCHANGED <<store, announced>>

\* Reads, overwrites with the pass's own copy, and retries on a conflict.
SaveLedger(p) ==
    /\ pc[p] = "work" /\ Unfinished(view[p]) = {}
    /\ IF ledger[view[p].b] = << >> THEN Stop(p) /\ UNCHANGED ledger
       ELSE /\ ledger' = [ledger EXCEPT ![view[p].b] = view[p].mem]
            /\ GoTo(p, "pods", view[p])
    /\ UNCHANGED <<registry, identity, secrets, pods, spec, status, drawn, announced>>

\* The members whose Pods can be rendered, that is, whose peers have answered.
CreatePods(p) ==
    /\ pc[p] = "pods"
    /\ \E ids \in SUBSET {view[p].mem[n].id : n \in Nodes} :
        pods' = pods \cup {[b |-> view[p].b, id |-> i, up |-> TRUE]
                            : i \in {j \in ids : ~\E x \in pods : x.id = j}}
    /\ GoTo(p, "report", view[p])
    /\ UNCHANGED <<registry, identity, ledger, secrets, spec, status, drawn, announced>>

\* Status().Update with the copy of the binding the pass began with.
Current(v) == spec[v.b] = v.spec /\ status[v.b] = v.status

Report(p) ==
    /\ pc[p] = "report"
    /\ IF Current(view[p])
       THEN /\ status' = [status EXCEPT ![view[p].b] = view[p].mem]
            /\ announced' = announced \cup Receipts(view[p].b, view[p].mem)
       ELSE UNCHANGED <<status, announced>>
    /\ Stop(p)
    /\ UNCHANGED <<registry, identity, ledger, secrets, pods, spec, drawn>>

-----------------------------------------------------------------------------
(* Delete: Pods, then keys, then the ledger, then the status *)

DeletePods(p) ==
    /\ pc[p] = "delete"
    /\ LET mine == {x \in pods : x.b = view[p].b}
       IN  IF mine # {}
           THEN /\ pods' = (pods \ mine) \cup {[x EXCEPT !.up = FALSE] : x \in mine}
                /\ Stop(p)
           ELSE /\ GoTo(p, "keys", [view[p] EXCEPT !.doomed = Resources(view[p].b)])
                /\ UNCHANGED pods
    /\ UNCHANGED <<registry, identity, ledger, secrets, spec, status, drawn, announced>>

DeleteKey(p) ==
    /\ pc[p] = "keys" /\ view[p].doomed # {}
    /\ \E s \in view[p].doomed :
        /\ secrets' = secrets \ {s}
        /\ GoTo(p, "keys", [view[p] EXCEPT !.doomed = @ \ {s}])
    /\ UNCHANGED <<registry, identity, ledger, pods, spec, status, drawn, announced>>

\* The second inventory: anything besides the ledger ends the pass.
Recheck(p) ==
    /\ pc[p] = "keys" /\ view[p].doomed = {}
    /\ IF Resources(view[p].b) # {} THEN Stop(p)
       ELSE GoTo(p, "forget", [view[p] EXCEPT !.mem = ledger[view[p].b]])
    /\ UNCHANGED <<store, announced>>

\* The ledger of the inventory, unless it is another incarnation by now.
DeleteLedger(p) ==
    /\ pc[p] = "forget"
    /\ LET b == view[p].b  listed == view[p].mem
           same == \A n \in DOMAIN listed \cap DOMAIN ledger[b] : listed[n].id = ledger[b][n].id
       IN  IF same
           THEN /\ ledger' = IF listed = << >> THEN ledger ELSE [ledger EXCEPT ![b] = << >>]
                /\ GoTo(p, "gone", view[p])
           ELSE UNCHANGED ledger /\ Stop(p)
    /\ UNCHANGED <<registry, identity, secrets, pods, spec, status, drawn, announced>>

ClearStatus(p) ==
    /\ pc[p] = "gone"
    /\ status' = IF Resources(view[p].b) = {} /\ ledger[view[p].b] = << >> /\ Current(view[p])
                 THEN [status EXCEPT ![view[p].b] = << >>] ELSE status
    /\ Stop(p)
    /\ UNCHANGED <<registry, identity, ledger, secrets, pods, spec, drawn, announced>>

PassStep(p) ==
    \/ \E b \in Bindings : BeginPass(p, b)
    \/ List(p) \/ GetIdentity(p) \/ GetRegistry(p) \/ CreateRegistry(p) \/ CreateIdentity(p)
    \/ Allocate(p) \/ GetLedger(p) \/ ListResources(p) \/ DraftMember(p) \/ CreateLedger(p)
    \/ EnsureKey(p) \/ LinkClaims(p) \/ SaveLedger(p) \/ CreatePods(p) \/ Report(p)
    \/ DeletePods(p) \/ DeleteKey(p) \/ Recheck(p) \/ DeleteLedger(p) \/ ClearStatus(p)

-----------------------------------------------------------------------------
(* The environment *)

\* Kubelet: a terminating Pod is gone.
Terminated == \E x \in pods :
    /\ ~x.up /\ pods' = pods \ {x}
    /\ UNCHANGED <<registry, identity, ledger, secrets, spec, status, drawn, pc, view, world, announced, hurt>>

\* A new accepted snapshot: remote subnets come or go, peers register.
ChangeSpec == \E b \in world.scope :
    /\ world.changes > 0
    /\ \E new \in {Apart} \cup {[cross |-> TRUE, peers |-> S] : S \in SUBSET Peers} :
        new # spec[b] /\ spec' = [spec EXCEPT ![b] = new]
    /\ world' = [world EXCEPT !.changes = @ - 1]
    /\ UNCHANGED <<registry, identity, ledger, secrets, pods, status, drawn, pc, view, announced, hurt>>

\* A crash, an API error, or a write whose response is lost.
Abort == \E p \in Operators :
    /\ world.aborts > 0 /\ pc[p] # "idle"
    /\ world' = [world EXCEPT !.aborts = @ - 1]
    /\ hurt' = hurt \cup (IF pc[p] \in {"keys", "forget"} THEN {"deletion"} ELSE {})
    /\ Stop(p) /\ UNCHANGED <<store, announced>>

\* Somebody destroys an object, but never both the registry and its identity.
Lose ==
    /\ world.damage > 0 /\ world' = [world EXCEPT !.damage = @ - 1]
    /\ \/ /\ registry.uid # 0 /\ "identity" \notin hurt
          /\ registry' = NoRegistry /\ hurt' = hurt \cup {"damage", "registry"}
          /\ UNCHANGED <<identity, ledger, secrets>>
       \/ /\ identity # 0 /\ "registry" \notin hurt
          /\ identity' = 0 /\ hurt' = hurt \cup {"damage", "identity"}
          /\ UNCHANGED <<registry, ledger, secrets>>
       \/ /\ \E b \in Bindings : ledger[b] # << >> /\ ledger' = [ledger EXCEPT ![b] = << >>]
          /\ hurt' = hurt \cup {"damage"} /\ UNCHANGED <<registry, identity, secrets>>
       \/ /\ \E s \in secrets : secrets' = secrets \ {s}
          /\ hurt' = hurt \cup {"damage"} /\ UNCHANGED <<registry, identity, ledger>>
    /\ UNCHANGED <<pods, spec, status, drawn, pc, view, announced>>

\* With two processes a deletion can race an Ensure that began earlier.
Raced == world.procs > 1 /\ (~(secrets \subseteq secrets') \/
                              \E b \in Bindings : ledger[b] # << >> /\ ledger'[b] = << >>)

RunPass(p) == /\ PassStep(p) /\ UNCHANGED world
              /\ hurt' = hurt \cup (IF Raced THEN {"deletion"} ELSE {})

RegistryNext == (\E p \in Operators : RunPass(p))
                \/ Terminated \/ ChangeSpec \/ Abort \/ Lose

RegistrySpec == RegistryInit /\ [][RegistryNext]_registryVars

\* A reconcile is requeued for every binding until it is settled.
RegistryFairness ==
    /\ WF_registryVars(Terminated)
    /\ \A p \in Operators : WF_registryVars(RunPass(p) /\ pc[p] # "idle")
    /\ \A b \in Bindings : SF_registryVars(\E p \in Operators : BeginPass(p, b) /\ RunPass(p))

-----------------------------------------------------------------------------
(* Properties *)

\* The shape of every object and of every published member.
RegistryTypeOK ==
    /\ registry.uid \in 0..drawn /\ identity \in 0..drawn
    /\ \A c \in DOMAIN registry.addr : c.b \in Bindings /\ registry.addr[c] \in Addresses
    /\ \A c \in DOMAIN registry.port : c \in DOMAIN registry.addr /\ registry.port[c] \in Ports
    /\ \A b \in Bindings : ledger[b] = << >> \/ DOMAIN ledger[b] = Nodes
    /\ \A r \in announced : r.key # 0 /\ r.ip \in Addresses
    /\ \A p \in Operators : view[p].b \in Bindings /\ view[p].keyed \subseteq Nodes

(***************************************************************************)
(* allocate and Delete: an address or a port of a node that one member or  *)
(* link ever announced is never announced for another, and a link keeps    *)
(* what it announced, whoever races, crashes, is deleted and comes back.   *)
(***************************************************************************)
Exclusive == \A r, s \in announced :
    IF r.claim = s.claim THEN r.ip = s.ip /\ r.port = s.port
    ELSE /\ r.ip # s.ip
         /\ r.port # 0 /\ r.claim.node = s.claim.node => r.port # s.port

(***************************************************************************)
(* ensureKey: with one process, a gateway identity that was announced with *)
(* a public key is never announced with another one, although keys are     *)
(* removed before the ledger and objects are destroyed.                    *)
(***************************************************************************)
KeyStable == world.procs = 1 =>
    \A r, s \in announced : r.claim.id = s.claim.id => r.key = s.key

\* A key that the next member's ledger entry names is not among the Secrets.
KeyLost(v) ==
    /\ Unfinished(v) # {} /\ First(Unfinished(v)) \notin v.keyed
    /\ LET n == First(Unfinished(v))  old == SecretOf(v, n)
       IN  v.mem[n].key # 0 /\ \A s \in old : s.key # v.mem[n].key

\* What the next read of p's pass makes it conclude; the names with which
\* registry, members and ensureKey ask for explicit recovery, or "none".
Finding(p) ==
    LET v == view[p] IN
    CASE pc[p] = "registry" /\ registry.uid # 0 -> Diagnosis(v, registry)
      [] pc[p] = "registry" /\ registry.uid = 0 /\ (v.identity # 0 \/ v.evidence) -> "RegistryLost"
      [] pc[p] = "resources" /\ (ledger[v.b] # << >> \/ Resources(v.b) # {}) -> "LedgerLost"
      [] pc[p] = "work" /\ KeyLost(v) -> "KeyLost"
      [] OTHER -> "none"

(***************************************************************************)
(* registry, members, ensureKey: without damage no pass finds the registry *)
(* lost, replaced or in disagreement with a member, and with hurt empty    *)
(* none finds a key lost, whoever bootstraps at the same time.  Two        *)
(* answers are given without damage: a process that looked for identity    *)
(* (registry.go:198) or ledger (reconciler.go:444) before another created  *)
(* it calls it lost.  It takes a second process, and the object is there,  *)
(* in the registry's case with the right UID, for the next pass to read.   *)
(***************************************************************************)
NoFalseFence == \A p \in Operators :
    /\ "damage" \notin hurt =>
        /\ Finding(p) \notin {"RegistryLost", "IdentityChanged", "ReceiptMismatch"}
        /\ Finding(p) = "IdentityLost" => world.procs > 1 /\ identity = registry.uid
    /\ hurt = {} =>
        /\ Finding(p) # "KeyLost"
        /\ Finding(p) = "LedgerLost" => world.procs > 1 /\ ledger[view[p].b] # << >>

(***************************************************************************)
(* Ensure and Delete: once snapshots stop changing, every binding has its  *)
(* members announced with a link to every peer, or has left nothing but    *)
(* its retained claims, whatever race or crash came before.                *)
(***************************************************************************)
Converges == <>[](hurt # {} \/ \A b \in Bindings : Done(b))
=============================================================================
