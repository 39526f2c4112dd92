# Formal models of kube-ovn-global-vpc

TLA+ models of the control plane in this repository, TLC configurations that
check them on small instances, and TLAPS proofs for the parts that are proved
for every instance. They cover the managed VPC path (`internal/platformcontroller`,
`internal/platformplan`, `internal/localcontroller`, `internal/managedgateway`),
the two legacy controllers (`internal/controller`, `internal/sitecontroller`)
with what `internal/ovn` does for them, and the native extension's installer
(`internal/vpcctl/native*.go`): the parts that keep state in several places at
once and move it with asynchronous, crashing, overlapping loops.

    tlc -workers 2 -config Ledgers.cfg MCLedgers
    tlc -workers 2 -config KubeOVN.cfg MCKubeOVN
    tlapm ManagedVPCProofs.tla

`PROJECT.json` lists components, runs, mutants, findings, hazards and theorems,
and maps every definition to the lines it models.

## The system

A *platform authority* cluster holds the public objects: a `VPC`, its `Subnet`s
(each in one *location*) and one internal `NetworkBinding` per location. Each
location is a *site* cluster running Kube-OVN. A site's *syncer* polls the
authority: it copies the binding's spec down and the site's status up. The
site's *reconciler* turns the accepted copy into native objects (Kube-OVN `Vpc`,
`Subnet`, gateways, destination routes) and acknowledges the revision of the
spec when all of it is done. Every object is protected by optimistic
concurrency (resourceVersion), by finalizers, and by *receipts*: names and UIDs
recorded in status so that a replaced object is never mistaken for the original.

| component | state | operations | talks to | hard part | what makes it correct |
|---|---|---|---|---|---|
| Platform authority (`platformcontroller/reconciler.go`, `platformplan`) | VPC status (claims, binding receipts), Subnet finalizers and status, binding specs | one `Reconcile` pass: forget tombstones, admit, claim, plan, publish, check acknowledgements, release | bindings, read by syncers | a pass works on lists that are stale when it writes; several writes per life-cycle step; acknowledgement by content hash | no prefix realised twice; claim before native object; claim released after withdrawal; deletion terminates and leaves nothing |
| Network ID registry (`platformcontroller/networkid.go`) | sequence, anchor and claim-shard ConfigMaps | `networkIDs` | called by the authority's passes and by `assignTransport` | overlapping leaders, crash between reservation and claims, destroyed objects | an ID never names two keys; answers are stable; damage is detected, health is not misdiagnosed |
| Snapshot syncer (`localcontroller/sync.go`) | the site's copy of a binding | list, accept, upload, replace an incarnation | authority API and site API | delayed lists, incarnation changes | never goes back, never resurrects a tombstone, never drops an incarnation that still owns something |
| Local reconciler (`localcontroller/reconciler.go`) | native objects, status receipts | recover, create, connect, disconnect, delete, acknowledge | Kube-OVN, managed gateway | crash between create and receipt; order of routes and gateways | routes only with gateways; nothing leaks; acknowledges only what is done |
| Local allocation (`localcontroller/allocation.go`) | ledger, identity, receipts | `allocate` | local reconciler | crash between ledger and receipt; lost ledger | no transit or BFD address given twice |
| Managed gateway (`managedgateway`) | registry and its identity, member ledgers, keys, configurations, Pods, reports | `Ensure`, `Delete` | local reconciler; other sites through the authority | concurrent registry users, cut-off deletion, one-at-a-time rollout, sites that wait for each other | no shared address or port; a published key stays; one member at most is taken out of service; joined sites find each other |
| Destination routes (`integration/kube-ovn`) | OVN routes and BFD sessions | reconcile, collect orphans | Kube-OVN controller | ownership of shared rows | never touches foreign rows |
| Legacy GlobalVpc (`controller`, `plan`) | GlobalVpc status (records, operation), domain lock, scaled-down native IC Deployments | one pass: reserve, create, pause, mark, connect, resume; the reverse for removal | Kube-OVN, OVN NB and IC databases, native IC | native IC destroys what it finds half made; a pass may end anywhere | native IC never runs over a half-made transit network; the domain is always released; nothing survives the finalizer |
| Legacy site controller (`sitecontroller`, `siteplan`, `sitegateway`, `scripts/site_gateway.py`) | SiteVpc status, Kube-OVN objects, BFD rows, gateway | one pass; removal | Kube-OVN, OVN NB, the gateway command | BFD rows that are destroyed under routes; a gateway write whose outcome is unknown | default routes are monitored; the gateway goes before its network; convergence |
| Native extension installer (`vpcctl/native*.go`) | receipt Secret with active and pending plan, CRD schema, Deployment image | hook: install, upgrade, roll back, uninstall | Helm, Kube-OVN Deployment, patched controller | a hook that ends between two calls | the receipt names what was changed; the schema goes last; a retry completes |
| Platform chart hook (`platform_hook.go`) | none | read-only refusals | Helm | — | — |
| OVN adapter (`ovn`), IPAM (`provider`, `gvpc`), gateway runtime (`gateway`), `vpcctl`, `cmd` | none or external | commands, requests, formatting | OVN, NetBox, kernel | mostly I/O | — |

## Modules

| module | models |
|---|---|
| `NetworkIDs` | what the registry promises: IDs drawn once, claims that stay, callers that are told the claim; an abstract specification |
| `NetworkIDRegistry` | `networkIDs`, one action per API call or check, with overlapping allocators, crashes, lost responses and destroyed objects; implements `NetworkIDs` |
| `NetworkIDRegistryProofs` | its inductive invariant and theorems, and the refinement of `NetworkIDs` |
| `PlatformPlan` | the pure planner `Build`, `withdrawn`, and the shape of a binding's spec and status |
| `ManagedVPC` | one VPC end to end: users, the authority's pass, each site's syncer and reconciler, Kube-OVN; extends `PlatformPlan` |
| `ManagedVPCProofs` | its inductive invariant and theorems |
| `LocalAllocation` | `allocate` of a site, one action per API call or check, with overlapping processes, crashes, replaced bindings and destroyed objects |
| `LocalAllocationProofs` | its three inductive invariants and theorems |
| `GatewayRegistry` | the durable side of the managed gateway: address and port registry, identity, member ledgers, keys, links, reports, deletion |
| `GatewayRegistryProofs` | its inductive invariants and theorems |
| `GatewayRollout` | its Pods: configurations, readiness, probes, replacement, pruning |
| `GatewayDiscovery` | how gateways of different sites find each other through the authority, `assignTransport` included |
| `GatewayProofs` | the inductive invariants and theorems of `GatewayRollout` and `GatewayDiscovery` |
| `GlobalVPC` | the legacy GlobalVpc controller with domain lock, native IC, Kube-OVN and OVN databases |
| `GlobalVPCProofs` | its inductive invariant and theorems |
| `SiteVPC` | the legacy site controller with Kube-OVN's routes, BFD rows and the gateway command |
| `SiteVPCProofs` | its inductive invariant and theorems |
| `NativeExtension` | the extension's hook with Deployment rollout and the patched controller |
| `NativeExtensionProofs` | its inductive invariant and theorems |
| `MCLedgers`, `MCAllocators`, `MCManagedVPC`, `MCGateway`, `MCKubeOVN` | instances for TLC |

`MCLedgers`, `MCAllocators`, `MCGateway` and `MCKubeOVN` each hold several models
that share no state. A behaviour picks one of them (`part`) and leaves the
others at rest, so the state spaces add up and do not multiply. `MCKubeOVN`
extends `GlobalVPC`, `SiteVPC` and `NativeExtension`, `MCGateway` extends
`GatewayRegistry`, `GatewayRollout` and `GatewayDiscovery`, whose specifications
therefore have names of their own (`GlobalSpec`, `SiteSpec`, `RegistrySpec` ...);
what the runs check are the very formulas the theorems state. Initial budgets (`Domains`, `Attachments`,
`Settings`, `Scenarios`) have named assumptions that TLC evaluates on every run.

### NetworkIDRegistry

`seq`, `anchor` and `shards` are the ConfigMaps; `uid` fields count incarnations,
`next = 0` and `anchor = 0` mean absent. `view[p]` holds what allocator `p` has
read or written, `pc[p]` where it is in the function. Labels follow the code:
list the shards (`Scan`), get the anchor, get or create the sequence,
diagnose (`CheckSequence`), create the anchor, split the request (`Allocate`),
create shards, reserve with one conditional update, publish the claims of each
shard, return. `Fail` is every error return. `Abort` is a crash, an API error,
or (after a write) a lost response. `LoseSequence`, `LoseAnchor` and `LoseShard`
destroy objects; sequence and anchor are the registry's two witnesses and are
never both destroyed, because without either the code has nothing to tell a
fresh installation from a wiped one.

`issued`, `answers`, `damage`, `gone` are histories that only properties read.
`MaxAborts`, `MaxDamage` bound the environment; `MaxID` is the end of the ID
space (16777215 in the code) and `ShardCapacity` the size limit of a ConfigMap.
Which key of one block gets which ID is not told apart (the code sorts them).

### PlatformPlan and ManagedVPC

A spec is a record of sets: local subnets, those of them that are terminating,
exported remote prefixes, authorised locations, remote locations with
registered gateways. Its revision is the SHA-256 of its content
(`plan.go:53`), so the model uses the spec itself as its revision: equal content
is equal revision, also when one was published long before the other.
`Spec.Deleting` is derived (no local subnet, `plan.go:114`).

The authority's pass is `ListSubnets` (with the VPC it read), `ListBindings`,
then the one write with the highest precedence: `ForgetTombstone`,
`AddFinalizer`, `RejectTerminating`, `PersistClaims`, `BindSubnet`; otherwise
`StartPlan`, after which each planned binding is read again (`ApplyBinding`) and
created, updated or kept, and finally one of `PersistRefs`, `RemoveFinalizer`,
`ReleaseClaims`, `FinishPass`. A pass ends at its first write, as in the code.
Writes are conditional on what the pass read. `FinishPass` is one step although
the code deletes the bindings of a removable VPC before it takes the finalizer:
when a pass gets there no binding is left to delete. A pass that finds all
tombstones acknowledged first releases the last claims and ends, and the next
ones forget the tombstones. TLC finds `Planned = {}` wherever `FinishPass` removes
the VPC, in `vpc_lifecycle`, in `vpc_handover`, and with two connected sites that
are both being deleted.

The syncer's pass is `SyncList`, `SyncApply`, `SyncUpload`. The site's pass is
`SiteRead` followed by the first step of the fixed order recover receipts,
disconnect, create, connect, delete, acknowledge that has something to do.
`CreateNative` and `RecordReceipt` are separate writes; `LoseReceipt` is a crash
between them.
`KubeOVN` (external) installs the route intent.

Reductions, and why they lose nothing:

- A pass that has only read so far can be abandoned without a trace, so
  crashes are modelled only between two writes of one pass.
- Conditional writes compare content instead of a version. Where content
  returns to an earlier value the model allows a write the API would refuse,
  which only adds behaviours. None of the reported counterexamples uses one.
- A syncer pass that starts in sync changes nothing and is not modelled. Nor is
  a site pass that starts with everything done and acknowledged: only the site
  itself changes its native state, so all it could do is acknowledge again.
- The bindings of a plan are looked at in one fixed order (sorted names).
- Subnets of equal age may be admitted in any order.
- Prefixes overlap when they are equal.

Not in these two modules: the first two passes of a new VPC (finalizer, network
ID), `assignTransport` and link allocations, validation of names and prefixes
against the configuration, the native `Vpc` and its transit subnet, allocations,
endpoint (Pod and IP) guards before a native subnet is deleted, and several
processes of one site running at once. Gateways are registered or not; the gateway report is ready when
every remote location is among the peers.

### LocalAllocation

`ledger` and `identity` are the two ConfigMaps, `binding` the local bindings with
their receipt and whether they were ever realised. `view[p]` is what process `p`
holds, in the order of the code: its own copy of the binding (`Begin`), the list
of bindings, the identity, the ledger (read or created), then `Check`, which is
every validation between the reads and the next write, then the identity, the
reservation (`Reserve`, the first free index of both pools, conditional on the
copy of the ledger), the receipt (conditional on the copy of the binding), and
`Return`, which hands the addresses to the reconciler. `Fail` is every error
return and `Abort` a crash, an API error or a lost response. `CreateBinding`,
`Realise` and `ReplaceBinding` are what the syncer and the reconciler do to
bindings as far as `allocate` sees it.

A site asks for fenced recovery without need in one case, which `NoFalseFence`
states and bounds: a process that looked for the identity before another one's
bootstrap wrote it, and then finds that one's reservations in the ledger, reports
the identity as missing (`allocation.go:171`). Its next call finds both.

`LoseLedger`, `LoseIdentity` and `LoseBinding` destroy objects in any order and
number up to `MaxDamage`, with one restriction (`Witnessed` and the guard of
`Lose`): when ledger and identity are both destroyed, no call is under way and
some binding keeps a receipt. `allocate` reads the bindings first and cannot
notice a loss of both during the call; without any receipt a wiped site looks
like a fresh one. Neither is a promise of the code.

A transit prefix and a BFD source are indices into the pools, which start at 0
for prefixes and leave out the network and broadcast address for sources.

### NetworkIDs and the refinement

`NetworkIDs` knows neither allocators nor objects: a key draws IDs nobody else
drew, its claim is one of them and is never exchanged, and callers are told the
claim. `Implements` maps `issued`, the shards, `answers` and the keys of
destroyed shards to its four variables; every action of `networkIDs` must then
draw, claim, tell, lose or do nothing. It says in one formula what the four
registry invariants say separately, and what a step between them may do.

### GatewayRegistry

Objects are functions of the binding; `Operators` are the processes; a claim is `[b, node, id, peer]`, with
`Health` as the peer of a member's own address. A process runs one pass for one
binding: `Ensure` when the binding has remote subnets, `Delete` when it has
none. `ListLedgers`, `ListBindings`, `ListGatewayPods`, `ListKeys`,
`GetIdentity`, `GetRegistry` with `Diagnosis` are `registry`, read by read;
`CreateRegistry` and `CreateIdentity` its bootstrap; `Allocate` the conditional
update that adds a claim (the first free address and port); a conflict starts
`registry` again, `Steps` times in all (10 in the code); then ledger, keys,
links, Pods and the status report. `Delete` is Pods, keys, a second check,
ledger, status. `Abort` is a crash, an API error or a lost response; `Lose`
destroys registry, identity, a ledger or a key. Registry and identity are not
both destroyed: the claims of members that were deleted are retained in the
registry alone, so that once both are gone and no member is left the site looks
fresh. Two processes stand for a deposed leader and its successor.

`hurt` names what the code answers by asking for explicit recovery (and which of
registry and identity was destroyed). Besides destroyed objects these are two behaviours of the code itself, which the
properties except and a reader should know:

- a `Delete` that is cut between keys and ledger, when the binding gets remote
  subnets again before it is resumed, leaves a ledger that names a key that is
  gone: `GatewayKeyLost` for good (`reconciler.go:522`, `764`);
- the same, or a lost ledger, when a stale `Ensure` of a deposed leader overlaps
  its successor's `Delete`.

Two answers ask for recovery although nothing is damaged, because a process reads
one object before and another after its rival's bootstrap: "IdentityLost", when
it looked for the identity before the rival created it and finds the rival's
claims in the registry (`registry.go:198`), and a lost ledger, when it looked for
the ledger before the rival created it and finds the rival's resources
(`reconciler.go:444`). `Finding` says what a pass concludes from its next read, and
`NoFalseFence` that these two answers need a second process, that the object is
there when they are given, with the right UID, and that there is no third.

Claims are retained when a member goes, so a site whose bindings come and go
uses up the pool in the end; the runs have addresses enough.

### GatewayRollout

A generation stands for the hash of configuration, files and image. One pass is
`Begin`, then per member `ReadPod`, `EnsureConfig`, `CreatePod` or `ExaminePod`,
`Probe`, `RetirePod`, then `ListPods`, `ListConfigs`, `DeleteConfig`. The kubelet
makes Pods ready and converged unless their generation is bad; `Fail` breaks a
serving member, which recovers by itself. Peers answer (publish their end)
after a change. Observed in the model and left as it is:

- two overlapping leaders that want different generations can retire one member
  each, so `OneAtATime` is checked with the two wanting one generation;
- overlapping passes can prune a configuration the other is creating a Pod for
  (`reconciler.go:824`), after which no pass goes on: `Stranded`, an exception;
- when no member serves a good generation and a bad one is wanted, an update is
  blocked until the bad one is replaced in the snapshot. That is deliberate.

### GatewayDiscovery

Status of one site, the authority's listed copy and the spec of the other site
are three places; `Register`, `Deploy` and `Retire` are the site's side,
`ListStatuses` and `WriteSpec` the authority's (with `assignTransport` giving a
pair its network identifier in the profiles that need one). `Toggle` joins and
parts the sites.

### GlobalVPC

`gvpc` is the stored object with its records, `lock` the domain's ConfigMap,
`dep` a native IC Deployment down to its Pod (`want`, `seen`: the controller has
caught up, the same for the ReplicaSet, and the Pod), `cr` the Kube-OVN objects,
`nb` what is in a cluster's NB database, `row` the Transit_Switch row. A pass is
a chain of steps in the order of the code: `Inspect`, `Reserve`, per cluster and
kind `Ensure` and `Record`, `Ready`, `Acquire`, `PauseSets`, `PausePods`, `Mark`,
`EnsureTransit`, `Gateways`, `SaveResume`, `Resume`, `Unpause`, `Release`, `Link`,
`Finish`; the removal has the second endpoint check (`Recheck`),
`WithdrawRoutes`, `DeleteTransit`, `DeleteSubnets`, `DeleteVpcs`,
`SaveDeleteResume`. External: `Workload` (Kubernetes), `KubeOVN`, `NativeIC`,
which deletes a marked switch without a row and adds a second one for a row
without a marked switch.

One process is assumed, as in `cmd` (`MaxConcurrentReconciles: 1`, uncached
reads); `docs/controller.md:104` says that nothing fences a stale writer.
Consumers and crashes are not combined in the passing run: the combination is
the finding below, and `docs/controller.md:112` asks operators to stop admission
first. A consumer that appears while the removal is quiescing over several
passes is met by the first check, which returns with the lock held and native IC
paused (`reconciler.go:373`): nobody else gets the domain until the consumer
leaves, which is why `Settles` assumes that consumers do (`Draining`).

### SiteVPC

One pass, `Start` to `EnsureECMPFields`, and the removal from `DrainCheck` to
`Finalize`. `hops` are the routes Kube-OVN wrote, each with the BFD row it
references. A destroyed row clears the reference and leaves the route, so
`Conflicts` has to withdraw the route before a new row can be used. `late` is a
gateway request whose outcome is unknown: `LateGateway` may happen at any later
moment. If it happens once the network is being removed, the gateway is a leak
(`stray`), which `remove` cannot know of.

The gateway is what the shipped backend (`scripts/site_gateway.py`) makes of it:
per member a ConfigMap and a Pod, here one of each kind (`Pieces`). An `Ensure`
refuses before it creates anything (`EnsureAccepted`), then creates what is
lacking, the ConfigMap first; a `Delete` removes Pods, which take their time, and
then ConfigMaps. Either may be cut off after any of its writes, and the write that
was under way may take effect later. Three simplifications: the members' objects
of a kind come and go together, a Pod that exists is ready, and a retry of
`Ensure` settles the create before it. Without the last one, a request that takes
effect after the retry's own objects were deleted blocks the removal with "UID
changed".

### NativeExtension

A plan is the chain of images from the first installation on plus the
Deployment's resourceVersion the first plan saw. The hook's steps are its API
calls (`Load` to `DeleteReceipt`); a wait that times out is a failure that is
retried. `Rollout` is Kubernetes, `Control` the patched controller: it reads a
generation, writes OVN, and acknowledges that generation, so a reconcile in
flight can write rows after the hook looked. `AddIntent` keeps the documented
discipline (`docs/vpcctl.md:233`): no new routes once the removal was asked for.
One hook runs at a time (Job deadline, `before-hook-creation`). Left out: dry
runs, owners and foreign drift, resourceVersions of the CRD, failed route
reconciles, and building images. The original image is taken as pinned.

`Refused` lists what a retry cannot overcome, exactly: a stale first plan (see
the finding); an uninstallation of a pending upgrade whose image is still the
previous one, which is refused as drifted (`native_lifecycle.go:455`); another
revision that is pending; and rows that a reconcile in flight wrote for a Vpc
that never acknowledged, after the checks, when only the original controller is
left (`native_lifecycle.go:133`).

## Runs

| run | instance | shows |
|---|---|---|
| `ledgers` | IDs: 2 allocators, 2 keys in 2 shards, 3 IDs, 1 abort, 1 destroyed object. Addresses: 1 process, 2 bindings that are replaced, 1 abort, 2 destroyed objects, 2 sources. Gateways: 2 processes bootstrap 2 bindings | no ID reused, answers stable, no false alarm, the abstract directory implemented; `HandedOutOnce`: addresses exposed only after ledger and receipt, no gateway address announced twice |
| `vpc_lifecycle` | 1 site, 2 Subnets with one prefix, from nothing, fair | no false "binding missing/replaced"; a gone VPC leaves nothing behind; a deleted VPC goes away |
| `vpc_leave` | 2 connected sites, one leaves | installed routes always have gateways |
| `vpc_handover` | 2 sites with siblings, a prefix moves between them, fair | claims cover native subnets, no overlap, routes stay remote, no early withdrawal, deleted Subnets go away |
| `allocators` | addresses: 2 processes, 2 bindings, from nothing, fair. IDs: 2 allocators that retry, 1 abort | addresses exclusive and exposed only after ledger and receipt; an undamaged site asks for fenced recovery only from a process that missed the other's bootstrap; every binding gets a receipt and every key its claim, whatever half-finished bootstrap a lost race or a crash leaves |
| `gateway` | registry: 5 worlds; rollout: 3; discovery: 2 sites, 3 joins and parts, with and without authority-issued identifiers | addresses, ports and keys exclusive and stable; recovery asked for after damage, and otherwise only by a process that missed another one's bootstrap; one member at a time; no configuration pulled from under a Pod; no link without its other end; all of it converges |
| `kubeovn` | GlobalVpc: 5 worlds of up to 2 clusters or 2 VPCs; SiteVpc: 4; extension: 4 | the barrier holds; no self-made conflict; nothing survives a finalizer (`GoneClean`, `SiteIntact`); routes monitored; gateway before network; schema last; receipt complete; everything settles |
| `vpc_stale_ack`, `vpc_stale_plan`, `vpc_last_peer`, `kubeovn_recheck`, `kubeovn_retry` | see findings | violations |

Bounds. Two allocators are enough for every pairwise race of the registry, and
the invariants are proved for any number. Three IDs for two keys leave one to
burn and then reach exhaustion. In the VPC runs, one site suffices for
admission, incarnations and deletion; two sites are the least with a peer; the
third Subnet keeps two sites connected while the first drains, and the fourth
reuses its prefix. Established Subnets start in the steady state the protocol
itself reaches, which keeps the runs inside minutes. The two bindings of
`ledgers` are each replaced once, so four reservations compete for three
prefixes and two sources, and two destroyed objects are enough to lose both
ledger and identity; names are symmetric. Processes and damage are unbounded in
the proofs.

The worlds of `MCGateway` and `MCKubeOVN` are sets of initial budgets, because
all faults at once would not finish: one world each for leadership moving, for
crashes, for destroyed objects, for two bindings or VPCs that compete, for an
edited registration, for consumers. Three changes of a snapshot are a join, a
part and a return under retained claims; two generations after the first, one of
them bad, are the least in which a rollout has to get past a generation that
never serves; an allocation tries three times where the code tries ten: with two
processes, two conflicts followed by a success or by giving up; three requests to the extension are an installation, an upgrade
and either a rollback or a removal, one of them cut off. What a world leaves out
is a combination of faults, not a kind of fault.

Deadlock is checked for `allocators`. In the other runs
the system may stop: once users and faults are done everything is in sync or
gone and nothing is left to do. That it stops in the right state is what their
liveness properties say.

Fairness. The authority requeues every pass (`again`, on errors through
controller-runtime), a syncer is a ticker, a site reconciler requeues, Kube-OVN
resyncs: each gets weak fairness as one process. Users, crashes and losses get
none. Where one process serves several objects, the work queue hands out every
object again and again: strong fairness of `Begin`, because an object waits
while another is worked on (`allocators`, `gateway`, `kubeovn`). In
`gateway` the kubelet finishes what a good generation allows and remote sites
answer; in `GatewayDiscovery` any outdated spec is written sooner or later. In
`kubeovn` Kubernetes, Kube-OVN and native IC work, consumers and guests leave in
the end, a failed hook is retried, and routes are withdrawn where the documents
ask for it before a removal. `vpc_last_peer` fails under these assumptions and
also when each of the steps is given strong fairness.

## Findings

- **A stale acknowledgement releases a claim early** (`vpc_stale_ack`,
  `RoutesClaimed`). An acknowledgement is matched by content hash
  (`reconciler.go:280`). When a Subnet comes and goes quickly, a peer's spec
  returns to content it acknowledged before. If the peer's syncer accepts the
  short-lived spec late, the old acknowledgement already counts for the new one:
  the claim is released while the peer goes on to install the route.
- **The plan is older than the acknowledgement check** (`vpc_stale_plan`,
  `GoneIsWithdrawn`). `Build` decides from listed bindings whether a terminating
  prefix is still exported; `allApplied` uses bindings read afterwards. When the
  source's acknowledgement arrives in between, the finalizer is removed before
  the peer has been told to withdraw. The claim survives until it has.
- **Deleting the last Subnet of a site can go round for ever** (`vpc_last_peer`,
  `DeletionCompletes`). The withdrawal makes the peer remove its gateways, which
  changes the draining site's `Spec.Peers`, so its acknowledgement no longer
  counts, so the prefix is exported again, so the peer registers its gateways
  again. With a sibling Subnet the deletion completes (`vpc_handover`).
- **A consumer restarts native IC over a half-made network** (`kubeovn_recheck`,
  `Barrier`). `remove` checks the endpoints again behind the barrier and resumes
  native IC when one appeared (`controller/reconciler.go:398`), whatever an
  earlier pass left. After a bootstrap cut between `Mark` and `EnsureTransit`, or
  a removal cut after `DeleteTransit`, native IC then finds a marked switch
  without a row and deletes Kube-OVN's switch, which is what the comment at
  `ovn/exec.go:339` warns of.
- **A retried installation can be refused for ever** (`kubeovn_retry`,
  `RetriesComplete`). The pending plan pins the Deployment's resourceVersion
  (`vpcctl/native.go:670`) and every retry resumes that plan; one write of the
  Deployment, its status included, before the schema is patched makes it stale.
  The chart's README promises that failed hooks "can be retried with Helm". Only
  an uninstallation drops the plan.

## Proofs

Every component has a proof module. The theorems hold for every
value of the constants that meets the named assumptions; none bounds how many
processes, objects, crashes or losses there are. Each component has an inductive
invariant (`IInv`), checked by TLC before it was proved, one lemma per
action, `NextInv` or `NextStep` that puts them together, and theorems that follow
from `Invariant`. Assumptions about constants:

| assumption | says | why the code justifies it |
|---|---|---|
| `ShardAssumption`, `RequestAssumption`, `BoundAssumption` | keys have shards, requests are finite, bounds are naturals | a hash, a slice, constants |
| `PoolAssumption`, `LimitAssumption` | pools are sets of indices | prefixes of the configuration |
| `LocationAssumption`, `CIDRAssumption`, `UserAssumption` | a Subnet has one location and one prefix | immutable fields of the API |
| `SteadyAssumption` | the Subnets of the initial state are finitely many and do not overlap | it is a state the protocol itself reaches |
| `RegistryAssumption` | pools of positive numbers, finitely many processes and tries, a world selects at least one node | the configuration; `validate` asks for two replicas |
| `SettingAssumption`, `DomainAssumption`, `AttachmentAssumption` | the shape of initial budgets; nothing is destroyed yet; a free lock has no holder | definitions of the model's worlds |

### ManagedVPC

`Claimed` (`NativeClaimed`), `Disjoint` (`NoOverlap`), `Routed`
(`RoutesHaveGateways`), `NeverBlocked` (`NoFalseBlock`) and `NothingLeft`
(`VPCGoneClean`), for any locations and Subnets.

A claim is released on the strength of acknowledgements that have travelled from
the site through two copies, compared with a plan made from lists. None of the
properties says anything about what is on the way. The invariant does:

- `LifeInv(s, l)`: if Subnet `s` *runs* at `l` (is native there, or any of the
  copies, the authority's, the one listed by the syncer, the accepted one or the
  one the site's pass works on, wants it) then it is claimed, belongs to `l`
  and is not gone; if its removal is under way or acknowledged anywhere, then
  its owner has deleted it, and a pass of the authority has seen that; once the
  removal is acknowledged anywhere it runs nowhere; and no copy downstream is
  ahead of one upstream (`Ordered`);
- `ListedInv`, `PlanInv`: what a pass of the authority listed is still so, except
  that users delete; what it read again has the wanted spec; recorded UIDs name
  what exists; `Apart`: claims do not overlap;
- `SiteInv`: a site's pass works on the current status or on a copy that was
  replaced with nothing left to do; intended or installed routes have gateways; an
  acknowledged tombstone means an empty site;
- `AgeInv`: no copy is of a later incarnation than the authority has made, and a
  binding is deleted only with its tombstone acknowledged by the present
  incarnation at the site;
- `Formed`, `LiveInv`: specs are consistent; a VPC that is gone has no binding
  and no finalizer.

The heart is `RemoveFinalizerStep`: a pass that releases a Subnet has read,
again, an acknowledgement of the very spec that wants it gone, so by `LifeInv` it
runs nowhere. `ReleaseClaimsStep` follows from the same fact. Acknowledgement by content hash does not harm here,
because a spec that names a terminating Subnet never returns to one that does not.

### Network ID registry

`TypeCorrect`, `NeverReused`, `AnswersAgree`, `AnswersInRange`, `AlarmsAreReal`,
`RetainedForGood`, and `KeepsItsPromise`: `Spec => Implements`, the refinement of
`NetworkIDs`.

None of the properties is inductive. That no two keys share an ID needs that a
block of IDs always lies above everything issued, which needs that an allocator
about to reserve holds the sequence the anchor names, which needs that
incarnations only grow. `IInv` is the conjunction of

- `TypeOK`;
- `UIDInv`: copies never name a later incarnation than the stored object;
- `SequenceInv`: every issued ID lies below the sequence, and a copy of the same
  incarnation is not ahead of it;
- `AnchorInv`: while the anchor is intact, an allocator that is cleared to issue
  holds the incarnation the anchor names, and before the anchor exists nothing
  has been issued;
- `IssuedInv`: no ID was issued for two keys;
- `OriginInv`: every claim, answer and reserved result was issued for its key;
- `RetentionInv`: what an allocator saw, or returned, is still in its shard
  unless that shard was destroyed;
- `NoFalseAlarm`.

For the refinement, `Reserve` is a draw, `Publish` a claim, a returning call a
telling, `LoseShard` a loss, and every other action a stutter.

### LocalAllocation

`TypeCorrect`, `NeverShared` (`Exclusive`), `ReceiptBeforeUse` (`CommittedFirst`)
and `AlarmsAreReal` (`NoFalseFence`). `Exclusive` only looks at what was handed
out; it follows from an invariant about everything that was ever reserved:

- `ObjectsInv`: the reservations are free of conflicts, and ledger and exposed
  addresses are among them;
- `RetainedInv`: a ledger that was never destroyed, or that an undestroyed
  identity names, has all of them;
- `WitnessInv`: with both destroyed, ledger and identity never exist together
  again, because some binding has a receipt;
- and for each process `CopyInv` (copies are not ahead of the objects),
  `IdentityInv` (the identity it knows is the stored one), `BootstrapInv` (who
  creates a ledger or identity saw no evidence) and `ClearedInv` (what `Check`
  established).

The core is the lemma `Complete`: a process whose conditional ledger update
succeeds holds a ledger with every reservation ever made, in each of the three
cases of damage, so the addresses that are free in it were never given away.

The other two theorems rest on a second invariant, `RInv`, proved on top of the
first: incarnations of bindings only grow and what a process has read of them is
genuine (`BindingsInv`, `OwnInv`), the ledger it holds covers every receipt it
listed because the list is read first (`CallInv`), there is one ledger until one
is lost (`FirstLedgerInv`), and nothing is handed to the present incarnation of a
binding without a receipt (`RecordedInv`). `AlarmsAreReal` covers every outcome
that asks for recovery. For the identity that is reported missing it needs a third
invariant, `MissedInv`: while a process that has nobody beside it goes from its
read of the identity to the creation, the identity is still what it read.

### Gateways

`GatewayRegistryProofs`: `AnnouncedOnce` (`Exclusive`), `AnnouncedKey`
(`KeyStable`), `FencedForDamageOnly` (`NoFalseFence`) and `RegistryTyped`, for any
processes, bindings, peers, members, pools, crashes and destroyed objects.

An announced address may long be gone from every ledger when it is drawn again,
and the registry itself may have been destroyed and begun anew. So the invariant
speaks of something no variable holds: `g`, every claim that was ever granted.
`IInv` says that there is such a `g` (`\E g : Inv(g)`), and a step that adds a
claim names the next one. For a `g`,

- `Grants`: no address belongs to two claims, no port of a node to two;
- `Records`, `Reported`: ledgers, statuses and everything ever announced hold
  only what was granted;
- `Registered`: the identity pins a registry before anything is granted
  (`Pinned`), a UID stands for one registry (`UIDs`), and the registry that
  passes can write to holds all of `g` (`Kept`);
- `Passes`: what each process has done so far (`Local`), that the copies it holds
  name nothing but what was granted, and that a registry it is about to write to
  is the one the identity pins (`Seen`).

The core is that a conditional update of the registry can only succeed on a copy
with all of `g` in it, so that the first free address is free of `g`. Without `g`
the invariant would not be inductive: nothing else remembers a deleted member.

The other two rest on invariants proved beside it. `KInv` (one process): an
identity is drawn once, belongs to one member of one binding (`Apiece`), and the
members a pass holds have the keys that were announced for them (`Faithful`).
`MInv` (nothing hurt): a binding without ledger has neither Pods nor keys, every
recorded key is stored, except of the binding whose keys are being deleted, and
the pass that deletes has listed all there is (`Inventory`). `Alone` says when a
pass has nobody beside it. `FencedForDamageOnly` is about what a pass concludes from
reads that may be old by then: `RegistryIntact` says that without damage the identity
pins the registry before there is anything else and that what members hold is
registered, and `ReadInv` that this still holds of what a pass has read (`Told`, `Missed`),
because registry and identity only grow (`Grown`). What remains are the answers of
a pass that looked too early, which the property bounds.

`GatewayProofs`, on `GatewayDiscovery`: `LinksTyped` and `EndsMeet` (`Reciprocal`)
for any sites. A listed status or a peer in a spec may be old; `Outlived` says
that it shows nothing its member has withdrawn since, as long as the identifier
is the same.

On `GatewayRollout`: `ConfigsKept` (`ConfigInUse`) and, with one process,
`OneMemberOut` (`OneAtATime`), for any members, generations, failures and
crashes. `Local` says what the process is about to do is sound where it is: a
Pod is created only with its configuration in place, what it listed can only go
away, a member is retired only while its siblings are not being replaced.
`ConfigInUse` excepts overlapping processes itself, `OneAtATime` is stated for
one; the run has the case of two.

### Legacy controllers and the extension

`GlobalVPCProofs`: `OwnObjectsAccepted` (`NoFalseConflict`) and `NothingSurvives`
(`GoneClean`) with any VPCs, clusters, consumers, crashes and losses, and
`BarrierHolds` (`Barrier`) when no consumer ever appears (`Guestless`): with
consumers it is false, see `kubeovn_recheck`. `Sound` holds of each VPC at any
time (what is recorded is what exists or is missing; a half-made network exists
only with the lock held, no operation recorded and all native IC stopped);
`Place` says what the pass has established at each of its labels, loops over
clusters included.

`SiteVPCProofs`: `RoutesMonitored` (`Monitored`), `GatewayBeforeNetwork`
(`GatewayFirst`) and `OwnAndClean` (`SiteIntact`), for any members. `RouteInv` is
the core: unless somebody destroys a row, a route exists or is asked for only
with the row it references. `NetworkInv` says what a removal knows of the gateway:
the Pod is gone once the network is being removed, and a ConfigMap that comes late
comes while the transit network is still there, where the removal stops and the
next pass sees it, or counts as stray.

`NativeExtensionProofs`: `SchemaOutlives` (`SchemaLast`) and `NothingUnreceipted`
(`Receipted`), for any images and requests. The invariant says which plan a hook
works on (`PlanInv`: the receipt, or about to become it) and what it has checked
(`InstallInv`, `RestoreInv`) at every call where it can be cut off.

### Only model-checked

- Liveness (`DeletionCompletes`, `VPCDeletionCompletes`, `IDsComplete`,
  `EventuallyAllocated`, `Converges`, `RolloutCompletes`, `DiscoveryCompletes`,
  `Settles`, `SiteSettles`, `HookCompletes`): fairness and `ENABLED` are beyond
  the prover.
- `HandedOutOnce` of the run `ledgers`, a conjunction over the fixed instances of
  `MCLedgers`. Its two halves are proved in general: `ReceiptBeforeUse` for the
  addresses of a site, `AnnouncedOnce` for the gateways.
- `OneAtATime` with two processes that want the same generation: with any two
  generations it does not hold, and the restriction is one on the run.
- `RoutesAreRemote` of `ManagedVPC`. It is not true in general: after the stale
  acknowledgement of `vpc_stale_ack` a prefix can be admitted at the very site
  that still installs the route (TLC shows it with that run's constants and `s4`
  added). It holds in `vpc_handover`, where the prefix moves without such a history.
- `NoEarlyWithdrawal`, also a property of `vpc_handover` alone. In general it is not
  true either: when two Subnets of a site had one prefix, the second admitted after
  the stale acknowledgement of `vpc_stale_ack` released the claim of the first, a
  remote site may still have the old route, and the withdrawal that was on its way
  then takes the route of the new Subnet (TLC shows this with two sites and four
  Subnets). The code does not rule such a history out, so no theorem is stated.
- The type invariants of `ManagedVPC` and of `GatewayRollout`, `GlobalVPC`,
  `SiteVPC` and `NativeExtension` are not part of a run; the proofs have their own
  (`Shapes`).

## Not modelled

- Overlapping syncers of one site (`localcontroller/sync.go`): the generation
  check that would matter then never fires with one syncer.
- The route and BFD transaction of the Kube-OVN patch (`integration/kube-ovn`)
  with its guards and orphan collection; only the order of reading, writing and
  acknowledging is.
- Command construction and output parsing of the OVN adapter, the requests to
  IPAM services, the gateway runtime's processes and files, the building of
  images (`native_build.go`), the read-only chart hook, `vpcctl`'s commands and
  the wiring in `cmd`: I/O and formatting without state of their own. The wiring
  is where the concurrency and fairness assumptions come from.
- Foreign objects with a name the controllers want: every controller refuses
  them before it does anything, so a model with them only stops earlier.
- Validation of names, prefixes and configuration.

## Plan

Every safety property that a passing run checks is proved, except for the cases
listed under "Only model-checked". Modelling that is left: overlapping syncers, the
native `Vpc` and transit subnet of the local reconciler, the route and BFD
transaction of the Kube-OVN patch. The first would put `Ordered` to the test:
it rests on the syncer's copy being read by one pass at a time.
