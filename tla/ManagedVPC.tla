----------------------------- MODULE ManagedVPC -----------------------------
(***************************************************************************)
(* The life of one managed VPC: the platform authority admits Subnets and  *)
(* publishes one NetworkBinding per location; each site's syncer copies    *)
(* the binding down and its status up; each site's reconciler turns the    *)
(* accepted snapshot into native objects and acknowledges it.              *)
(*                                                                         *)
(* Four kinds of loops interleave, each a series of API calls on state it  *)
(* read earlier.  All writes are conditional on what was read (resource    *)
(* versions), modelled by comparing the object with the copy that was      *)
(* read.  A pass that only read can be abandoned at any point without a    *)
(* trace, so a crash shows only between two writes of one pass.            *)
(***************************************************************************)
EXTENDS PlatformPlan

CONSTANTS
    Established, \* Subnets that are already running in the initial state
    Deletable,   \* Subnets whose owner may delete them
    VPCDeletable \* whether the owner may delete the VPC

ASSUME UserAssumption ==
    /\ Established \subseteq Subnets
    /\ Deletable \subseteq Subnets
    /\ VPCDeletable \in BOOLEAN
ASSUME SteadyAssumption ==
    /\ IsFiniteSet(Established)
    /\ \A s, t \in Established : s # t => ~Overlaps(s, t)

VARIABLES
    vpc,      \* [claims, refs, deleting, live]: the public VPC's status
    subnet,   \* public Subnets: [state, fin, bound]
    binding,  \* authority NetworkBindings: [uid, spec, status]
    born,     \* how many incarnations each authority binding has had
    auth,     \* the authority's pass: [pc, deleting, subnets, bindings, got]
    sync,     \* each site's syncer: [pc, remote, status]
    local,    \* each site's copy: [src, spec, status]
    site,     \* each site's reconcile pass: [pc, seen]
    native,   \* Kube-OVN at each site: [subnets, routes, installed]
    blocked   \* Blocked reasons the authority ever reported

vars == <<vpc, subnet, binding, born, auth, sync, local, site, native, blocked>>
authority == <<vpc, subnet, binding, born, auth, blocked>>
sites == <<sync, local, site, native>>

NoBinding == [uid |-> 0, spec |-> EmptySpec, status |-> EmptyStatus]
NoLocal == [src |-> 0, spec |-> EmptySpec, status |-> EmptyStatus]
NoBindings == [l \in Locations |-> NoBinding]
NoSubnet == [state |-> "none", fin |-> FALSE, bound |-> FALSE]
NoSubnets == [s \in Subnets |-> NoSubnet]

AuthIdle == [pc |-> "idle", deleting |-> FALSE, subnets |-> NoSubnets,
             bindings |-> NoBindings, got |-> NoBindings]
SyncIdle == [pc |-> "idle", remote |-> NoBinding, status |-> EmptyStatus]
SiteIdle == [pc |-> "idle", seen |-> NoLocal]
NoNative == [subnets |-> {}, routes |-> {}, installed |-> {}]

\* The steady state of a location: its binding was created with all Subnets
\* bound, updated once when the gateways registered, and acknowledged.
Running == {LocationOf[s] : s \in Established}
SteadySpec(l) ==
    LET here == {s \in Established : LocationOf[s] = l} IN
    [subnets |-> here,
     deleting |-> {},
     remote |-> {<<LocationOf[s], CIDROf[s]>> : s \in Established \ here},
     authorized |-> Running,
     peers |-> Running \ {l}]
SteadyStatus(l) ==
    [applied |-> {SteadySpec(l)},
     resources |-> {s \in Established : LocationOf[s] = l},
     gateways |-> Cardinality(Running) > 1,
     deleted |-> FALSE]
SteadyRoutes(l) == {r[2] : r \in SteadySpec(l).remote}

\* A registered VPC (finalizer and network ID assigned); with nothing
\* established it has no Subnet yet.
Init ==
    /\ vpc = [claims |-> Established,
              refs |-> [l \in Locations |-> IF l \in Running THEN 1 ELSE 0],
              deleting |-> FALSE, live |-> TRUE]
    /\ subnet = [s \in Subnets |->
          IF s \in Established THEN [state |-> "active", fin |-> TRUE, bound |-> TRUE]
                               ELSE NoSubnet]
    /\ binding = [l \in Locations |->
          IF l \in Running THEN [uid |-> 1,
                                 spec |-> SteadySpec(l), status |-> SteadyStatus(l)]
                           ELSE NoBinding]
    /\ born = [l \in Locations |-> IF l \in Running THEN 1 ELSE 0]
    /\ auth = AuthIdle
    /\ sync = [l \in Locations |-> SyncIdle]
    /\ local = [l \in Locations |->
          IF l \in Running THEN [src |-> 1,
                                 spec |-> SteadySpec(l), status |-> SteadyStatus(l)]
                           ELSE NoLocal]
    /\ site = [l \in Locations |-> SiteIdle]
    /\ native = [l \in Locations |->
          IF l \in Running THEN [subnets |-> SteadySpec(l).subnets,
                                 routes |-> SteadyRoutes(l),
                                 installed |-> SteadyRoutes(l)]
                           ELSE NoNative]
    /\ blocked = {}

-----------------------------------------------------------------------------
(* Users.                                                                  *)

CreateSubnet(s) ==
    /\ vpc.live
    /\ subnet[s].state = "none"
    /\ subnet' = [subnet EXCEPT ![s].state = "active"]
    /\ UNCHANGED <<vpc, binding, born, auth, blocked, sites>>

\* Deletion waits for the finalizer when there is one.
DeleteSubnet(s) ==
    /\ s \in Deletable
    /\ subnet[s].state = "active"
    /\ subnet' = [subnet EXCEPT ![s].state =
                     IF subnet[s].fin THEN "terminating" ELSE "gone"]
    /\ UNCHANGED <<vpc, binding, born, auth, blocked, sites>>

DeleteVPC ==
    /\ VPCDeletable /\ vpc.live /\ ~vpc.deleting
    /\ vpc' = [vpc EXCEPT !.deleting = TRUE]
    /\ UNCHANGED <<subnet, binding, born, auth, blocked, sites>>

-----------------------------------------------------------------------------
(* The authority's Reconcile.                                              *)

EndPass == auth' = AuthIdle

\* A conditional write of the VPC: it conflicts when the owner deleted the VPC
\* since the pass read it.  Nobody but the authority writes the rest of it.
WriteVPC(new) == vpc' = IF vpc.deleting = auth.deleting THEN new ELSE vpc

\* Get the VPC and list its Subnets.
ListSubnets ==
    /\ auth.pc = "idle"
    /\ vpc.live
    /\ auth' = [auth EXCEPT !.pc = "listed", !.deleting = vpc.deleting,
                            !.subnets = subnet]
    /\ UNCHANGED <<vpc, subnet, binding, born, blocked, sites>>

ListBindings ==
    /\ auth.pc = "listed"
    /\ auth' = [auth EXCEPT !.pc = "decide", !.bindings = binding]
    /\ UNCHANGED <<vpc, subnet, binding, born, blocked, sites>>

\* What the pass saw.
Present == {s \in Subnets : auth.subnets[s].state \in {"active", "terminating"}}
Terminating == {s \in Present : auth.subnets[s].state = "terminating"}
Finalized == {s \in Present : auth.subnets[s].fin}
Bound == {s \in Finalized \intersect vpc.claims : auth.subnets[s].bound}
Finished == {l \in Locations : auth.bindings[l].uid # 0 /\ CleanedUp(auth.bindings[l])}

\* The first half of the pass makes one write, in this order of precedence.
Deciding == auth.pc = "decide" /\ vpc.live

\* Mutant: the binding is deleted while its receipt is still recorded.
DropTombstone(l) ==
    /\ Deciding
    /\ l \in Finished
    /\ EndPass
    /\ binding' = IF binding[l] = auth.bindings[l]
                  THEN [binding EXCEPT ![l] = NoBinding] ELSE binding
    /\ UNCHANGED <<vpc, subnet, born, blocked, sites>>

\* Mutant: the receipt is forgotten and the binding stays.
KeepTombstone(l) ==
    /\ Deciding
    /\ l \in Finished
    /\ EndPass
    /\ WriteVPC([vpc EXCEPT !.refs[l] = 0])
    /\ UNCHANGED <<subnet, binding, born, blocked, sites>>

\* Forget the receipt of an acknowledged tombstone, then delete the binding.
ForgetTombstone(l) ==
    /\ Deciding
    /\ l \in Finished
    /\ EndPass
    /\ IF vpc.refs[l] \notin {0, auth.bindings[l].uid}
       THEN /\ blocked' = blocked \union {"BindingReplaced"}
            /\ UNCHANGED <<vpc, binding>>
       ELSE IF vpc.refs[l] # 0
       THEN /\ WriteVPC([vpc EXCEPT !.refs[l] = 0])
            /\ UNCHANGED <<binding, blocked>>
       ELSE /\ binding' = IF binding[l] = auth.bindings[l]
                          THEN [binding EXCEPT ![l] = NoBinding] ELSE binding
            /\ UNCHANGED <<vpc, blocked>>
    /\ UNCHANGED <<subnet, born, sites>>

AddFinalizer(s) ==
    /\ Deciding
    /\ Finished = {}
    /\ s \in Present \ (Terminating \union Finalized)
    /\ EndPass
    /\ subnet' = IF subnet[s] = auth.subnets[s]
                 THEN [subnet EXCEPT ![s].fin = TRUE] ELSE subnet
    /\ UNCHANGED <<vpc, binding, born, blocked, sites>>

\* Subnets without a claim, and those of them the code may admit now.
Candidates == Finalized \ vpc.claims

\* Mutant: the prefix of a draining subnet counts as free.
EligibleDespiteDrain ==
    {s \in Candidates :
        ~auth.deleting /\ \A c \in vpc.claims \ Terminating : ~Overlaps(s, c)}

Eligible ==
    {s \in Candidates :
        /\ ~auth.deleting
        /\ ~(auth.bindings[LocationOf[s]].uid # 0
             /\ Tombstone(auth.bindings[LocationOf[s]].spec))
        /\ \A c \in vpc.claims : ~Overlaps(s, c)}

\* The sets of Subnets one pass can admit: it goes through them one by one and
\* rejects a prefix that overlaps one admitted before it.
Admissions ==
    {A \in SUBSET Eligible :
        /\ \A s, t \in A : s # t => ~Overlaps(s, t)
        /\ \A s \in Eligible \ A : \E t \in A : Overlaps(s, t)}

\* A Subnet that was rejected and is being deleted needs no cleanup.
RejectTerminating(s) ==
    /\ Deciding
    /\ Finished = {}
    /\ \E A \in Admissions : s \in (Candidates \intersect Terminating) \ A
    /\ EndPass
    /\ subnet' = IF subnet[s] = auth.subnets[s]
                 THEN [subnet EXCEPT ![s].fin = FALSE, ![s].state = "gone"]
                 ELSE subnet
    /\ UNCHANGED <<vpc, binding, born, blocked, sites>>

\* Nothing of the above is left to do for the admissions A.
Admitted(A) ==
    /\ Deciding
    /\ Finished = {}
    /\ Present \subseteq Terminating \union Finalized
    /\ A \in Admissions
    /\ Candidates \intersect Terminating \subseteq A

\* Claims are persisted before anything is published.
PersistClaims(A) ==
    /\ Admitted(A)
    /\ A # {}
    /\ EndPass
    /\ WriteVPC([vpc EXCEPT !.claims = @ \union A])
    /\ UNCHANGED <<subnet, binding, born, blocked, sites>>

Unbound == (Finalized \intersect vpc.claims) \ Bound

BindSubnet(s) ==
    /\ Admitted({})
    /\ s \in Unbound
    /\ EndPass
    /\ subnet' = IF subnet[s] = auth.subnets[s]
                 THEN [subnet EXCEPT ![s].bound = TRUE] ELSE subnet
    /\ UNCHANGED <<vpc, binding, born, blocked, sites>>

\* The second half works through the plan, built from what was listed.
Planned == PlannedLocations(Bound, auth.bindings)
Want(l) == Build(l, Bound, Terminating, auth.bindings)

StartPlan ==
    /\ Admitted({})
    /\ Unbound = {}
    /\ auth' = [auth EXCEPT !.pc = "apply"]
    /\ UNCHANGED <<vpc, subnet, binding, born, blocked, sites>>

\* The planned bindings the pass has not looked at yet; it goes through them in
\* one fixed order (sorted names).
Unchecked == {l \in Planned : auth.got[l].uid = 0}

\* Each planned binding is read again: create it, update it, or keep what was
\* read for the acknowledgement checks.
ApplyBinding(l) ==
    /\ auth.pc = "apply" /\ vpc.live
    /\ Unchecked # {}
    /\ l = CHOOSE k \in Unchecked : TRUE
    /\ LET cur == binding[l] IN
       IF cur.uid = 0 /\ vpc.refs[l] # 0
       THEN /\ blocked' = blocked \union {"BindingMissing"}
            /\ EndPass
            /\ UNCHANGED <<binding, born>>
       ELSE IF cur.uid = 0
       THEN /\ born' = [born EXCEPT ![l] = @ + 1]
            /\ binding' = [binding EXCEPT ![l] =
                  [uid |-> born'[l], spec |-> Want(l), status |-> EmptyStatus]]
            /\ EndPass
            /\ UNCHANGED blocked
       ELSE IF vpc.refs[l] \notin {0, cur.uid}
       THEN /\ blocked' = blocked \union {"BindingReplaced"}
            /\ EndPass
            /\ UNCHANGED <<binding, born>>
       ELSE IF cur.spec # Want(l)
       THEN /\ binding' = [binding EXCEPT ![l].spec = Want(l)]
            /\ EndPass
            /\ UNCHANGED <<born, blocked>>
       ELSE /\ auth' = [auth EXCEPT !.got[l] = cur]
            /\ UNCHANGED <<binding, born, blocked>>
    /\ UNCHANGED <<vpc, subnet, sites>>

\* Every planned binding has the wanted spec.
Settled ==
    /\ auth.pc = "apply" /\ vpc.live
    /\ Unchecked = {}

Refs == [l \in Locations |-> IF l \in Planned THEN auth.got[l].uid ELSE 0]
AllApplied == \A l \in Planned : Applied(auth.got[l])

PersistRefs ==
    /\ Settled
    /\ vpc.refs # Refs
    /\ WriteVPC([vpc EXCEPT !.refs = Refs])
    /\ EndPass
    /\ UNCHANGED <<subnet, binding, born, blocked, sites>>

\* Mutant: the receipts are trusted without any acknowledgement.
ReleasedUnacknowledged ==
    {s \in Bound \intersect Terminating :
        ResourceAbsent(auth.got[LocationOf[s]], s)}

\* A terminating Subnet whose native object is gone, with every planned
\* binding acknowledged.
Released ==
    {s \in Bound \intersect Terminating :
        AllApplied /\ ResourceAbsent(auth.got[LocationOf[s]], s)}

RemoveFinalizer(s) ==
    /\ Settled
    /\ vpc.refs = Refs
    /\ s \in Released
    /\ subnet' = IF subnet[s] = auth.subnets[s]
                 THEN [subnet EXCEPT ![s].fin = FALSE, ![s].state = "gone"]
                 ELSE subnet
    /\ EndPass
    /\ UNCHANGED <<vpc, binding, born, blocked, sites>>

\* Mutant: a claim lives as long as its Subnet, acknowledged or not.
ClaimsOfPresent == vpc.claims \intersect (Present \union Bound)

\* A claim outlives its Subnet until no planned spec has it and all applied.
KeptClaims ==
    {c \in vpc.claims : ~AllApplied \/ c \in Present \/ c \in Bound}

ReleaseClaims ==
    /\ Settled
    /\ vpc.refs = Refs
    /\ Released = {}
    /\ KeptClaims # vpc.claims
    /\ WriteVPC([vpc EXCEPT !.claims = KeptClaims])
    /\ EndPass
    /\ UNCHANGED <<subnet, binding, born, blocked, sites>>

\* Mutant: a deleting VPC does not look for Subnets that are left.
RemovableDespiteSubnets ==
    /\ auth.deleting
    /\ \A l \in Planned : CleanedUp(auth.got[l])

\* A deleting VPC has no Subnet and only cleaned-up bindings.
Removable ==
    /\ auth.deleting
    /\ Present = {}
    /\ \A l \in Planned : /\ Tombstone(auth.got[l].spec)
                          /\ Applied(auth.got[l])
                          /\ auth.got[l].status.resources = {}
                          /\ ~auth.got[l].status.gateways

\* All checks passed and nothing is left to write.
Complete ==
    /\ Settled
    /\ vpc.refs = Refs
    /\ Released = {}
    /\ KeptClaims = vpc.claims

\* The pass only reports readiness; a removable VPC goes away with its bindings.
\* The code deletes those one by one before the finalizer.  None is left by then:
\* a pass that finds all tombstones acknowledged releases the last claims and
\* ends, and the next ones forget the tombstones first.
FinishPass ==
    /\ Complete
    /\ EndPass
    /\ \/ /\ ~Removable
          /\ UNCHANGED <<vpc, binding>>
       \/ /\ Removable
          /\ binding' = [l \in Locations |-> IF l \in Planned THEN NoBinding
                                                             ELSE binding[l]]
          /\ vpc' = [vpc EXCEPT !.live = FALSE]
    /\ UNCHANGED <<subnet, born, blocked, sites>>

Decide ==
    \/ \E l \in Locations : ForgetTombstone(l)
    \/ \E s \in Subnets : AddFinalizer(s) \/ RejectTerminating(s) \/ BindSubnet(s)
    \/ \E A \in SUBSET Subnets : PersistClaims(A)
    \/ StartPlan

Publish ==
    \/ \E l \in Locations : ApplyBinding(l)
    \/ PersistRefs
    \/ \E s \in Subnets : RemoveFinalizer(s)
    \/ ReleaseClaims
    \/ FinishPass

Authority == ListSubnets \/ ListBindings \/ Decide \/ Publish

-----------------------------------------------------------------------------
(* A site's Syncer.                                                        *)

\* The site's copy is the authority's object.
InSync(l) ==
    /\ local[l].src = binding[l].uid
    /\ local[l].spec = binding[l].spec
    /\ local[l].status = binding[l].status

\* List the authority's bindings; one that is not listed is not touched.  A
\* pass that starts in sync changes nothing: it is not modelled.
SyncList(l) ==
    /\ sync[l].pc = "idle"
    /\ binding[l].uid # 0
    /\ ~InSync(l)
    /\ sync' = [sync EXCEPT ![l].pc = "apply", ![l].remote = binding[l]]
    /\ UNCHANGED <<authority, local, site, native>>

\* Accept the listed snapshot, unless it is older, would resurrect a deleting
\* one, or the previous incarnation has not been cleaned up.
SyncApply(l) ==
    /\ sync[l].pc = "apply"
    /\ LET remote == sync[l].remote
           mine == local[l]
           Stop == sync' = [sync EXCEPT ![l] = SyncIdle]
       IN
       IF mine.src = 0
       THEN /\ local' = [local EXCEPT ![l] = [src |-> remote.uid,
                             spec |-> remote.spec, status |-> EmptyStatus]]
            /\ Stop
       ELSE IF mine.src # remote.uid
       THEN /\ local' = IF CleanedUp(mine) THEN [local EXCEPT ![l] = NoLocal] ELSE local
            /\ Stop
       ELSE IF Tombstone(mine.spec) /\ ~Tombstone(remote.spec)
       THEN UNCHANGED local /\ Stop
       ELSE /\ local' = [local EXCEPT ![l].spec = remote.spec]
            /\ IF mine.status = remote.status
               THEN Stop
               ELSE sync' = [sync EXCEPT ![l].pc = "upload", ![l].status = mine.status]
    /\ UNCHANGED <<authority, site, native>>

\* Report the local status, if the authority's object is still as listed.
SyncUpload(l) ==
    /\ sync[l].pc = "upload"
    /\ binding' = IF binding[l] = sync[l].remote
                  THEN [binding EXCEPT ![l].status = sync[l].status] ELSE binding
    /\ sync' = [sync EXCEPT ![l] = SyncIdle]
    /\ UNCHANGED <<vpc, subnet, born, auth, blocked, local, site, native>>

Syncer(l) == SyncList(l) \/ SyncApply(l) \/ SyncUpload(l)

-----------------------------------------------------------------------------
(* A site's Reconcile.  The native Vpc, its transit subnet and the         *)
(* allocations are left out; gateways appear as registered or not.         *)

Seen(l) == site[l].seen
Acting(l) == site[l].pc = "act"
EndSite(l) == site' = [site EXCEPT ![l] = SiteIdle]

\* A conditional write of the local binding's status.
WriteStatus(l, status) ==
    local' = IF local[l] = Seen(l)
             THEN [local EXCEPT ![l].status = status] ELSE local

\* Everything the accepted snapshot asks for is there and acknowledged.
Quiet(l) ==
    LET spec == local[l].spec
        status == local[l].status
        active == spec.subnets \ spec.deleting
        remote == IF active = {} THEN {} ELSE spec.remote
    IN  /\ status.applied = {spec}
        /\ status.deleted = Tombstone(spec)
        /\ status.resources = active
        /\ status.gateways = (remote # {})
        /\ native[l] = [subnets |-> active, routes |-> {r[2] : r \in remote},
                        installed |-> {r[2] : r \in remote}]
        /\ {r[1] : r \in remote} \subseteq spec.peers

\* A pass that starts quiet would only acknowledge again: it is not modelled.
SiteRead(l) ==
    /\ site[l].pc = "idle"
    /\ local[l].src # 0
    /\ ~Quiet(l)
    /\ site' = [site EXCEPT ![l] = [pc |-> "act", seen |-> local[l]]]
    /\ UNCHANGED <<authority, sync, local, native>>

\* recoverNativeSubnets: record native objects whose receipt was lost, first.
Unrecorded(l) == native[l].subnets \ Seen(l).status.resources

RecoverReceipts(l) ==
    /\ Acting(l)
    /\ Unrecorded(l) # {}
    /\ WriteStatus(l, [Seen(l).status EXCEPT !.resources = @ \union Unrecorded(l)])
    /\ EndSite(l)
    /\ UNCHANGED <<authority, sync, native>>

Active(l) == Seen(l).spec.subnets \ Seen(l).spec.deleting
Cross(l) == Active(l) # {} /\ Seen(l).spec.remote # {}
RemoteCIDRs(l) == {r[2] : r \in Seen(l).spec.remote}

\* The order of a pass: each step waits for the ones before it.
Recovered(l) == Acting(l) /\ Unrecorded(l) = {}
Disconnected(l) ==
    /\ Recovered(l)
    /\ ~Cross(l) => /\ native[l].installed = {}
                    /\ native[l].routes = {}
                    /\ ~Seen(l).status.gateways
Created(l) == Disconnected(l) /\ Active(l) \subseteq native[l].subnets
Connected(l) ==
    /\ Created(l)
    /\ Cross(l) => /\ Seen(l).status.gateways
                   /\ native[l].routes = RemoteCIDRs(l)
                   /\ native[l].installed = native[l].routes
                   /\ {r[1] : r \in Seen(l).spec.remote} \subseteq Seen(l).spec.peers

\* remove and disconnect: routes first, and only when Kube-OVN acknowledged
\* their withdrawal the gateways.
WithdrawRoutes(l) ==
    /\ Recovered(l) /\ ~Cross(l)
    /\ native[l].routes # {}
    /\ native' = [native EXCEPT ![l].routes = {}]
    /\ EndSite(l)
    /\ UNCHANGED <<authority, sync, local>>

\* Mutant: the gateways go as soon as the route intent is withdrawn.
DeleteGatewaysAtOnce(l) ==
    /\ Recovered(l) /\ ~Cross(l)
    /\ native[l].routes = {}
    /\ Seen(l).status.gateways
    /\ WriteStatus(l, [Seen(l).status EXCEPT !.gateways = FALSE])
    /\ EndSite(l)
    /\ UNCHANGED <<authority, sync, native>>

DeleteGateways(l) ==
    /\ Recovered(l) /\ ~Cross(l)
    /\ native[l].routes = {} /\ native[l].installed = {}
    /\ Seen(l).status.gateways
    /\ WriteStatus(l, [Seen(l).status EXCEPT !.gateways = FALSE])
    /\ EndSite(l)
    /\ UNCHANGED <<authority, sync, native>>

\* ensure: create the native object, then record it.
CreateNative(l, s) ==
    /\ Disconnected(l)
    /\ s \in Active(l) \ native[l].subnets
    /\ s \notin Seen(l).status.resources
    /\ native' = [native EXCEPT ![l].subnets = @ \union {s}]
    /\ site' = [site EXCEPT ![l].pc = "receipt"]
    /\ UNCHANGED <<authority, sync, local>>

\* The receipt is written, or the process dies before it is.
RecordReceipt(l) ==
    /\ site[l].pc = "receipt"
    /\ WriteStatus(l, [Seen(l).status EXCEPT !.resources = @ \union Unrecorded(l)])
    /\ EndSite(l)
    /\ UNCHANGED <<authority, sync, native>>

LoseReceipt(l) ==
    /\ site[l].pc = "receipt"
    /\ EndSite(l)
    /\ UNCHANGED <<authority, sync, local, native>>

RegisterGateways(l) ==
    /\ Created(l) /\ Cross(l)
    /\ ~Seen(l).status.gateways
    /\ WriteStatus(l, [Seen(l).status EXCEPT !.gateways = TRUE])
    /\ EndSite(l)
    /\ UNCHANGED <<authority, sync, native>>

InstallRoutes(l) ==
    /\ Created(l) /\ Cross(l)
    /\ Seen(l).status.gateways
    /\ native[l].routes # RemoteCIDRs(l)
    /\ native' = [native EXCEPT ![l].routes = RemoteCIDRs(l)]
    /\ EndSite(l)
    /\ UNCHANGED <<authority, sync, local>>

\* Mutant: a terminating subnet is removed only with its whole location.
DoomedByTombstone(l) == IF Tombstone(Seen(l).spec) THEN Seen(l).status.resources
                                                   ELSE {}

\* The native subnets the accepted snapshot wants removed: the terminating
\* ones, or with a tombstone every recorded one.
Doomed(l) == IF Tombstone(Seen(l).spec) THEN Seen(l).status.resources
                                        ELSE Seen(l).spec.deleting

DeleteNative(l, s) ==
    /\ Connected(l)
    /\ s \in Doomed(l) \intersect native[l].subnets
    /\ native' = [native EXCEPT ![l].subnets = @ \ {s}]
    /\ EndSite(l)
    /\ UNCHANGED <<authority, sync, local>>

DropReceipt(l, s) ==
    /\ Connected(l)
    /\ s \in (Doomed(l) \intersect Seen(l).status.resources) \ native[l].subnets
    /\ WriteStatus(l, [Seen(l).status EXCEPT !.resources = @ \ {s}])
    /\ EndSite(l)
    /\ UNCHANGED <<authority, sync, native>>

\* Everything the snapshot asks for is done: acknowledge its revision.
Acknowledge(l) ==
    /\ Connected(l)
    /\ Doomed(l) \intersect (native[l].subnets \union Seen(l).status.resources) = {}
    /\ WriteStatus(l, [Seen(l).status EXCEPT !.applied = {Seen(l).spec},
                                             !.deleted = Tombstone(Seen(l).spec)])
    /\ EndSite(l)
    /\ UNCHANGED <<authority, sync, native>>

\* The pass reports why it waits and ends.
Wait(l) ==
    /\ Recovered(l)
    /\ \/ ~Cross(l) /\ native[l].routes = {} /\ native[l].installed # {}
       \/ /\ Created(l) /\ Cross(l)
          /\ Seen(l).status.gateways
          /\ native[l].routes = RemoteCIDRs(l)
          /\ ~Connected(l)
    /\ EndSite(l)
    /\ UNCHANGED <<authority, sync, local, native>>

Site(l) ==
    \/ SiteRead(l) \/ RecoverReceipts(l) \/ RecordReceipt(l)
    \/ WithdrawRoutes(l) \/ DeleteGateways(l)
    \/ RegisterGateways(l) \/ InstallRoutes(l)
    \/ \E s \in Subnets : CreateNative(l, s) \/ DeleteNative(l, s) \/ DropReceipt(l, s)
    \/ Acknowledge(l) \/ Wait(l)

\* Kube-OVN applies the route intent to OVN and acknowledges its hash.
KubeOVN(l) ==
    /\ native[l].installed # native[l].routes
    /\ native' = [native EXCEPT ![l].installed = native[l].routes]
    /\ UNCHANGED <<authority, sync, local, site>>

-----------------------------------------------------------------------------

Users == \/ \E s \in Subnets : CreateSubnet(s) \/ DeleteSubnet(s)
         \/ DeleteVPC

Next ==
    \/ Users
    \/ Authority
    \/ \E l \in Locations : Syncer(l) \/ Site(l) \/ LoseReceipt(l) \/ KubeOVN(l)

Spec == Init /\ [][Next]_vars

-----------------------------------------------------------------------------
(* Properties.                                                             *)

CIDRs == {CIDROf[s] : s \in Subnets}
SpecType ==
    [subnets : SUBSET Subnets, deleting : SUBSET Subnets,
     remote : SUBSET (Locations \X CIDRs),
     authorized : SUBSET Locations, peers : SUBSET Locations]
WellFormed(spec) == spec \in SpecType /\ spec.deleting \subseteq spec.subnets
StatusOK(status) ==
    /\ Cardinality(status.applied) <= 1
    /\ \A spec \in status.applied : WellFormed(spec)
    /\ status.resources \subseteq Subnets
    /\ status.gateways \in BOOLEAN
    /\ status.deleted \in BOOLEAN

\* Type invariant: the public objects, the two copies of every binding with
\* well-formed snapshots, and the native state.
TypeOK ==
    /\ vpc \in [claims : SUBSET Subnets, refs : [Locations -> Nat],
                deleting : BOOLEAN, live : BOOLEAN]
    /\ subnet \in [Subnets -> [state : {"none", "active", "terminating", "gone"},
                               fin : BOOLEAN, bound : BOOLEAN]]
    /\ \A l \in Locations :
          /\ binding[l].uid \in Nat /\ local[l].src \in Nat
          /\ WellFormed(binding[l].spec) /\ StatusOK(binding[l].status)
          /\ WellFormed(local[l].spec) /\ StatusOK(local[l].status)
          /\ sync[l].pc \in {"idle", "apply", "upload"}
          /\ site[l].pc \in {"idle", "act", "receipt"}
          /\ native[l] \in [subnets : SUBSET Subnets, routes : SUBSET CIDRs,
                            installed : SUBSET CIDRs]
    /\ auth.pc \in {"idle", "listed", "decide", "apply"}
    /\ blocked \subseteq {"BindingMissing", "BindingReplaced"}

\* "Admission receipts are committed ... before any native object or binding
\* can be created" (platformcontroller/reconciler.go:153): every native subnet,
\* at any site, is covered by a claim, until it is deleted.
NativeClaimed == \A l \in Locations : native[l].subnets \subseteq vpc.claims

\* Two Subnets with overlapping prefixes are never both realised, at the same
\* or at different sites, however their deletion and creation interleave.
NoOverlap ==
    \A l, m \in Locations :
        \A s \in native[l].subnets, t \in native[m].subnets :
            s # t => ~Overlaps(s, t)

\* A site never has a route into the overlay for a prefix of one of its own
\* subnets, also while the prefix moves from one site to another.
RoutesAreRemote ==
    \A l \in Locations : \A s \in native[l].subnets :
        CIDROf[s] \notin native[l].installed

\* "routes first": installed routes always have registered gateways to lead
\* to (localcontroller/reconciler.go:571 remove, :639 disconnect).
RoutesHaveGateways ==
    \A l \in Locations : native[l].installed # {} => local[l].status.gateways

\* Without outside interference the authority never reports that an accepted
\* binding disappeared or was replaced (platformcontroller/reconciler.go:140,
\* 239, 255).
NoFalseBlock == blocked = {}

\* Once the VPC object is gone nothing of it is left: no binding, no native
\* object, and no Subnet whose finalizer nobody would ever remove.
VPCGoneClean ==
    ~vpc.live =>
        /\ \A l \in Locations : native[l] = NoNative /\ binding[l].uid = 0
        /\ \A s \in Subnets : ~subnet[s].fin

\* A site that runs a Subnet its owner has not deleted.
Serving(l) == \E t \in native[l].subnets : subnet[t].state = "active"

\* "this does not withdraw early" (localcontroller/reconciler.go:138): a
\* serving site keeps its route to a prefix while the subnet is still realised
\* at its own site, also when that subnet is terminating.
\* A prefix that is used again at its site after a stale acknowledgement can
\* break this.
NoEarlyWithdrawal ==
    [][\A l \in Locations, s \in Subnets :
          /\ LocationOf[s] # l
          /\ s \in native[LocationOf[s]].subnets
          /\ CIDROf[s] \in native[l].routes \ native'[l].routes
          => ~Serving(l)]_vars

\* "retains its claim until local and remote withdrawal acknowledgements
\* complete" (api/v1alpha2/types.go:49): every installed route leads to a
\* prefix that is still claimed.
RoutesClaimed ==
    \A l \in Locations :
        native[l].installed \subseteq {CIDROf[c] : c \in vpc.claims}

\* "Waiting for endpoint drain and all location withdrawal acknowledgements"
\* (platformcontroller/reconciler.go:301): a Subnet that is gone is no longer
\* routed to from another site, unless its prefix has been claimed again.
GoneIsWithdrawn ==
    \A s \in Subnets : subnet[s].state = "gone" =>
        \A l \in Locations \ {LocationOf[s]} :
            CIDROf[s] \in native[l].installed =>
                \E t \in vpc.claims \ {s} : Overlaps(s, t)

\* Every loop is a ticker or a requeue that keeps running: the authority, each
\* syncer, each site's reconciler and Kube-OVN take their steps.  Users need
\* not do anything, and receipts need not be lost.
Fairness ==
    /\ WF_vars(Authority)
    /\ \A l \in Locations :
          WF_vars(Syncer(l)) /\ WF_vars(Site(l)) /\ WF_vars(KubeOVN(l))

FairSpec == Spec /\ Fairness

\* A Subnet whose owner deletes it goes away: no lost receipt, stale pass or
\* peer acknowledgement leaves it terminating for ever.
DeletionCompletes ==
    \A s \in Deletable : subnet[s].state = "terminating" ~> subnet[s].state = "gone"

\* A deleted VPC whose Subnets are gone goes away.
VPCDeletionCompletes ==
    (vpc.deleting /\ \A s \in Subnets : subnet[s].state = "gone") ~> ~vpc.live

=============================================================================
