------------------------- MODULE ManagedVPCProofs -------------------------
(***************************************************************************)
(* One managed VPC, for any locations and Subnets and any interleaving of  *)
(* users, authority, syncers, reconcilers and lost receipts: native        *)
(* subnets are claimed and do not overlap, routes have gateways, the       *)
(* authority never misses its own bindings, and nothing is left of a VPC   *)
(* that is gone.                                                           *)
(***************************************************************************)
EXTENDS ManagedVPC, FiniteSetTheorems, TLAPS

StatusType == [applied : SUBSET SpecType, resources : SUBSET Subnets,
               gateways : BOOLEAN, deleted : BOOLEAN]
BindingType == [uid : Nat, spec : SpecType, status : StatusType]
LocalType == [src : Nat, spec : SpecType, status : StatusType]
SubnetType == [state : {"none", "active", "terminating", "gone"}, fin : BOOLEAN, bound : BOOLEAN]
VPCType == [claims : SUBSET Subnets, refs : [Locations -> Nat], deleting : BOOLEAN, live : BOOLEAN]
AuthType == [pc : {"idle", "listed", "decide", "apply"}, deleting : BOOLEAN,
             subnets : [Subnets -> SubnetType], bindings : [Locations -> BindingType],
             got : [Locations -> BindingType]]
SyncType == [pc : {"idle", "apply", "upload"}, remote : BindingType, status : StatusType]
SiteType == [pc : {"idle", "act", "receipt"}, seen : LocalType]
NativeType == [subnets : SUBSET Subnets, routes : SUBSET CIDRs, installed : SUBSET CIDRs]

Shapes ==
    /\ vpc \in VPCType
    /\ subnet \in [Subnets -> SubnetType]
    /\ binding \in [Locations -> BindingType]
    /\ born \in [Locations -> Nat]
    /\ auth \in AuthType
    /\ sync \in [Locations -> SyncType]
    /\ local \in [Locations -> LocalType]
    /\ site \in [Locations -> SiteType]
    /\ native \in [Locations -> NativeType]

-----------------------------------------------------------------------------
(* The authority.                                                          *)

Busy == auth.pc # "idle"

\* Only the authority touches a finalizer, with the last step of a pass; what a
\* pass listed is still so, except that users delete.
ListedInv(s) ==
    /\ subnet[s].fin => subnet[s].state \in {"active", "terminating"}
    /\ subnet[s].state = "terminating" => subnet[s].fin
    /\ s \in vpc.claims => subnet[s].fin \/ subnet[s].state = "gone"
    /\ Busy => /\ auth.subnets[s].fin <=> subnet[s].fin
               /\ auth.subnets[s].fin => auth.subnets[s].state \in {"active", "terminating"}
               /\ auth.subnets[s].state = "terminating" => subnet[s].state = "terminating"
               /\ auth.subnets[s].state = "gone" => subnet[s].state = "gone"
               /\ s \in vpc.claims => auth.subnets[s].fin \/ auth.subnets[s].state = "gone"

\* The bindings of a pass: those it listed are still there, those it read again
\* have the wanted spec, and the receipts name what exists.
PlanInv(l) ==
    /\ auth.pc \in {"decide", "apply"} => auth.bindings[l].uid = binding[l].uid
    /\ auth.got[l].uid # 0 => /\ auth.pc = "apply"
                              /\ auth.got[l].uid = binding[l].uid
                              /\ auth.got[l].spec = Want(l)
    /\ auth.got[l].uid = 0 => auth.got[l] = NoBinding
    /\ vpc.live /\ vpc.refs[l] # 0 => binding[l].uid = vpc.refs[l]

\* Prefixes are claimed once.
Apart == \A s, t \in vpc.claims : s # t => ~Overlaps(s, t)

AuthInv == /\ \A s \in Subnets : ListedInv(s)
           /\ \A l \in Locations : PlanInv(l)
           /\ Apart /\ NoFalseBlock

-----------------------------------------------------------------------------
(* The life of a Subnet at a location: wanted, wanted gone, acknowledged.  *)

On(s, spec) == s \in spec.subnets /\ s \notin spec.deleting
Off(s, spec) == s \in spec.deleting
Acks(s, status) == \E spec \in status.applied : s \in spec.deleting

\* The Subnet is there, or on its way there.
Runs(s, l) ==
    \/ s \in native[l].subnets
    \/ On(s, binding[l].spec) \/ On(s, sync[l].remote.spec)
    \/ On(s, local[l].spec) \/ On(s, site[l].seen.spec)

\* Its removal is under way, or acknowledged.
Leaves(s, l) ==
    \/ Off(s, binding[l].spec) \/ Off(s, sync[l].remote.spec)
    \/ Off(s, local[l].spec) \/ Off(s, site[l].seen.spec)
Left(s, l) ==
    \/ Acks(s, binding[l].status) \/ Acks(s, sync[l].remote.status) \/ Acks(s, sync[l].status)
    \/ Acks(s, local[l].status) \/ Acks(s, site[l].seen.status) \/ Acks(s, auth.got[l].status)

Ended(s) == subnet[s].state \in {"terminating", "gone"}
ListedEnded(s) == auth.subnets[s].state \in {"terminating", "gone"}

\* Nobody downstream is ahead of anybody upstream.
Ordered(s, l) ==
    /\ Off(s, site[l].seen.spec) => ~On(s, local[l].spec) /\ ~On(s, sync[l].remote.spec)
                                                          /\ ~On(s, binding[l].spec)
    /\ Off(s, local[l].spec) => ~On(s, sync[l].remote.spec) /\ ~On(s, binding[l].spec)
    /\ Off(s, sync[l].remote.spec) => ~On(s, binding[l].spec)

LifeInv(s, l) ==
    /\ Runs(s, l) => s \in vpc.claims /\ LocationOf[s] = l /\ subnet[s].state # "gone"
    /\ Leaves(s, l) \/ Left(s, l) => Ended(s) /\ (Busy => ListedEnded(s))
    /\ Left(s, l) => ~Runs(s, l)
    /\ Ordered(s, l)

\* What terminates at a location was wanted there.
Formed(l) ==
    /\ binding[l].spec.deleting \subseteq binding[l].spec.subnets
    /\ sync[l].remote.spec.deleting \subseteq sync[l].remote.spec.subnets
    /\ local[l].spec.deleting \subseteq local[l].spec.subnets
    /\ site[l].seen.spec.deleting \subseteq site[l].seen.spec.subnets

-----------------------------------------------------------------------------
(* A site.                                                                 *)

\* A tombstone is acknowledged.
Buried(status) == \E spec \in status.applied : Tombstone(spec)

SiteInv(l) ==
    \* A pass works on the current status, or on a copy that was replaced.
    /\ site[l].pc # "idle" =>
        /\ site[l].seen.src # 0
        /\ \/ site[l].seen.src = local[l].src /\ site[l].seen.status = local[l].status
           \/ /\ Tombstone(site[l].seen.spec) /\ ~site[l].seen.status.gateways
              /\ native[l] = NoNative
    /\ site[l].pc = "idle" => site[l].seen = NoLocal
    /\ local[l].src = 0 => local[l] = NoLocal
    /\ native[l].routes # {} \/ native[l].installed # {} => local[l].status.gateways
    /\ Buried(local[l].status) => /\ Tombstone(local[l].spec) /\ Tombstone(site[l].seen.spec)
                                  /\ native[l] = NoNative

\* Incarnations: copies are never of a later one, and a tombstone is acknowledged to
\* the authority, and its binding deleted, only with the site at rest.
AgeInv(l) ==
    /\ binding[l].uid \in {0, born[l]}
    /\ local[l].src <= born[l]
    /\ sync[l].pc # "idle" => /\ sync[l].remote.uid # 0 /\ sync[l].remote.uid <= born[l]
                              /\ local[l].src <= sync[l].remote.uid
    /\ sync[l].pc = "upload" => /\ local[l].src = sync[l].remote.uid
                                /\ Buried(sync[l].status) => Buried(local[l].status)
    /\ Buried(binding[l].status) \/ Buried(auth.got[l].status) =>
        local[l].src = binding[l].uid /\ Buried(local[l].status)
    /\ born[l] = 0 => native[l] = NoNative /\ site[l].pc = "idle"
    /\ binding[l].uid = 0 => \/ born[l] = 0
                             \/ local[l].src = born[l] /\ Buried(local[l].status)

LiveInv == ~vpc.live => /\ auth.pc = "idle"
                        /\ \A l \in Locations : binding[l].uid = 0
                        /\ \A s \in Subnets : ~subnet[s].fin

IInv ==
    /\ Shapes /\ AuthInv /\ LiveInv
    /\ \A l \in Locations : Formed(l) /\ SiteInv(l) /\ AgeInv(l)
    /\ \A s \in Subnets, l \in Locations : LifeInv(s, l)

-----------------------------------------------------------------------------
(* Specs and statuses.                                                     *)

LEMMA Empty ==
  /\ Tombstone(EmptySpec) /\ ~Buried(EmptyStatus)
  /\ \A s \in Subnets : ~On(s, EmptySpec) /\ ~Off(s, EmptySpec) /\ ~Acks(s, EmptyStatus)
  /\ EmptySpec \in SpecType /\ EmptyStatus \in StatusType /\ EmptyStatus.gateways = FALSE
  BY DEF Tombstone, Buried, On, Off, Acks, EmptySpec, EmptyStatus, SpecType, StatusType

LEMMA EmptyObjects ==
  /\ NoBinding \in BindingType /\ NoLocal \in LocalType /\ NoNative \in NativeType
  /\ NoBinding.uid = 0 /\ NoBinding.spec = EmptySpec /\ NoBinding.status = EmptyStatus
  /\ NoLocal.src = 0 /\ NoLocal.spec = EmptySpec /\ NoLocal.status = EmptyStatus
  /\ NoNative.subnets = {} /\ NoNative.routes = {} /\ NoNative.installed = {}
  BY Empty DEF NoBinding, NoLocal, NoNative, BindingType, LocalType, NativeType

LEMMA IdleObjects ==
  /\ AuthIdle.pc = "idle" /\ AuthIdle \in AuthType
  /\ \A l \in Locations : AuthIdle.got[l] = NoBinding
  /\ SyncIdle \in SyncType /\ SyncIdle.pc = "idle" /\ SyncIdle.remote = NoBinding
  /\ SyncIdle.status = EmptyStatus
  /\ SiteIdle \in SiteType /\ SiteIdle.pc = "idle" /\ SiteIdle.seen = NoLocal
<1>1. NoSubnets \in [Subnets -> SubnetType]
  BY DEF NoSubnets, NoSubnet, SubnetType
<1>2. NoBindings \in [Locations -> BindingType]
  BY EmptyObjects DEF NoBindings
<1> QED
  BY <1>1, <1>2, Empty, EmptyObjects
  DEF AuthIdle, AuthType, SyncIdle, SyncType, SiteIdle, SiteType, NoBindings

\* What is wanted gone is not wanted.
LEMMA OffNotOn ==
  ASSUME NEW s, NEW spec, Off(s, spec)
  PROVE  ~On(s, spec)
  BY DEF Off, On

\* Only the acknowledged revision matters.
LEMMA SameApplied ==
  ASSUME NEW a, NEW b, a.applied = b.applied
  PROVE  (Buried(a) <=> Buried(b)) /\ \A s \in Subnets : Acks(s, a) <=> Acks(s, b)
  BY DEF Buried, Acks

LEMMA OneApplied ==
  ASSUME NEW a, NEW spec, a.applied = {spec}
  PROVE  (Buried(a) <=> Tombstone(spec)) /\ \A s \in Subnets : Acks(s, a) <=> Off(s, spec)
  BY DEF Buried, Acks, Off

LEMMA CleanedBuried ==
  ASSUME NEW b, CleanedUp(b)
  PROVE  Buried(b.status) /\ Tombstone(b.spec) /\ ~b.status.gateways
  BY DEF CleanedUp, Applied, Buried

\* The invariant of one location and of one Subnet at it.
PlaceInv(l) == Formed(l) /\ SiteInv(l) /\ AgeInv(l) /\ \A s \in Subnets : LifeInv(s, l)

LEMMA Places ==
  IInv <=> /\ Shapes /\ AuthInv /\ LiveInv
           /\ \A l \in Locations : PlaceInv(l)
  BY DEF IInv, PlaceInv

-----------------------------------------------------------------------------
(* What a step leaves alone.                                               *)

\* The wanted specs depend on what was listed and on the claims.
LEMMA WantSame ==
  ASSUME auth'.subnets = auth.subnets, auth'.bindings = auth.bindings, vpc'.claims = vpc.claims
  PROVE  /\ \A l \in Locations : Want(l)' = Want(l)
         /\ Bound' = Bound /\ Terminating' = Terminating /\ Planned' = Planned
<1>1. Present' = Present
  BY DEF Present
<1>2. Terminating' = Terminating /\ Finalized' = Finalized
  BY <1>1 DEF Terminating, Finalized
<1>3. Bound' = Bound
  BY <1>2 DEF Bound
<1> QED
  BY <1>2, <1>3 DEF Want, Planned

\* A location that a step leaves alone, with everything of the authority.
LEMMA PlaceSame ==
  ASSUME NEW k \in Locations, PlaceInv(k), UNCHANGED <<vpc, subnet, auth>>,
         binding'[k] = binding[k], born'[k] = born[k], sync'[k] = sync[k],
         local'[k] = local[k], site'[k] = site[k], native'[k] = native[k]
  PROVE  PlaceInv(k)'
<1>1. Formed(k)'
  BY DEF PlaceInv, Formed
<1>2. SiteInv(k)'
  BY DEF PlaceInv, SiteInv
<1>3. AgeInv(k)'
  BY DEF PlaceInv, AgeInv
<1>4. ASSUME NEW s \in Subnets PROVE LifeInv(s, k)'
  <2>1. LifeInv(s, k)
    BY DEF PlaceInv
  <2> QED
    BY <2>1 DEF LifeInv, Runs, Leaves, Left, Ordered, Ended, ListedEnded, Busy
<1> QED
  BY <1>1, <1>2, <1>3, <1>4 DEF PlaceInv

\* A step of one site: the authority sees at most a new status of its binding.
LEMMA SiteFrame ==
  ASSUME IInv, NEW l \in Locations, UNCHANGED <<vpc, subnet, born, auth, blocked>>,
         \A k \in Locations \ {l} : /\ binding'[k] = binding[k] /\ sync'[k] = sync[k]
                                    /\ local'[k] = local[k] /\ site'[k] = site[k]
                                    /\ native'[k] = native[k],
         binding'[l].uid = binding[l].uid,
         Shapes', PlaceInv(l)'
  PROVE  IInv'
<1>1. \A k \in Locations : binding'[k].uid = binding[k].uid
  OBVIOUS
<1>2. AuthInv'
  <2>1. \A s \in Subnets : ListedInv(s)'
    BY DEF IInv, AuthInv, ListedInv, Busy
  <2>2. ASSUME NEW k \in Locations PROVE PlanInv(k)'
    <3>1. PlanInv(k) /\ Want(k)' = Want(k)
      BY WantSame DEF IInv, AuthInv
    <3> QED
      BY <1>1, <3>1 DEF PlanInv
  <2>3. Apart' /\ NoFalseBlock'
    BY DEF IInv, AuthInv, Apart, NoFalseBlock, Overlaps
  <2> QED
    BY <2>1, <2>2, <2>3 DEF AuthInv
<1>3. LiveInv'
  BY <1>1 DEF IInv, LiveInv
<1>4. ASSUME NEW k \in Locations PROVE PlaceInv(k)'
  <2>1. CASE k = l
    BY <2>1
  <2>2. CASE k # l
    <3>1. PlaceInv(k)
      BY Places
    <3>2. born'[k] = born[k]
      OBVIOUS
    <3> QED
      BY <2>2, <3>1, <3>2, PlaceSame
  <2> QED
    BY <2>1, <2>2
<1>5. Shapes' /\ AuthInv' /\ LiveInv' /\ \A k \in Locations : PlaceInv(k)'
  BY <1>2, <1>3, <1>4
<1> QED
  BY <1>5 DEF IInv, PlaceInv

-----------------------------------------------------------------------------
(* The reconciler of a site and Kube-OVN.                                  *)

\* A step that writes no status: native subnets come only from an accepted
\* snapshot, routes only with gateways.
LEMMA NativeStep ==
  ASSUME IInv, NEW l \in Locations, UNCHANGED <<authority, sync, local>>,
         native' \in [Locations -> NativeType], site' \in [Locations -> SiteType],
         \A k \in Locations \ {l} : native'[k] = native[k] /\ site'[k] = site[k],
         \/ site'[l] = site[l]
         \/ site'[l] = SiteIdle
         \/ site[l].pc # "idle" /\ site'[l].pc # "idle" /\ site'[l].seen = site[l].seen,
         \A s \in native'[l].subnets : s \in native[l].subnets \/ On(s, site[l].seen.spec),
         native'[l].routes # {} \/ native'[l].installed # {} => local[l].status.gateways,
         native[l] = NoNative => \/ native'[l] = NoNative
                                 \/ site[l].pc # "idle" /\ ~Tombstone(site[l].seen.spec)
  PROVE  IInv'
<1>0. PlaceInv(l)
  BY Places
<1>1. Shapes'
  BY DEF IInv, Shapes, authority
<1>2. Formed(l)'
  BY <1>0, IdleObjects, EmptyObjects DEF PlaceInv, Formed, authority, EmptySpec
<1>3. SiteInv(l)'
  BY <1>0, IdleObjects, EmptyObjects, Empty DEF PlaceInv, SiteInv
<1>4. AgeInv(l)'
  BY <1>0, IdleObjects DEF PlaceInv, AgeInv, SiteInv, authority
<1>5. ASSUME NEW s \in Subnets PROVE LifeInv(s, l)'
  <2>1. LifeInv(s, l) /\ native[l] \in NativeType
    BY <1>0 DEF PlaceInv, IInv, Shapes
  <2>2. \/ site'[l].seen.spec = site[l].seen.spec /\ site'[l].seen.status = site[l].seen.status
        \/ site'[l].seen.spec = EmptySpec /\ site'[l].seen.status = EmptyStatus
    BY IdleObjects, EmptyObjects
  <2>3. /\ On(s, site'[l].seen.spec) => On(s, site[l].seen.spec)
        /\ Off(s, site'[l].seen.spec) => Off(s, site[l].seen.spec)
        /\ Acks(s, site'[l].seen.status) => Acks(s, site[l].seen.status)
    BY <2>2, Empty
  <2>4. Runs(s, l)' => Runs(s, l)
    BY <2>3 DEF Runs, authority
  <2>5. (Leaves(s, l)' => Leaves(s, l)) /\ (Left(s, l)' => Left(s, l))
    BY <2>3 DEF Leaves, Left, authority
  <2>6. Ordered(s, l)'
    BY <2>1, <2>3 DEF LifeInv, Ordered, authority
  <2> QED
    BY <2>1, <2>4, <2>5, <2>6 DEF LifeInv, Ended, ListedEnded, Busy, authority
<1>6. PlaceInv(l)'
  BY <1>2, <1>3, <1>4, <1>5 DEF PlaceInv
<1> QED
  BY <1>1, <1>6, SiteFrame DEF authority

\* A step that writes the status: it keeps the acknowledged revision, or acknowledges
\* the snapshot it worked on.
LEMMA StatusStep ==
  ASSUME IInv, NEW l \in Locations, NEW st \in StatusType, site[l].pc # "idle",
         WriteStatus(l, st), EndSite(l), UNCHANGED <<authority, sync, native>>,
         native[l].routes # {} \/ native[l].installed # {} =>
             st.gateways \/ (st.gateways <=> site[l].seen.status.gateways),
         \/ st.applied = site[l].seen.status.applied
         \/ /\ st.applied = {site[l].seen.spec}
            /\ native[l].subnets \intersect site[l].seen.spec.deleting = {}
            /\ Tombstone(site[l].seen.spec) => native[l] = NoNative
  PROVE  IInv'
<1>0. PlaceInv(l)
  BY Places
<1>1. /\ site' \in [Locations -> SiteType] /\ site'[l] = SiteIdle
      /\ \A k \in Locations \ {l} : site'[k] = site[k]
  BY IdleObjects DEF IInv, Shapes, EndSite
<1>2. CASE local[l] # site[l].seen
  <2>1. UNCHANGED <<authority, sync, local, native>>
    BY <1>2 DEF WriteStatus, Seen
  <2>2. /\ native' \in [Locations -> NativeType]
        /\ \A k \in Locations \ {l} : native'[k] = native[k] /\ site'[k] = site[k]
        /\ \A s \in native'[l].subnets : s \in native[l].subnets \/ On(s, site[l].seen.spec)
        /\ native'[l].routes # {} \/ native'[l].installed # {} => local[l].status.gateways
        /\ native[l] = NoNative => native'[l] = NoNative
    BY <1>0, <1>1, <2>1 DEF IInv, Shapes, PlaceInv, SiteInv
  <2> QED
    BY <1>1, <2>1, <2>2, NativeStep
<1>3. CASE local[l] = site[l].seen
  <2>1. /\ local' \in [Locations -> LocalType]
        /\ local'[l].src = local[l].src /\ local'[l].spec = local[l].spec /\ local'[l].status = st
        /\ \A k \in Locations \ {l} : local'[k] = local[k]
    BY <1>3 DEF WriteStatus, Seen, IInv, Shapes, LocalType
  <2>2. Shapes'
    BY <1>1, <2>1 DEF IInv, Shapes, authority
  <2>3. Formed(l)'
    BY <1>0, <1>1, <2>1, IdleObjects, EmptyObjects DEF PlaceInv, Formed, authority, EmptySpec
  <2>4. \/ (Buried(st) <=> Buried(local[l].status))
        \/ /\ Buried(st) <=> Tombstone(local[l].spec)
           /\ Tombstone(local[l].spec) => native[l] = NoNative
    BY <1>3, SameApplied, OneApplied
  <2>5. Buried(local[l].status) => Buried(st)
    BY <1>0, <2>4 DEF PlaceInv, SiteInv
  <2>6. SiteInv(l)'
    <3>1. native[l].routes # {} \/ native[l].installed # {} => st.gateways
      BY <1>0, <1>3 DEF PlaceInv, SiteInv
    <3>2. local[l].src # 0
      BY <1>0, <1>3 DEF PlaceInv, SiteInv
    <3>3. Buried(st) => Tombstone(local[l].spec) /\ native[l] = NoNative
      BY <1>0, <2>4 DEF PlaceInv, SiteInv
    <3> QED
      BY <1>1, <2>1, <3>1, <3>2, <3>3, IdleObjects, EmptyObjects, Empty DEF SiteInv
  <2>7. AgeInv(l)'
    BY <1>0, <1>1, <2>1, <2>5, IdleObjects DEF PlaceInv, AgeInv, authority
  <2>8. ASSUME NEW s \in Subnets PROVE LifeInv(s, l)'
    <3>1. LifeInv(s, l)
      BY <1>0 DEF PlaceInv
    <3>2. site'[l].seen.spec = EmptySpec /\ site'[l].seen.status = EmptyStatus
      BY <1>1, IdleObjects, EmptyObjects
    <3>3. ~On(s, site'[l].seen.spec) /\ ~Off(s, site'[l].seen.spec) /\ ~Acks(s, site'[l].seen.status)
      BY <3>2, Empty
    <3>4. /\ On(s, local'[l].spec) <=> On(s, local[l].spec)
          /\ Off(s, local'[l].spec) <=> Off(s, local[l].spec)
      BY <2>1
    <3>5. (Runs(s, l)' => Runs(s, l)) /\ (Leaves(s, l)' => Leaves(s, l))
      BY <3>3, <3>4 DEF Runs, Leaves, authority
    <3>6. Ordered(s, l)'
      BY <3>1, <3>3, <3>4 DEF LifeInv, Ordered, authority
    <3>7. CASE Acks(s, st) <=> Acks(s, local[l].status)
      <4>1. Left(s, l)' => Left(s, l)
        BY <2>1, <3>3, <3>7 DEF Left, authority
      <4> QED
        BY <3>1, <3>5, <3>6, <4>1 DEF LifeInv, Ended, ListedEnded, Busy, authority
    <3>8. CASE /\ Acks(s, st) <=> Off(s, local[l].spec)
               /\ Off(s, local[l].spec) => s \notin native[l].subnets
      <4>1. Left(s, l)' => Left(s, l) \/ Off(s, local[l].spec)
        BY <2>1, <3>3, <3>8 DEF Left, authority
      <4>2. Off(s, local[l].spec) => Leaves(s, l)
        BY DEF Leaves
      <4>3. Off(s, local[l].spec) => ~Runs(s, l)'
        BY <2>1, <3>1, <3>3, <3>8, OffNotOn DEF LifeInv, Ordered, Runs, authority
      <4> QED
        BY <3>1, <3>5, <3>6, <4>1, <4>2, <4>3 DEF LifeInv, Ended, ListedEnded, Busy, authority
    <3>9. \/ Acks(s, st) <=> Acks(s, local[l].status)
          \/ /\ Acks(s, st) <=> Off(s, local[l].spec)
             /\ Off(s, local[l].spec) => s \notin native[l].subnets
      BY <1>3, SameApplied, OneApplied DEF Off
    <3> QED
      BY <3>7, <3>8, <3>9
  <2>9. PlaceInv(l)'
    BY <2>3, <2>6, <2>7, <2>8 DEF PlaceInv
  <2>10. /\ \A k \in Locations \ {l} : /\ binding'[k] = binding[k] /\ sync'[k] = sync[k]
                                       /\ local'[k] = local[k] /\ site'[k] = site[k]
                                       /\ native'[k] = native[k]
         /\ binding'[l].uid = binding[l].uid /\ UNCHANGED <<vpc, subnet, born, auth, blocked>>
    BY <1>1, <2>1 DEF authority
  <2> QED
    BY <2>2, <2>9, <2>10, SiteFrame
<1> QED
  BY <1>2, <1>3

\* A pass begins with the current copy.
LEMMA SiteReadStep ==
  ASSUME IInv, NEW l \in Locations, SiteRead(l)
  PROVE  IInv'
<1>0. PlaceInv(l) /\ local[l] \in LocalType
  BY Places DEF IInv, Shapes
<1>1. /\ site' \in [Locations -> SiteType] /\ site'[l].pc = "act" /\ site'[l].seen = local[l]
      /\ \A k \in Locations \ {l} : site'[k] = site[k]
  BY <1>0 DEF IInv, Shapes, SiteRead, SiteType
<1>2. Shapes'
  BY <1>1 DEF SiteRead, IInv, Shapes, authority
<1>3. Formed(l)' /\ SiteInv(l)' /\ AgeInv(l)'
  <2>1. local[l].src \in Nat /\ local[l].src # 0 /\ born[l] \in Nat
    BY <1>0 DEF SiteRead, LocalType, IInv, Shapes
  <2>2. Formed(l)'
    BY <1>0, <1>1 DEF SiteRead, PlaceInv, Formed, authority
  <2>3. SiteInv(l)'
    BY <1>0, <1>1, <2>1 DEF SiteRead, PlaceInv, SiteInv
  <2>4. born[l] # 0
    BY <1>0, <2>1 DEF PlaceInv, AgeInv
  <2>5. AgeInv(l)'
    BY <1>0, <1>1, <2>4 DEF SiteRead, PlaceInv, AgeInv, authority
  <2> QED
    BY <2>2, <2>3, <2>5
<1>4. ASSUME NEW s \in Subnets PROVE LifeInv(s, l)'
  <2>1. LifeInv(s, l)
    BY <1>0 DEF PlaceInv
  <2>2. Runs(s, l)' => Runs(s, l)
    BY <1>1 DEF Runs, SiteRead, authority
  <2>3. (Leaves(s, l)' => Leaves(s, l)) /\ (Left(s, l)' => Left(s, l))
    BY <1>1 DEF Leaves, Left, SiteRead, authority
  <2>4. Ordered(s, l)'
    BY <1>1, <2>1, OffNotOn DEF LifeInv, Ordered, SiteRead, authority
  <2> QED
    BY <2>1, <2>2, <2>3, <2>4 DEF LifeInv, Ended, ListedEnded, Busy, SiteRead, authority
<1>5. PlaceInv(l)'
  BY <1>3, <1>4 DEF PlaceInv
<1>6. /\ \A k \in Locations \ {l} : /\ binding'[k] = binding[k] /\ sync'[k] = sync[k]
                                    /\ local'[k] = local[k] /\ site'[k] = site[k]
                                    /\ native'[k] = native[k]
      /\ binding'[l].uid = binding[l].uid /\ UNCHANGED <<vpc, subnet, born, auth, blocked>>
  BY <1>1 DEF SiteRead, authority
<1> QED
  BY <1>2, <1>5, <1>6, SiteFrame

\* The receipts, gateways and acknowledgements of a pass.
LEMMA StatusWrites ==
  ASSUME IInv, NEW l \in Locations,
         \/ RecoverReceipts(l) \/ RecordReceipt(l) \/ DeleteGateways(l) \/ RegisterGateways(l)
         \/ \E s \in Subnets : DropReceipt(l, s)
  PROVE  IInv'
<1> DEFINE seen == site[l].seen.status
<1>0. site[l] \in SiteType /\ native[l] \in NativeType
  BY DEF IInv, Shapes
<1>1. site[l].seen \in LocalType
  BY <1>0 DEF SiteType
<1>2. seen \in StatusType
  BY <1>1 DEF LocalType
<1>3. PICK st \in StatusType :
        /\ site[l].pc # "idle" /\ WriteStatus(l, st) /\ EndSite(l)
        /\ UNCHANGED <<authority, sync, native>> /\ st.applied = seen.applied
        /\ \/ st.gateways \/ (st.gateways <=> seen.gateways)
           \/ native[l].routes = {} /\ native[l].installed = {}
  <2>1. CASE RecoverReceipts(l) \/ RecordReceipt(l)
    <3>1. Unrecorded(l) \subseteq Subnets
      BY <1>0 DEF Unrecorded, NativeType
    <3>2. [seen EXCEPT !.resources = @ \union Unrecorded(l)] \in StatusType
      BY <1>2, <3>1 DEF StatusType
    <3>3. /\ [seen EXCEPT !.resources = @ \union Unrecorded(l)].applied = seen.applied
          /\ [seen EXCEPT !.resources = @ \union Unrecorded(l)].gateways = seen.gateways
      BY <1>2 DEF StatusType
    <3> QED
      BY <2>1, <3>2, <3>3 DEF RecoverReceipts, RecordReceipt, Acting, Seen
  <2>2. CASE DeleteGateways(l)
    <3>1. [seen EXCEPT !.gateways = FALSE] \in StatusType
      BY <1>2 DEF StatusType
    <3>2. [seen EXCEPT !.gateways = FALSE].applied = seen.applied
      BY <1>2 DEF StatusType
    <3> QED
      BY <2>2, <3>1, <3>2 DEF DeleteGateways, Recovered, Acting, Seen
  <2>3. CASE RegisterGateways(l)
    <3>1. [seen EXCEPT !.gateways = TRUE] \in StatusType
      BY <1>2 DEF StatusType
    <3>2. [seen EXCEPT !.gateways = TRUE].applied = seen.applied /\ [seen EXCEPT !.gateways = TRUE].gateways
      BY <1>2 DEF StatusType
    <3> QED
      BY <2>3, <3>1, <3>2 DEF RegisterGateways, Created, Disconnected, Recovered, Acting, Seen
  <2>4. ASSUME NEW s \in Subnets, DropReceipt(l, s)
        PROVE  \E st \in StatusType :
                 /\ site[l].pc # "idle" /\ WriteStatus(l, st) /\ EndSite(l)
                 /\ UNCHANGED <<authority, sync, native>> /\ st.applied = seen.applied
                 /\ \/ st.gateways \/ (st.gateways <=> seen.gateways)
                    \/ native[l].routes = {} /\ native[l].installed = {}
    <3>1. [seen EXCEPT !.resources = @ \ {s}] \in StatusType
      BY <1>2 DEF StatusType
    <3>2. /\ [seen EXCEPT !.resources = @ \ {s}].applied = seen.applied
          /\ [seen EXCEPT !.resources = @ \ {s}].gateways = seen.gateways
      BY <1>2 DEF StatusType
    <3> QED
      BY <2>4, <3>1, <3>2 DEF DropReceipt, Connected, Created, Disconnected, Recovered, Acting, Seen
  <2> QED
    BY <2>1, <2>2, <2>3, <2>4
<1>4. native[l].routes # {} \/ native[l].installed # {} =>
        st.gateways \/ (st.gateways <=> site[l].seen.status.gateways)
  BY <1>3
<1> QED
  BY <1>3, <1>4, StatusStep

LEMMA AcknowledgeStep ==
  ASSUME IInv, NEW l \in Locations, Acknowledge(l)
  PROVE  IInv'
<1> DEFINE seen == site[l].seen.status
<1> DEFINE st == [seen EXCEPT !.applied = {site[l].seen.spec}, !.deleted = Tombstone(site[l].seen.spec)]
<1>0. site[l] \in SiteType /\ native[l] \in NativeType
  BY DEF IInv, Shapes
<1>1. site[l].seen \in LocalType
  BY <1>0 DEF SiteType
<1>2. seen \in StatusType /\ site[l].seen.spec \in SpecType
  BY <1>1 DEF LocalType
<1>3. Tombstone(site[l].seen.spec) \in BOOLEAN
  BY DEF Tombstone
<1>4. st \in StatusType /\ st.applied = {site[l].seen.spec} /\ st.gateways = seen.gateways
  BY <1>2, <1>3 DEF StatusType
<1>5. /\ site[l].pc # "idle" /\ WriteStatus(l, st) /\ EndSite(l)
      /\ UNCHANGED <<authority, sync, native>>
  BY DEF Acknowledge, Connected, Created, Disconnected, Recovered, Acting, Seen
<1>6. Tombstone(site[l].seen.spec) => native[l] = NoNative
  <2> SUFFICES ASSUME Tombstone(site[l].seen.spec) PROVE native[l] = NoNative
    OBVIOUS
  <2>1. native[l].subnets \subseteq seen.resources
    BY <1>0 DEF Acknowledge, Connected, Created, Disconnected, Recovered, Unrecorded, Seen, NativeType
  <2>2. ~Cross(l)
    BY DEF Cross, Active, Seen, Tombstone
  <2>3. native[l].routes = {} /\ native[l].installed = {}
    BY <2>2 DEF Acknowledge, Connected, Created, Disconnected
  <2>4. seen.resources = {}
    BY <1>2 DEF Acknowledge, Doomed, Seen, StatusType
  <2> QED
    BY <1>0, <2>1, <2>3, <2>4 DEF NativeType, NoNative
<1>7. native[l].subnets \intersect site[l].seen.spec.deleting = {}
  <2>1. CASE Tombstone(site[l].seen.spec)
    BY <1>6, <2>1, EmptyObjects
  <2>2. CASE ~Tombstone(site[l].seen.spec)
    BY <2>2 DEF Acknowledge, Doomed, Seen
  <2> QED
    BY <2>1, <2>2
<1>8. /\ native[l].routes # {} \/ native[l].installed # {} =>
            st.gateways \/ (st.gateways <=> site[l].seen.status.gateways)
      /\ \/ st.applied = site[l].seen.status.applied
         \/ /\ st.applied = {site[l].seen.spec}
            /\ native[l].subnets \intersect site[l].seen.spec.deleting = {}
            /\ Tombstone(site[l].seen.spec) => native[l] = NoNative
  BY <1>4, <1>6, <1>7
<1> HIDE DEF st
<1> QED
  BY <1>4, <1>5, <1>8, StatusStep

\* Waiting, a lost receipt and Kube-OVN's own step.
LEMMA RestSteps ==
  ASSUME IInv, NEW l \in Locations, Wait(l) \/ LoseReceipt(l) \/ KubeOVN(l)
  PROVE  IInv'
<1>0. PlaceInv(l) /\ native[l] \in NativeType
  BY Places DEF IInv, Shapes
<1>1. CASE Wait(l) \/ LoseReceipt(l)
  <2>1. /\ UNCHANGED <<authority, sync, local, native>> /\ site'[l] = SiteIdle
        /\ site' \in [Locations -> SiteType] /\ \A k \in Locations \ {l} : site'[k] = site[k]
    BY <1>1, IdleObjects DEF Wait, LoseReceipt, EndSite, IInv, Shapes
  <2>2. /\ native' \in [Locations -> NativeType]
        /\ \A k \in Locations \ {l} : native'[k] = native[k] /\ site'[k] = site[k]
        /\ \A s \in native'[l].subnets : s \in native[l].subnets \/ On(s, site[l].seen.spec)
        /\ native'[l].routes # {} \/ native'[l].installed # {} => local[l].status.gateways
        /\ native[l] = NoNative => native'[l] = NoNative
    BY <1>0, <2>1 DEF IInv, Shapes, PlaceInv, SiteInv
  <2> QED
    BY <2>1, <2>2, NativeStep
<1>2. CASE KubeOVN(l)
  <2>1. UNCHANGED <<authority, sync, local, site>>
    BY <1>2 DEF KubeOVN
  <2>2. /\ native' \in [Locations -> NativeType]
        /\ \A k \in Locations \ {l} : native'[k] = native[k]
        /\ native'[l].subnets = native[l].subnets /\ native'[l].routes = native[l].routes
        /\ native'[l].installed = native[l].routes
    BY <1>0, <1>2 DEF KubeOVN, IInv, Shapes, NativeType
  <2>3. native[l] # NoNative
    BY <1>2 DEF KubeOVN, NoNative
  <2>4. /\ site' \in [Locations -> SiteType] /\ site'[l] = site[l]
        /\ \A k \in Locations \ {l} : native'[k] = native[k] /\ site'[k] = site[k]
        /\ \A s \in native'[l].subnets : s \in native[l].subnets \/ On(s, site[l].seen.spec)
        /\ native'[l].routes # {} \/ native'[l].installed # {} => local[l].status.gateways
    BY <1>0, <2>1, <2>2 DEF IInv, Shapes, PlaceInv, SiteInv
  <2> QED
    BY <2>1, <2>2, <2>3, <2>4, NativeStep
<1> QED
  BY <1>1, <1>2

\* Native objects are created and deleted, route intents written and withdrawn.
LEMMA NativeWrites ==
  ASSUME IInv, NEW l \in Locations,
         \/ WithdrawRoutes(l) \/ InstallRoutes(l)
         \/ \E s \in Subnets : CreateNative(l, s) \/ DeleteNative(l, s)
  PROVE  IInv'
<1>0. PlaceInv(l) /\ native[l] \in NativeType /\ site[l] \in SiteType
  BY Places DEF IInv, Shapes
<1>1. CASE WithdrawRoutes(l)
  <2>1. /\ UNCHANGED <<authority, sync, local>> /\ site'[l] = SiteIdle
        /\ site' \in [Locations -> SiteType] /\ \A k \in Locations \ {l} : site'[k] = site[k]
    BY <1>1, IdleObjects DEF WithdrawRoutes, EndSite, IInv, Shapes
  <2>2. /\ native' \in [Locations -> NativeType]
        /\ \A k \in Locations \ {l} : native'[k] = native[k]
        /\ native'[l].subnets = native[l].subnets /\ native'[l].routes = {}
        /\ native'[l].installed = native[l].installed
    BY <1>0, <1>1 DEF WithdrawRoutes, IInv, Shapes, NativeType
  <2>3. native[l] # NoNative
    BY <1>1 DEF WithdrawRoutes, NoNative
  <2>4. /\ \A k \in Locations \ {l} : native'[k] = native[k] /\ site'[k] = site[k]
        /\ \A s \in native'[l].subnets : s \in native[l].subnets \/ On(s, site[l].seen.spec)
        /\ native'[l].routes # {} \/ native'[l].installed # {} => local[l].status.gateways
    BY <1>0, <2>1, <2>2 DEF IInv, Shapes, PlaceInv, SiteInv
  <2> QED
    BY <2>1, <2>2, <2>3, <2>4, NativeStep
<1>2. CASE InstallRoutes(l)
  <2>1. /\ UNCHANGED <<authority, sync, local>> /\ site'[l] = SiteIdle
        /\ site' \in [Locations -> SiteType] /\ \A k \in Locations \ {l} : site'[k] = site[k]
    BY <1>2, IdleObjects DEF InstallRoutes, EndSite, IInv, Shapes
  <2>2. RemoteCIDRs(l) \subseteq CIDRs
    <3>1. site[l].seen.spec \in SpecType
      BY <1>0 DEF SiteType, LocalType
    <3> QED
      BY <3>1 DEF RemoteCIDRs, Seen, SpecType
  <2>3. /\ native' \in [Locations -> NativeType]
        /\ \A k \in Locations \ {l} : native'[k] = native[k]
        /\ native'[l].subnets = native[l].subnets
    BY <1>0, <1>2, <2>2 DEF InstallRoutes, IInv, Shapes, NativeType
  <2>4. site[l].pc # "idle" /\ site[l].seen.status.gateways /\ ~Tombstone(site[l].seen.spec)
    BY <1>2 DEF InstallRoutes, Created, Disconnected, Recovered, Acting, Seen, Cross, Active, Tombstone
  <2>5. local[l].status.gateways
    BY <1>0, <2>4 DEF PlaceInv, SiteInv
  <2>6. /\ \A k \in Locations \ {l} : native'[k] = native[k] /\ site'[k] = site[k]
        /\ \A s \in native'[l].subnets : s \in native[l].subnets \/ On(s, site[l].seen.spec)
    BY <2>1, <2>3
  <2> QED
    BY <2>1, <2>3, <2>4, <2>5, <2>6, NativeStep
<1>3. ASSUME NEW s \in Subnets, CreateNative(l, s) PROVE IInv'
  <2>1. UNCHANGED <<authority, sync, local>>
    BY <1>3 DEF CreateNative
  <2>2. /\ site' \in [Locations -> SiteType] /\ \A k \in Locations \ {l} : site'[k] = site[k]
        /\ site'[l].pc = "receipt" /\ site'[l].seen = site[l].seen
    BY <1>0, <1>3 DEF CreateNative, IInv, Shapes, SiteType
  <2>3. /\ native' \in [Locations -> NativeType]
        /\ \A k \in Locations \ {l} : native'[k] = native[k]
        /\ native'[l].subnets = native[l].subnets \union {s}
        /\ native'[l].routes = native[l].routes /\ native'[l].installed = native[l].installed
    BY <1>0, <1>3 DEF CreateNative, IInv, Shapes, NativeType
  <2>4. site[l].pc # "idle" /\ On(s, site[l].seen.spec) /\ ~Tombstone(site[l].seen.spec)
    BY <1>3 DEF CreateNative, Disconnected, Recovered, Acting, Seen, Active, Tombstone, On
  <2>5. /\ \A k \in Locations \ {l} : native'[k] = native[k] /\ site'[k] = site[k]
        /\ \A t \in native'[l].subnets : t \in native[l].subnets \/ On(t, site[l].seen.spec)
        /\ native'[l].routes # {} \/ native'[l].installed # {} => local[l].status.gateways
    BY <1>0, <2>2, <2>3, <2>4 DEF PlaceInv, SiteInv
  <2>6. site'[l].pc # "idle"
    BY <2>2
  <2> QED
    BY <2>1, <2>2, <2>3, <2>4, <2>5, <2>6, NativeStep
<1>4. ASSUME NEW s \in Subnets, DeleteNative(l, s) PROVE IInv'
  <2>1. /\ UNCHANGED <<authority, sync, local>> /\ site'[l] = SiteIdle
        /\ site' \in [Locations -> SiteType] /\ \A k \in Locations \ {l} : site'[k] = site[k]
    BY <1>4, IdleObjects DEF DeleteNative, EndSite, IInv, Shapes
  <2>2. /\ native' \in [Locations -> NativeType]
        /\ \A k \in Locations \ {l} : native'[k] = native[k]
        /\ native'[l].subnets = native[l].subnets \ {s} /\ native'[l].routes = native[l].routes
        /\ native'[l].installed = native[l].installed
    BY <1>0, <1>4 DEF DeleteNative, IInv, Shapes, NativeType
  <2>3. native[l] # NoNative
    BY <1>4 DEF DeleteNative, NoNative
  <2>4. /\ \A k \in Locations \ {l} : native'[k] = native[k] /\ site'[k] = site[k]
        /\ \A t \in native'[l].subnets : t \in native[l].subnets \/ On(t, site[l].seen.spec)
        /\ native'[l].routes # {} \/ native'[l].installed # {} => local[l].status.gateways
    BY <1>0, <2>1, <2>2 DEF PlaceInv, SiteInv
  <2> QED
    BY <2>1, <2>2, <2>3, <2>4, NativeStep
<1> QED
  BY <1>1, <1>2, <1>3, <1>4

-----------------------------------------------------------------------------
(* The syncer of a site.                                                   *)

LEMMA SyncListStep ==
  ASSUME IInv, NEW l \in Locations, SyncList(l)
  PROVE  IInv'
<1>0. PlaceInv(l) /\ binding[l] \in BindingType /\ sync[l] \in SyncType
  BY Places DEF IInv, Shapes
<1>1. /\ sync' \in [Locations -> SyncType] /\ sync'[l].pc = "apply" /\ sync'[l].remote = binding[l]
      /\ sync'[l].status = sync[l].status
      /\ \A k \in Locations \ {l} : sync'[k] = sync[k]
  BY <1>0 DEF IInv, Shapes, SyncList, SyncType
<1>2. Shapes'
  BY <1>1 DEF SyncList, IInv, Shapes, authority
<1>3. Formed(l)' /\ SiteInv(l)'
  BY <1>0, <1>1 DEF SyncList, PlaceInv, Formed, SiteInv, authority
<1>4. AgeInv(l)'
  <2>1. local[l].src \in Nat /\ binding[l].uid \in Nat /\ binding[l].uid # 0 /\ born[l] \in Nat
    BY <1>0 DEF SyncList, BindingType, LocalType, IInv, Shapes
  <2>2. binding[l].uid = born[l]
    BY <1>0, <2>1 DEF PlaceInv, AgeInv
  <2> QED
    BY <1>0, <1>1, <2>1, <2>2 DEF SyncList, PlaceInv, AgeInv, authority
<1>5. ASSUME NEW s \in Subnets PROVE LifeInv(s, l)'
  <2>1. LifeInv(s, l)
    BY <1>0 DEF PlaceInv
  <2>2. Runs(s, l)' => Runs(s, l)
    BY <1>1 DEF Runs, SyncList, authority
  <2>3. (Leaves(s, l)' => Leaves(s, l)) /\ (Left(s, l)' => Left(s, l))
    BY <1>1 DEF Leaves, Left, SyncList, authority
  <2>4. Ordered(s, l)'
    BY <1>1, <2>1, OffNotOn DEF LifeInv, Ordered, SyncList, authority
  <2> QED
    BY <2>1, <2>2, <2>3, <2>4 DEF LifeInv, Ended, ListedEnded, Busy, SyncList, authority
<1>6. PlaceInv(l)'
  BY <1>3, <1>4, <1>5 DEF PlaceInv
<1>7. /\ \A k \in Locations \ {l} : /\ binding'[k] = binding[k] /\ sync'[k] = sync[k]
                                    /\ local'[k] = local[k] /\ site'[k] = site[k]
                                    /\ native'[k] = native[k]
      /\ binding'[l].uid = binding[l].uid /\ UNCHANGED <<vpc, subnet, born, auth, blocked>>
  BY <1>1 DEF SyncList, authority
<1> QED
  BY <1>2, <1>6, <1>7, SiteFrame

\* The syncer ends its pass or goes on to report the status it found, and the copy
\* is kept, replaced by the listed snapshot, or forgotten.
Accepts(l) ==
    /\ sync[l].pc = "apply"
    /\ UNCHANGED <<authority, site, native>>
    /\ local' \in [Locations -> LocalType] /\ sync' \in [Locations -> SyncType]
    /\ \A k \in Locations \ {l} : local'[k] = local[k] /\ sync'[k] = sync[k]
    /\ \/ sync'[l] = SyncIdle
       \/ /\ sync'[l].pc = "upload" /\ sync'[l].remote = sync[l].remote
          /\ sync'[l].status = local[l].status
          /\ local[l].src = sync[l].remote.uid /\ local'[l].src = local[l].src
    /\ \/ local'[l] = local[l]
       \/ /\ local'[l].src = sync[l].remote.uid /\ local'[l].spec = sync[l].remote.spec
          /\ local'[l].status = local[l].status
          /\ local[l].src = 0 \/ local[l].src = sync[l].remote.uid
          /\ Tombstone(local[l].spec) => Tombstone(sync[l].remote.spec) \/ local[l].src = 0
       \/ /\ local'[l] = NoLocal /\ CleanedUp(local[l])
          /\ local[l].src # sync[l].remote.uid /\ local[l].src # 0

LEMMA AcceptStep ==
  ASSUME IInv, NEW l \in Locations, Accepts(l)
  PROVE  IInv'
<1> USE DEF Accepts
<1>0. /\ PlaceInv(l) /\ local[l] \in LocalType /\ sync[l].remote \in BindingType
      /\ born[l] \in Nat /\ binding[l] \in BindingType
  BY Places DEF IInv, Shapes, SyncType
<1>1. /\ local[l].src \in Nat /\ sync[l].remote.uid \in Nat /\ binding[l].uid \in Nat
      /\ sync[l].remote.uid # 0 /\ sync[l].remote.uid <= born[l]
      /\ local[l].src <= sync[l].remote.uid
  BY <1>0 DEF LocalType, BindingType, PlaceInv, AgeInv
<1>2. Shapes'
  BY DEF IInv, Shapes, authority
<1>3. local[l].src = 0 => /\ local[l].spec = EmptySpec /\ local[l].status = EmptyStatus
                          /\ ~Buried(local[l].status) /\ ~local[l].status.gateways
  BY <1>0, EmptyObjects, Empty DEF PlaceInv, SiteInv
<1>4. CleanedUp(local[l]) => Buried(local[l].status) /\ ~local[l].status.gateways
  BY CleanedBuried
<1>5. Formed(l)'
  BY <1>0, IdleObjects, EmptyObjects DEF PlaceInv, Formed, authority, EmptySpec
<1>6. SiteInv(l)'
  <2>1. CASE local'[l] = local[l]
    BY <1>0, <2>1 DEF PlaceInv, SiteInv
  <2>2. CASE /\ local'[l].src = sync[l].remote.uid /\ local'[l].spec = sync[l].remote.spec
             /\ local'[l].status = local[l].status
             /\ local[l].src = 0 \/ local[l].src = sync[l].remote.uid
             /\ Tombstone(local[l].spec) => \/ Tombstone(sync[l].remote.spec)
                                            \/ local[l].src = 0
    BY <1>0, <1>1, <1>3, <2>2 DEF PlaceInv, SiteInv
  <2>3. CASE local'[l] = NoLocal /\ CleanedUp(local[l]) /\ local[l].src # 0
    BY <1>0, <1>4, <2>3, EmptyObjects, Empty DEF PlaceInv, SiteInv
  <2> QED
    BY <2>1, <2>2, <2>3
<1>7. AgeInv(l)'
  <2>1. CASE local'[l] = local[l]
    BY <1>0, <2>1, IdleObjects DEF PlaceInv, AgeInv, authority
  <2>2. CASE /\ local'[l].src = sync[l].remote.uid /\ local'[l].status = local[l].status
             /\ local[l].src = sync[l].remote.uid
    BY <1>0, <1>1, <2>2, IdleObjects DEF PlaceInv, AgeInv, authority
  <2>3. CASE /\ local'[l].src = sync[l].remote.uid /\ local'[l].status = local[l].status
             /\ local[l].src = 0
    <3>1. ~Buried(binding[l].status) /\ ~Buried(auth.got[l].status) /\ binding[l].uid # 0
      BY <1>0, <1>1, <1>3, <2>3 DEF PlaceInv, AgeInv
    <3>2. sync'[l] = SyncIdle
      BY <1>1, <2>3
    <3> QED
      BY <1>0, <1>1, <2>3, <3>1, <3>2, IdleObjects DEF PlaceInv, AgeInv, authority
  <2>4. CASE /\ local'[l] = NoLocal /\ local[l].src # sync[l].remote.uid /\ local[l].src # 0
    <3>1. local[l].src < born[l]
      BY <1>0, <1>1, <2>4
    <3>2. binding[l].uid \in {0, born[l]}
      BY <1>0 DEF PlaceInv, AgeInv
    <3>3. local[l].src # binding[l].uid
      BY <1>1, <2>4, <3>1, <3>2
    <3>4. ~Buried(binding[l].status) /\ ~Buried(auth.got[l].status)
      BY <1>0, <3>3 DEF PlaceInv, AgeInv
    <3>5. binding[l].uid # 0
      BY <1>0, <1>1, <3>1 DEF PlaceInv, AgeInv
    <3>6. sync'[l] = SyncIdle
      BY <2>4
    <3> QED
      BY <1>0, <1>1, <2>4, <3>2, <3>4, <3>5, <3>6, IdleObjects, EmptyObjects
      DEF PlaceInv, AgeInv, authority
  <2> QED
    BY <2>1, <2>2, <2>3, <2>4
<1>8. ASSUME NEW s \in Subnets PROVE LifeInv(s, l)'
  <2>1. LifeInv(s, l)
    BY <1>0 DEF PlaceInv
  <2>2. \/ local'[l].spec = local[l].spec
        \/ local'[l].spec = sync[l].remote.spec
        \/ local'[l].spec = EmptySpec
    BY EmptyObjects
  <2>3. \/ sync'[l].remote.spec = sync[l].remote.spec /\ sync'[l].remote.status = sync[l].remote.status
        \/ sync'[l].remote.spec = EmptySpec /\ sync'[l].remote.status = EmptyStatus
    BY IdleObjects, EmptyObjects
  <2>4. /\ Acks(s, local'[l].status) => Acks(s, local[l].status)
        /\ Acks(s, sync'[l].status) => Acks(s, local[l].status)
        /\ Acks(s, sync'[l].remote.status) => Acks(s, sync[l].remote.status)
    <3>1. local'[l].status = local[l].status \/ local'[l].status = EmptyStatus
      BY EmptyObjects
    <3>2. sync'[l].status = local[l].status \/ sync'[l].status = EmptyStatus
      BY IdleObjects
    <3> QED
      BY <2>3, <3>1, <3>2, Empty
  <2>5. /\ On(s, local'[l].spec) => On(s, local[l].spec) \/ On(s, sync[l].remote.spec)
        /\ On(s, sync'[l].remote.spec) => On(s, sync[l].remote.spec)
    BY <2>2, <2>3, Empty
  <2>6. /\ Off(s, local'[l].spec) => Off(s, local[l].spec) \/ Off(s, sync[l].remote.spec)
        /\ Off(s, sync'[l].remote.spec) => Off(s, sync[l].remote.spec)
    BY <2>2, <2>3, Empty
  <2>7. Runs(s, l)' => Runs(s, l)
    BY <2>5 DEF Runs, authority
  <2>8. (Leaves(s, l)' => Leaves(s, l)) /\ (Left(s, l)' => Left(s, l))
    BY <2>4, <2>6 DEF Leaves, Left, authority
  <2>9. Ordered(s, l)'
    BY <2>1, <2>5, <2>6, OffNotOn DEF LifeInv, Ordered, authority
  <2> QED
    BY <2>1, <2>7, <2>8, <2>9 DEF LifeInv, Ended, ListedEnded, Busy, authority
<1>9. PlaceInv(l)'
  BY <1>5, <1>6, <1>7, <1>8 DEF PlaceInv
<1>10. /\ \A k \in Locations \ {l} : /\ binding'[k] = binding[k] /\ sync'[k] = sync[k]
                                     /\ local'[k] = local[k] /\ site'[k] = site[k]
                                     /\ native'[k] = native[k]
       /\ binding'[l].uid = binding[l].uid /\ UNCHANGED <<vpc, subnet, born, auth, blocked>>
  BY DEF authority
<1> QED
  BY <1>2, <1>9, <1>10, SiteFrame

LEMMA SyncApplyAccepts ==
  ASSUME IInv, NEW l \in Locations, SyncApply(l)
  PROVE  Accepts(l)
<1> DEFINE remote == sync[l].remote
<1> DEFINE mine == local[l]
<1>0. /\ PlaceInv(l) /\ mine \in LocalType /\ sync[l] \in SyncType /\ remote \in BindingType
  BY Places DEF IInv, Shapes, SyncType
<1>1. sync[l].pc = "apply" /\ UNCHANGED <<authority, site, native>>
  BY DEF SyncApply
<1>2. ASSUME sync' = [sync EXCEPT ![l] = SyncIdle]
      PROVE  /\ sync' \in [Locations -> SyncType] /\ sync'[l] = SyncIdle
             /\ \A k \in Locations \ {l} : sync'[k] = sync[k]
  BY <1>2, IdleObjects DEF IInv, Shapes
<1>3. CASE mine.src = 0
  <2>1. /\ sync' = [sync EXCEPT ![l] = SyncIdle]
        /\ local' = [local EXCEPT ![l] = [src |-> remote.uid, spec |-> remote.spec,
                                          status |-> EmptyStatus]]
    BY <1>3 DEF SyncApply
  <2>2. [src |-> remote.uid, spec |-> remote.spec, status |-> EmptyStatus] \in LocalType
    BY <1>0, Empty DEF BindingType, LocalType
  <2>3. /\ local' \in [Locations -> LocalType] /\ local'[l].src = remote.uid
        /\ local'[l].spec = remote.spec /\ local'[l].status = EmptyStatus
        /\ \A k \in Locations \ {l} : local'[k] = local[k]
    BY <2>1, <2>2 DEF IInv, Shapes
  <2>4. mine.status = EmptyStatus
    BY <1>0, <1>3, EmptyObjects DEF PlaceInv, SiteInv
  <2> QED
    BY <1>1, <1>2, <1>3, <2>1, <2>3, <2>4 DEF Accepts
<1>4. CASE mine.src # 0 /\ mine.src # remote.uid
  <2>1. /\ sync' = [sync EXCEPT ![l] = SyncIdle]
        /\ local' = IF CleanedUp(mine) THEN [local EXCEPT ![l] = NoLocal] ELSE local
    BY <1>4 DEF SyncApply
  <2>2. /\ local' \in [Locations -> LocalType] /\ \A k \in Locations \ {l} : local'[k] = local[k]
        /\ local'[l] = mine \/ (local'[l] = NoLocal /\ CleanedUp(mine))
    <3>1. CASE CleanedUp(mine)
      BY <2>1, <3>1, EmptyObjects DEF IInv, Shapes
    <3>2. CASE ~CleanedUp(mine)
      BY <2>1, <3>2 DEF IInv, Shapes
    <3> QED
      BY <3>1, <3>2
  <2> QED
    BY <1>1, <1>2, <1>4, <2>1, <2>2 DEF Accepts
<1>5. CASE mine.src # 0 /\ mine.src = remote.uid /\ Tombstone(mine.spec) /\ ~Tombstone(remote.spec)
  <2>1. sync' = [sync EXCEPT ![l] = SyncIdle] /\ local' = local
    BY <1>5 DEF SyncApply
  <2>2. local' \in [Locations -> LocalType]
    BY <2>1 DEF IInv, Shapes
  <2> QED
    BY <1>1, <1>2, <2>1, <2>2 DEF Accepts
<1>6. CASE mine.src # 0 /\ mine.src = remote.uid /\ ~(Tombstone(mine.spec) /\ ~Tombstone(remote.spec))
  <2>1. /\ local' = [local EXCEPT ![l].spec = remote.spec]
        /\ \/ sync' = [sync EXCEPT ![l] = SyncIdle]
           \/ sync' = [sync EXCEPT ![l].pc = "upload", ![l].status = mine.status]
    BY <1>6 DEF SyncApply
  <2>2. /\ local' \in [Locations -> LocalType] /\ \A k \in Locations \ {l} : local'[k] = local[k]
        /\ local'[l].src = mine.src /\ local'[l].spec = remote.spec /\ local'[l].status = mine.status
    <3>1. remote.spec \in SpecType
      BY <1>0 DEF BindingType
    <3>2. /\ [mine EXCEPT !.spec = remote.spec] \in LocalType
          /\ [mine EXCEPT !.spec = remote.spec].src = mine.src
          /\ [mine EXCEPT !.spec = remote.spec].spec = remote.spec
          /\ [mine EXCEPT !.spec = remote.spec].status = mine.status
      BY <1>0, <3>1 DEF LocalType
    <3>3. local' = [local EXCEPT ![l] = [mine EXCEPT !.spec = remote.spec]]
      BY <2>1
    <3> QED
      BY <3>2, <3>3 DEF IInv, Shapes
  <2>3. CASE sync' = [sync EXCEPT ![l] = SyncIdle]
    BY <1>1, <1>2, <1>6, <2>2, <2>3 DEF Accepts
  <2>4. CASE sync' = [sync EXCEPT ![l].pc = "upload", ![l].status = mine.status]
    <3>1. mine.status \in StatusType
      BY <1>0 DEF LocalType
    <3>2. /\ sync' \in [Locations -> SyncType] /\ \A k \in Locations \ {l} : sync'[k] = sync[k]
          /\ sync'[l].pc = "upload" /\ sync'[l].remote = remote /\ sync'[l].status = mine.status
      BY <1>0, <2>4, <3>1 DEF SyncType, IInv, Shapes
    <3> QED
      BY <1>1, <1>6, <2>2, <3>2 DEF Accepts
  <2> QED
    BY <2>1, <2>3, <2>4
<1> QED
  BY <1>3, <1>4, <1>5, <1>6

LEMMA SyncApplyStep ==
  ASSUME IInv, NEW l \in Locations, SyncApply(l)
  PROVE  IInv'
  BY SyncApplyAccepts, AcceptStep

LEMMA SyncUploadStep ==
  ASSUME IInv, NEW l \in Locations, SyncUpload(l)
  PROVE  IInv'
<1>0. /\ PlaceInv(l) /\ binding[l] \in BindingType /\ sync[l] \in SyncType
      /\ sync[l].status \in StatusType
  BY Places DEF IInv, Shapes, SyncType
<1>1. /\ sync' \in [Locations -> SyncType] /\ sync'[l] = SyncIdle
      /\ \A k \in Locations \ {l} : sync'[k] = sync[k]
      /\ UNCHANGED <<vpc, subnet, born, auth, blocked, local, site, native>>
  BY IdleObjects DEF SyncUpload, IInv, Shapes
<1>2. /\ binding' \in [Locations -> BindingType] /\ \A k \in Locations \ {l} : binding'[k] = binding[k]
      /\ binding'[l].uid = binding[l].uid /\ binding'[l].spec = binding[l].spec
      /\ \/ binding'[l].status = binding[l].status
         \/ binding'[l].status = sync[l].status /\ binding[l] = sync[l].remote
  BY <1>0 DEF SyncUpload, IInv, Shapes, BindingType
<1>3. Shapes'
  BY <1>1, <1>2 DEF IInv, Shapes
<1>4. Formed(l)' /\ SiteInv(l)'
  <2>1. Formed(l)'
    BY <1>0, <1>1, <1>2, IdleObjects, EmptyObjects DEF PlaceInv, Formed, EmptySpec
  <2>2. SiteInv(l)'
    BY <1>0, <1>1 DEF PlaceInv, SiteInv
  <2> QED
    BY <2>1, <2>2
<1>5. AgeInv(l)'
  <2>1. Buried(binding'[l].status) =>
          \/ Buried(binding[l].status)
          \/ local[l].src = binding[l].uid /\ Buried(local[l].status)
    BY <1>0, <1>2 DEF SyncUpload, PlaceInv, AgeInv
  <2> QED
    BY <1>0, <1>1, <1>2, <2>1, IdleObjects DEF PlaceInv, AgeInv
<1>6. ASSUME NEW s \in Subnets PROVE LifeInv(s, l)'
  <2>1. LifeInv(s, l)
    BY <1>0 DEF PlaceInv
  <2>2. /\ sync'[l].remote.spec = EmptySpec /\ sync'[l].remote.status = EmptyStatus
        /\ sync'[l].status = EmptyStatus
    BY <1>1, IdleObjects, EmptyObjects
  <2>3. /\ ~On(s, sync'[l].remote.spec) /\ ~Off(s, sync'[l].remote.spec)
        /\ ~Acks(s, sync'[l].remote.status) /\ ~Acks(s, sync'[l].status)
    BY <2>2, Empty
  <2>4. /\ On(s, binding'[l].spec) <=> On(s, binding[l].spec)
        /\ Off(s, binding'[l].spec) <=> Off(s, binding[l].spec)
        /\ Acks(s, binding'[l].status) => Acks(s, binding[l].status) \/ Acks(s, sync[l].status)
    BY <1>2
  <2>5. Runs(s, l)' => Runs(s, l)
    BY <1>1, <2>3, <2>4 DEF Runs
  <2>6. (Leaves(s, l)' => Leaves(s, l)) /\ (Left(s, l)' => Left(s, l))
    BY <1>1, <2>3, <2>4 DEF Leaves, Left
  <2>7. Ordered(s, l)'
    BY <1>1, <2>1, <2>3, <2>4 DEF LifeInv, Ordered
  <2> QED
    BY <1>1, <2>1, <2>5, <2>6, <2>7 DEF LifeInv, Ended, ListedEnded, Busy
<1>7. PlaceInv(l)'
  BY <1>4, <1>5, <1>6 DEF PlaceInv
<1>8. \A k \in Locations \ {l} : /\ binding'[k] = binding[k] /\ sync'[k] = sync[k]
                                 /\ local'[k] = local[k] /\ site'[k] = site[k]
                                 /\ native'[k] = native[k]
  BY <1>1, <1>2
<1> QED
  BY <1>1, <1>2, <1>3, <1>7, <1>8, SiteFrame

-----------------------------------------------------------------------------
(* The authority and the users.                                            *)

\* What a pass takes for bound and terminating.
LEMMA ListedFacts ==
  ASSUME IInv, Busy, NEW s \in Subnets
  PROVE  /\ s \in Present <=> auth.subnets[s].state \in {"active", "terminating"}
         /\ s \in Terminating <=> auth.subnets[s].state = "terminating"
         /\ s \in Finalized <=> auth.subnets[s].fin
         /\ s \in Bound => s \in vpc.claims /\ s \in Finalized
         /\ s \in Finalized => subnet[s].fin /\ s \in Present
         /\ s \in Terminating => subnet[s].state = "terminating"
<1>1. ListedInv(s)
  BY DEF IInv, AuthInv
<1>2. s \in Present <=> auth.subnets[s].state \in {"active", "terminating"}
  BY DEF Present
<1>3. s \in Terminating <=> auth.subnets[s].state = "terminating"
  BY <1>2 DEF Terminating
<1>4. s \in Finalized <=> auth.subnets[s].fin
  BY <1>1, <1>2 DEF Finalized, ListedInv
<1>5. s \in Bound => s \in vpc.claims /\ s \in Finalized
  BY DEF Bound
<1> QED
  BY <1>1, <1>2, <1>3, <1>4, <1>5 DEF ListedInv

\* Every spec of a plan is well formed and asks for the bound Subnets of its location.
LEMMA WantFacts ==
  ASSUME NEW l \in Locations
  PROVE  /\ Want(l) \in SpecType /\ Want(l).deleting \subseteq Want(l).subnets
         /\ \A s \in Subnets :
              /\ On(s, Want(l)) => s \in Bound /\ s \notin Terminating /\ LocationOf[s] = l
              /\ Off(s, Want(l)) <=> s \in Bound /\ s \in Terminating /\ LocationOf[s] = l
<1>0. Bound \subseteq Subnets
  BY DEF Bound, Finalized, Present
<1> DEFINE at(k) == {s \in Bound : LocationOf[s] = k}
<1> DEFINE exported == {s \in Bound \ at(l) :
            ~(s \in Terminating /\ Withdrawn(auth.bindings, LocationOf[s], s))}
<1> DEFINE remote == {<<LocationOf[s], CIDROf[s]>> : s \in exported}
<1> DEFINE authorized == {LocationOf[s] : s \in Bound}
<1> DEFINE peers == {k \in Locations \ {l} : /\ auth.bindings[k].uid # 0
                                            /\ auth.bindings[k].status.gateways
                                            /\ at(k) # {}}
<1> DEFINE deleting == Draining(l, Bound, Terminating)
<1>1. Want(l) = [subnets |-> at(l), deleting |-> deleting, remote |-> remote,
                 authorized |-> authorized, peers |-> peers]
  BY DEF Want, Build
<1>2. at(l) \subseteq Subnets /\ deleting \subseteq at(l)
  BY <1>0 DEF Draining
<1>3. remote \subseteq Locations \X CIDRs
  BY <1>0, LocationAssumption DEF CIDRs
<1>4. authorized \subseteq Locations
  BY <1>0, LocationAssumption
<1>5. peers \subseteq Locations
  OBVIOUS
<1>6. \A s \in Subnets : /\ s \in at(l) <=> s \in Bound /\ LocationOf[s] = l
                         /\ s \in deleting <=> s \in Bound /\ s \in Terminating /\ LocationOf[s] = l
  BY DEF Draining
<1> HIDE DEF at, exported, remote, authorized, peers, deleting
<1>7. Want(l) \in SpecType /\ Want(l).deleting \subseteq Want(l).subnets
  BY <1>1, <1>2, <1>3, <1>4, <1>5 DEF SpecType
<1>8. Want(l).subnets = at(l) /\ Want(l).deleting = deleting
  BY <1>1
<1> QED
  BY <1>6, <1>7, <1>8 DEF On, Off

\* Finalizers and claims of a Subnet, whatever a pass listed.
FinInv(s) ==
    /\ subnet[s].fin => subnet[s].state \in {"active", "terminating"}
    /\ subnet[s].state = "terminating" => subnet[s].fin
    /\ s \in vpc.claims => subnet[s].fin \/ subnet[s].state = "gone"

\* The receipt of a binding names what exists.
RefInv(l) == vpc.live /\ vpc.refs[l] # 0 => binding[l].uid = vpc.refs[l]

LEMMA FinFacts ==
  ASSUME IInv
  PROVE  /\ \A s \in Subnets : FinInv(s)
         /\ \A l \in Locations : RefInv(l)
  BY DEF IInv, AuthInv, ListedInv, PlanInv, FinInv, RefInv

\* The last step of a pass.
LEMMA EndFrame ==
  ASSUME IInv, EndPass, UNCHANGED <<blocked, sites>>, Shapes',
         \A s \in Subnets : FinInv(s)', \A l \in Locations : RefInv(l)', Apart', LiveInv',
         \A l \in Locations : binding'[l].spec.deleting \subseteq binding'[l].spec.subnets,
         \A l \in Locations : AgeInv(l)',
         \A s \in Subnets, l \in Locations : LifeInv(s, l)'
  PROVE  IInv'
<1>1. auth'.pc = "idle" /\ \A l \in Locations : auth'.got[l] = NoBinding
  BY IdleObjects DEF EndPass
<1>2. \A s \in Subnets : ListedInv(s)'
  BY <1>1 DEF FinInv, ListedInv, Busy
<1>3. ASSUME NEW l \in Locations PROVE PlanInv(l)'
  BY <1>1, EmptyObjects DEF RefInv, PlanInv
<1>4. AuthInv'
  BY <1>2, <1>3 DEF AuthInv, IInv, NoFalseBlock
<1>5. ASSUME NEW l \in Locations PROVE Formed(l)' /\ SiteInv(l)'
  <2>1. Formed(l)'
    BY DEF IInv, Formed, sites
  <2>2. SiteInv(l)'
    BY DEF IInv, SiteInv, sites
  <2> QED
    BY <2>1, <2>2
<1> QED
  BY <1>4, <1>5 DEF IInv

\* A pass that ends with a write to the VPC or to a Subnet.
LEMMA RecordStep ==
  ASSUME IInv, vpc.live, EndPass, UNCHANGED <<binding, born, blocked, sites>>,
         vpc' \in VPCType, subnet' \in [Subnets -> SubnetType], vpc'.live,
         \A s \in Subnets : FinInv(s)', \A l \in Locations : RefInv(l)', Apart',
         \A s \in Subnets : Ended(s) => Ended(s)',
         \A s \in Subnets, l \in Locations :
            Runs(s, l) => s \in vpc'.claims /\ subnet'[s].state # "gone"
  PROVE  IInv'
<1>0. auth'.pc = "idle" /\ auth' \in AuthType /\ \A l \in Locations : auth'.got[l] = NoBinding
  BY IdleObjects DEF EndPass
<1>1. Shapes'
  BY <1>0 DEF IInv, Shapes, sites
<1>2. LiveInv'
  BY DEF LiveInv
<1>3. \A l \in Locations : binding'[l].spec.deleting \subseteq binding'[l].spec.subnets
  BY DEF IInv, Formed
<1>4. ASSUME NEW l \in Locations PROVE AgeInv(l)'
  <2>1. AgeInv(l)
    BY DEF IInv
  <2>2. ~Buried(auth'.got[l].status)
    BY <1>0, EmptyObjects, Empty
  <2> QED
    BY <2>1, <2>2 DEF AgeInv, sites
<1>5. ASSUME NEW s \in Subnets, NEW l \in Locations PROVE LifeInv(s, l)'
  <2>1. LifeInv(s, l)
    BY DEF IInv
  <2>2. ~Acks(s, auth'.got[l].status)
    BY <1>0, EmptyObjects, Empty
  <2>3. /\ Runs(s, l)' <=> Runs(s, l)
        /\ Leaves(s, l)' <=> Leaves(s, l)
        /\ Left(s, l)' => Left(s, l)
    BY <2>2 DEF Runs, Leaves, Left, sites
  <2>4. Ordered(s, l)'
    BY <2>1 DEF LifeInv, Ordered, sites
  <2> QED
    BY <1>0, <2>1, <2>3, <2>4 DEF LifeInv, Busy
<1> QED
  BY <1>1, <1>2, <1>3, <1>4, <1>5, EndFrame

\* A pass that ends with a write to one binding.
LEMMA BindingStep ==
  ASSUME IInv, vpc.live, NEW l \in Locations, EndPass, UNCHANGED <<vpc, subnet, blocked, sites>>,
         binding' \in [Locations -> BindingType], born' \in [Locations -> Nat],
         \A k \in Locations \ {l} : binding'[k] = binding[k] /\ born'[k] = born[k],
         RefInv(l)', AgeInv(l)', binding'[l].spec.deleting \subseteq binding'[l].spec.subnets,
         \A s \in Subnets : LifeInv(s, l)'
  PROVE  IInv'
<1>0. auth'.pc = "idle" /\ auth' \in AuthType /\ \A k \in Locations : auth'.got[k] = NoBinding
  BY IdleObjects DEF EndPass
<1>1. Shapes'
  BY <1>0 DEF IInv, Shapes, sites
<1>2. LiveInv' /\ Apart'
  BY DEF LiveInv, IInv, AuthInv, Apart, Overlaps
<1>3. \A k \in Locations : binding'[k].spec.deleting \subseteq binding'[k].spec.subnets
  BY DEF IInv, Formed
<1>4. (\A s \in Subnets : FinInv(s)') /\ (\A k \in Locations : RefInv(k)')
  BY FinFacts DEF FinInv, RefInv
<1>5. ASSUME NEW k \in Locations PROVE AgeInv(k)'
  <2>1. CASE k = l
    BY <2>1
  <2>2. CASE k # l
    <3>1. AgeInv(k)
      BY DEF IInv
    <3>2. ~Buried(auth'.got[k].status)
      BY <1>0, EmptyObjects, Empty
    <3> QED
      BY <2>2, <3>1, <3>2 DEF AgeInv, sites
  <2> QED
    BY <2>1, <2>2
<1>6. ASSUME NEW s \in Subnets, NEW k \in Locations PROVE LifeInv(s, k)'
  <2>1. CASE k = l
    BY <2>1
  <2>2. CASE k # l
    <3>1. LifeInv(s, k)
      BY DEF IInv
    <3>2. ~Acks(s, auth'.got[k].status)
      BY <1>0, EmptyObjects, Empty
    <3>3. /\ Runs(s, k)' <=> Runs(s, k)
          /\ Leaves(s, k)' <=> Leaves(s, k)
          /\ Left(s, k)' => Left(s, k)
      BY <2>2, <3>2 DEF Runs, Leaves, Left, sites
    <3>4. Ordered(s, k)'
      BY <2>2, <3>1 DEF LifeInv, Ordered, sites
    <3> QED
      BY <1>0, <3>1, <3>3, <3>4 DEF LifeInv, Busy, Ended
  <2> QED
    BY <2>1, <2>2
<1> QED
  BY <1>1, <1>2, <1>3, <1>4, <1>5, <1>6, EndFrame

\* A step of a pass that writes nothing.
LEMMA ReadStep ==
  ASSUME IInv, vpc.live, UNCHANGED <<vpc, subnet, binding, born, blocked, sites>>,
         auth' \in AuthType, \A s \in Subnets : ListedInv(s)', \A l \in Locations : PlanInv(l)',
         \A l \in Locations : \/ auth'.got[l].status = auth.got[l].status
                              \/ auth'.got[l].status = binding[l].status,
         \/ auth'.subnets = subnet
         \/ Busy /\ auth'.subnets = auth.subnets
  PROVE  IInv'
<1>1. Shapes' /\ LiveInv'
  BY DEF IInv, Shapes, LiveInv, sites
<1>2. AuthInv'
  BY DEF IInv, AuthInv, Apart, NoFalseBlock, Overlaps
<1>3. ASSUME NEW l \in Locations PROVE Formed(l)' /\ SiteInv(l)' /\ AgeInv(l)'
  <2>1. Formed(l)' /\ SiteInv(l)'
    BY DEF IInv, Formed, SiteInv, sites
  <2>2. Buried(auth'.got[l].status) => Buried(auth.got[l].status) \/ Buried(binding[l].status)
    OBVIOUS
  <2>3. AgeInv(l)
    BY DEF IInv
  <2>4. AgeInv(l)'
    BY <2>2, <2>3 DEF AgeInv, sites
  <2> QED
    BY <2>1, <2>4
<1>4. ASSUME NEW s \in Subnets, NEW l \in Locations PROVE LifeInv(s, l)'
  <2>1. LifeInv(s, l)
    BY DEF IInv
  <2>2. Acks(s, auth'.got[l].status) => Acks(s, auth.got[l].status) \/ Acks(s, binding[l].status)
    OBVIOUS
  <2>3. /\ Runs(s, l)' <=> Runs(s, l)
        /\ Leaves(s, l)' <=> Leaves(s, l)
        /\ Left(s, l)' => Left(s, l)
    BY <2>2 DEF Runs, Leaves, Left, sites
  <2>4. Ordered(s, l)'
    BY <2>1 DEF LifeInv, Ordered, sites
  <2> QED
    BY <2>1, <2>3, <2>4 DEF LifeInv, Ended, ListedEnded
<1> QED
  BY <1>1, <1>2, <1>3, <1>4 DEF IInv

\* Users only change states of Subnets and ask for the deletion of the VPC.
LEMMA UserStep ==
  ASSUME IInv, UNCHANGED <<binding, born, auth, blocked, sites>>,
         vpc' \in VPCType, vpc'.claims = vpc.claims, vpc'.refs = vpc.refs, vpc'.live = vpc.live,
         subnet' \in [Subnets -> SubnetType], \A s \in Subnets : ListedInv(s)',
         \A s \in Subnets : /\ subnet'[s].fin = subnet[s].fin
                            /\ Ended(s) => Ended(s)'
                            /\ s \in vpc.claims /\ subnet[s].state # "gone" =>
                                  subnet'[s].state # "gone"
  PROVE  IInv'
<1>1. Shapes' /\ LiveInv'
  BY DEF IInv, Shapes, LiveInv, sites
<1>2. ASSUME NEW l \in Locations PROVE PlanInv(l)'
  <2>1. PlanInv(l) /\ Want(l)' = Want(l)
    BY WantSame DEF IInv, AuthInv
  <2> QED
    BY <2>1 DEF PlanInv
<1>3. AuthInv'
  BY <1>2 DEF IInv, AuthInv, Apart, NoFalseBlock, Overlaps
<1>4. ASSUME NEW l \in Locations PROVE Formed(l)' /\ SiteInv(l)' /\ AgeInv(l)'
  <2>1. Formed(l)' /\ SiteInv(l)'
    BY DEF IInv, Formed, SiteInv, sites
  <2>2. AgeInv(l)'
    BY DEF IInv, AgeInv, sites
  <2> QED
    BY <2>1, <2>2
<1>5. ASSUME NEW s \in Subnets, NEW l \in Locations PROVE LifeInv(s, l)'
  <2>1. LifeInv(s, l)
    BY DEF IInv
  <2>2. /\ Runs(s, l)' <=> Runs(s, l)
        /\ Leaves(s, l)' <=> Leaves(s, l)
        /\ Left(s, l)' <=> Left(s, l)
    BY DEF Runs, Leaves, Left, sites
  <2>3. Ordered(s, l)'
    BY <2>1 DEF LifeInv, Ordered, sites
  <2> QED
    BY <2>1, <2>2, <2>3 DEF LifeInv, ListedEnded, Busy
<1> QED
  BY <1>1, <1>3, <1>4, <1>5 DEF IInv

LEMMA UsersStep ==
  ASSUME IInv, Users
  PROVE  IInv'
<1>0. /\ vpc \in VPCType /\ subnet \in [Subnets -> SubnetType] /\ auth \in AuthType
      /\ \A s \in Subnets : ListedInv(s)
  BY DEF IInv, Shapes, AuthInv
<1>1. ASSUME NEW s \in Subnets, CreateSubnet(s) PROVE IInv'
  <2>1. /\ UNCHANGED <<vpc, binding, born, auth, blocked, sites>>
        /\ subnet[s].state = "none"
    BY <1>1 DEF CreateSubnet
  <2>2. subnet[s] \in SubnetType
    BY <1>0
  <2>3. /\ subnet' \in [Subnets -> SubnetType] /\ \A t \in Subnets \ {s} : subnet'[t] = subnet[t]
        /\ subnet'[s].state = "active" /\ subnet'[s].fin = subnet[s].fin
    BY <1>0, <1>1, <2>2 DEF CreateSubnet, SubnetType
  <2>4. \A t \in Subnets : /\ subnet'[t].fin = subnet[t].fin
                           /\ Ended(t) => Ended(t)'
                           /\ t \in vpc.claims /\ subnet[t].state # "gone" => subnet'[t].state # "gone"
    BY <2>1, <2>3 DEF Ended
  <2>5. ASSUME NEW t \in Subnets PROVE ListedInv(t)'
    <3>1. ListedInv(t)
      BY <1>0
    <3>2. CASE t = s
      BY <2>1, <2>3, <3>1, <3>2 DEF ListedInv, Busy
    <3>3. CASE t # s
      BY <2>1, <2>3, <3>1, <3>3 DEF ListedInv, Busy
    <3> QED
      BY <3>2, <3>3
  <2> QED
    BY <1>0, <2>1, <2>3, <2>4, <2>5, UserStep
<1>2. ASSUME NEW s \in Subnets, DeleteSubnet(s) PROVE IInv'
  <2>1. /\ UNCHANGED <<vpc, binding, born, auth, blocked, sites>>
        /\ subnet[s].state = "active"
    BY <1>2 DEF DeleteSubnet
  <2>2. subnet[s] \in SubnetType
    BY <1>0
  <2>3. /\ subnet' \in [Subnets -> SubnetType] /\ \A t \in Subnets \ {s} : subnet'[t] = subnet[t]
        /\ subnet'[s].fin = subnet[s].fin
        /\ subnet'[s].state = IF subnet[s].fin THEN "terminating" ELSE "gone"
    BY <1>0, <1>2, <2>2 DEF DeleteSubnet, SubnetType
  <2>4. s \in vpc.claims => subnet[s].fin
    BY <1>0, <2>1 DEF ListedInv
  <2>5. \A t \in Subnets : /\ subnet'[t].fin = subnet[t].fin
                           /\ Ended(t) => Ended(t)'
                           /\ t \in vpc.claims /\ subnet[t].state # "gone" => subnet'[t].state # "gone"
    BY <2>1, <2>3, <2>4 DEF Ended
  <2>6. ASSUME NEW t \in Subnets PROVE ListedInv(t)'
    <3>1. ListedInv(t)
      BY <1>0
    <3>2. CASE t = s
      BY <2>1, <2>3, <3>1, <3>2 DEF ListedInv, Busy
    <3>3. CASE t # s
      BY <2>1, <2>3, <3>1, <3>3 DEF ListedInv, Busy
    <3> QED
      BY <3>2, <3>3
  <2> QED
    BY <1>0, <2>1, <2>3, <2>5, <2>6, UserStep
<1>3. CASE DeleteVPC
  <2>1. /\ UNCHANGED <<subnet, binding, born, auth, blocked, sites>>
        /\ vpc' \in VPCType /\ vpc'.claims = vpc.claims /\ vpc'.refs = vpc.refs
        /\ vpc'.live = vpc.live
    BY <1>0, <1>3 DEF DeleteVPC, VPCType
  <2>2. \A s \in Subnets : ListedInv(s)'
    BY <1>0, <2>1 DEF ListedInv, Busy
  <2>3. \A t \in Subnets : /\ subnet'[t].fin = subnet[t].fin
                           /\ Ended(t) => Ended(t)'
                           /\ t \in vpc.claims /\ subnet[t].state # "gone" => subnet'[t].state # "gone"
    BY <2>1 DEF Ended
  <2> QED
    BY <1>0, <2>1, <2>2, <2>3, UserStep
<1> QED
  BY <1>1, <1>2, <1>3 DEF Users

\* The pass lists, and starts on its plan.
LEMMA PassReads ==
  ASSUME IInv, ListSubnets \/ ListBindings \/ StartPlan
  PROVE  IInv'
<1>0. /\ auth \in AuthType /\ subnet \in [Subnets -> SubnetType]
      /\ binding \in [Locations -> BindingType]
      /\ \A s \in Subnets : ListedInv(s)
      /\ \A l \in Locations : PlanInv(l)
  BY DEF IInv, Shapes, AuthInv
<1>1. vpc.live
  BY DEF IInv, LiveInv, ListSubnets, ListBindings, StartPlan, Admitted, Deciding
<1>2. UNCHANGED <<vpc, subnet, binding, born, blocked, sites>>
  BY DEF ListSubnets, ListBindings, StartPlan
<1>3. CASE ListSubnets
  <2>1. /\ auth' \in AuthType /\ auth'.pc = "listed" /\ auth'.subnets = subnet
        /\ auth'.bindings = auth.bindings /\ auth'.got = auth.got
    <3>1. vpc.deleting \in BOOLEAN
      BY DEF IInv, Shapes, VPCType
    <3> QED
      BY <1>0, <1>3, <3>1 DEF ListSubnets, AuthType
  <2>2. ASSUME NEW s \in Subnets PROVE ListedInv(s)'
    BY <1>0, <1>2, <2>1 DEF ListedInv, Busy
  <2>3. ASSUME NEW l \in Locations PROVE PlanInv(l)'
    BY <1>0, <1>2, <1>3, <2>1, EmptyObjects DEF PlanInv, ListSubnets
  <2> QED
    BY <1>1, <1>2, <2>1, <2>2, <2>3, ReadStep
<1>4. CASE ListBindings
  <2>1. /\ auth' \in AuthType /\ auth'.pc = "decide" /\ auth'.subnets = auth.subnets
        /\ auth'.bindings = binding /\ auth'.got = auth.got /\ Busy
    BY <1>0, <1>4 DEF ListBindings, AuthType, Busy
  <2>2. ASSUME NEW s \in Subnets PROVE ListedInv(s)'
    BY <1>0, <1>2, <2>1 DEF ListedInv, Busy
  <2>3. ASSUME NEW l \in Locations PROVE PlanInv(l)'
    BY <1>0, <1>2, <1>4, <2>1 DEF PlanInv, ListBindings
  <2> QED
    BY <1>1, <1>2, <2>1, <2>2, <2>3, ReadStep
<1>5. CASE StartPlan
  <2>1. /\ auth' \in AuthType /\ auth'.pc = "apply" /\ auth'.subnets = auth.subnets
        /\ auth'.bindings = auth.bindings /\ auth'.got = auth.got /\ Busy /\ auth.pc = "decide"
    BY <1>0, <1>5 DEF StartPlan, AuthType, Busy, Admitted, Deciding
  <2>2. ASSUME NEW s \in Subnets PROVE ListedInv(s)'
    BY <1>0, <1>2, <2>1 DEF ListedInv, Busy
  <2>3. ASSUME NEW l \in Locations PROVE PlanInv(l)'
    BY <1>0, <1>2, <2>1 DEF PlanInv
  <2> QED
    BY <1>1, <1>2, <2>1, <2>2, <2>3, ReadStep
<1> QED
  BY <1>3, <1>4, <1>5

\* A pass that ends with a write to one Subnet.
LEMMA SubnetWrite ==
  ASSUME IInv, vpc.live, EndPass, UNCHANGED <<vpc, binding, born, blocked, sites>>,
         NEW s \in Subnets, subnet' \in [Subnets -> SubnetType],
         \A t \in Subnets \ {s} : subnet'[t] = subnet[t],
         FinInv(s)', Ended(s) => Ended(s)',
         subnet'[s].state = subnet[s].state \/ \A l \in Locations : ~Runs(s, l)
  PROVE  IInv'
<1>1. \A t \in Subnets : FinInv(t)'
  BY FinFacts DEF FinInv
<1>2. (\A l \in Locations : RefInv(l)') /\ Apart' /\ vpc' \in VPCType /\ vpc'.live
  BY FinFacts DEF RefInv, IInv, AuthInv, Apart, Overlaps, Shapes
<1>3. \A t \in Subnets : Ended(t) => Ended(t)'
  BY DEF Ended
<1>4. \A t \in Subnets, l \in Locations :
        Runs(t, l) => t \in vpc'.claims /\ subnet'[t].state # "gone"
  BY DEF IInv, LifeInv
<1> QED
  BY <1>1, <1>2, <1>3, <1>4, RecordStep

\* A pass that ends with a write to the VPC: new claims have a finalizer, released ones
\* belong to Subnets that are gone.
LEMMA VPCWrite ==
  ASSUME IInv, vpc.live, EndPass, UNCHANGED <<subnet, binding, born, blocked, sites>>,
         vpc' \in VPCType, vpc'.live, \A l \in Locations : RefInv(l)', Apart',
         \A s \in Subnets : s \in vpc'.claims => s \in vpc.claims \/ subnet[s].fin,
         \A s \in Subnets : s \in vpc.claims => s \in vpc'.claims \/ subnet[s].state = "gone"
  PROVE  IInv'
<1>1. \A t \in Subnets : FinInv(t)'
  BY FinFacts DEF FinInv
<1>2. subnet' \in [Subnets -> SubnetType]
  BY DEF IInv, Shapes
<1>3. \A t \in Subnets : Ended(t) => Ended(t)'
  BY DEF Ended
<1>4. \A t \in Subnets, l \in Locations :
        Runs(t, l) => t \in vpc'.claims /\ subnet'[t].state # "gone"
  BY DEF IInv, LifeInv
<1> QED
  BY <1>1, <1>2, <1>3, <1>4, RecordStep

LEMMA UnwrittenVPC ==
  ASSUME IInv, vpc.live, EndPass, UNCHANGED <<vpc, subnet, binding, born, blocked, sites>>
  PROVE  IInv'
<1>1. (\A l \in Locations : RefInv(l)') /\ Apart' /\ vpc' \in VPCType /\ vpc'.live
  BY FinFacts DEF RefInv, IInv, AuthInv, Apart, Overlaps, Shapes
<1>2. \A s \in Subnets : s \in vpc'.claims <=> s \in vpc.claims
  OBVIOUS
<1> QED
  BY <1>1, <1>2, VPCWrite

\* The pass adds a finalizer, drops a rejected Subnet, or binds an accepted one.
LEMMA SubnetDecisions ==
  ASSUME IInv, NEW s \in Subnets, AddFinalizer(s) \/ RejectTerminating(s) \/ BindSubnet(s)
  PROVE  IInv'
<1>0. /\ subnet \in [Subnets -> SubnetType] /\ subnet[s] \in SubnetType /\ ListedInv(s) /\ FinInv(s)
  BY FinFacts DEF IInv, Shapes, AuthInv
<1>1. /\ vpc.live /\ Busy /\ EndPass /\ UNCHANGED <<vpc, binding, born, blocked, sites>>
  BY DEF AddFinalizer, RejectTerminating, BindSubnet, Admitted, Deciding, Busy
<1>2. CASE subnet' = subnet
  BY <1>1, <1>2, UnwrittenVPC
<1>3. CASE AddFinalizer(s) /\ subnet' # subnet
  <2>1. subnet[s] = auth.subnets[s] /\ subnet' = [subnet EXCEPT ![s].fin = TRUE]
    BY <1>3 DEF AddFinalizer
  <2>2. subnet[s].state = "active"
    BY <1>1, <1>3, <2>1, ListedFacts DEF AddFinalizer
  <2>3. /\ subnet' \in [Subnets -> SubnetType] /\ \A t \in Subnets \ {s} : subnet'[t] = subnet[t]
        /\ subnet'[s].state = subnet[s].state /\ subnet'[s].fin
    BY <1>0, <2>1 DEF SubnetType
  <2>4. FinInv(s)' /\ (Ended(s) => Ended(s)')
    BY <2>2, <2>3 DEF FinInv, Ended
  <2> QED
    BY <1>1, <2>3, <2>4, SubnetWrite
<1>4. CASE BindSubnet(s) /\ subnet' # subnet
  <2>1. subnet' = [subnet EXCEPT ![s].bound = TRUE]
    BY <1>4 DEF BindSubnet
  <2>2. /\ subnet' \in [Subnets -> SubnetType] /\ \A t \in Subnets \ {s} : subnet'[t] = subnet[t]
        /\ subnet'[s].state = subnet[s].state /\ subnet'[s].fin = subnet[s].fin
    BY <1>0, <2>1 DEF SubnetType
  <2>3. FinInv(s)' /\ (Ended(s) => Ended(s)')
    BY <1>0, <1>1, <2>2 DEF FinInv, Ended
  <2> QED
    BY <1>1, <2>2, <2>3, SubnetWrite
<1>5. CASE RejectTerminating(s) /\ subnet' # subnet
  <2>1. subnet' = [subnet EXCEPT ![s].fin = FALSE, ![s].state = "gone"]
    BY <1>5 DEF RejectTerminating
  <2>2. /\ subnet' \in [Subnets -> SubnetType] /\ \A t \in Subnets \ {s} : subnet'[t] = subnet[t]
        /\ subnet'[s].state = "gone" /\ ~subnet'[s].fin
    BY <1>0, <2>1 DEF SubnetType
  <2>3. s \notin vpc.claims
    BY <1>5 DEF RejectTerminating, Candidates
  <2>4. \A l \in Locations : ~Runs(s, l)
    BY <2>3 DEF IInv, LifeInv
  <2>5. FinInv(s)' /\ (Ended(s) => Ended(s)')
    BY <2>2 DEF FinInv, Ended
  <2> QED
    BY <1>1, <2>2, <2>4, <2>5, SubnetWrite
<1> QED
  BY <1>2, <1>3, <1>4, <1>5

LEMMA PersistClaimsStep ==
  ASSUME IInv, NEW A \in SUBSET Subnets, PersistClaims(A)
  PROVE  IInv'
<1>0. vpc \in VPCType /\ Apart
  BY DEF IInv, Shapes, AuthInv
<1>1. vpc.live /\ Busy /\ EndPass /\ UNCHANGED <<subnet, binding, born, blocked, sites>>
  BY DEF PersistClaims, Admitted, Deciding, Busy
<1>2. CASE vpc' = vpc
  BY <1>1, <1>2, UnwrittenVPC
<1>3. CASE vpc' # vpc
  <2>1. vpc' = [vpc EXCEPT !.claims = @ \union A]
    BY <1>3 DEF PersistClaims, WriteVPC
  <2>2. /\ vpc' \in VPCType /\ vpc'.claims = vpc.claims \union A /\ vpc'.live = vpc.live
        /\ vpc'.refs = vpc.refs
    BY <1>0, <2>1 DEF VPCType
  <2>3. /\ A \subseteq Eligible
        /\ \A s, t \in A : s # t => ~Overlaps(s, t)
    BY DEF PersistClaims, Admitted, Admissions
  <2>4. \A s \in A : s \in Finalized /\ \A c \in vpc.claims : ~Overlaps(s, c)
    BY <2>3 DEF Eligible, Candidates
  <2>5. Apart'
    BY <1>0, <2>2, <2>3, <2>4 DEF Apart, Overlaps
  <2>6. \A l \in Locations : RefInv(l)'
    BY <1>1, <2>2, FinFacts DEF RefInv
  <2>7. \A s \in Subnets : /\ s \in vpc'.claims => s \in vpc.claims \/ subnet[s].fin
                           /\ s \in vpc.claims => s \in vpc'.claims
    BY <1>1, <2>2, <2>4, ListedFacts
  <2> QED
    BY <1>1, <2>2, <2>5, <2>6, <2>7, VPCWrite
<1> QED
  BY <1>2, <1>3

\* The bindings a settled pass has read.
LEMMA SettledFacts ==
  ASSUME IInv, Settled
  PROVE  /\ vpc.live /\ Busy
         /\ \A l \in Locations : PlanInv(l) /\ auth.bindings[l].uid = binding[l].uid
         /\ \A l \in Planned : /\ l \in Locations /\ auth.got[l].uid # 0
                               /\ auth.got[l].spec = Want(l) /\ auth.got[l].uid = binding[l].uid
<1>1. vpc.live /\ Busy /\ auth.pc = "apply" /\ \A l \in Locations : PlanInv(l)
  BY DEF Settled, Busy, IInv, AuthInv
<1>2. \A l \in Planned : l \in Locations /\ auth.got[l].uid # 0
  BY DEF Planned, PlannedLocations, Settled, Unchecked
<1> QED
  BY <1>1, <1>2 DEF PlanInv

LEMMA PersistRefsStep ==
  ASSUME IInv, PersistRefs
  PROVE  IInv'
<1>0. vpc \in VPCType /\ Apart /\ auth \in AuthType
  BY DEF IInv, Shapes, AuthInv
<1>1. Settled /\ vpc.live /\ EndPass /\ UNCHANGED <<subnet, binding, born, blocked, sites>>
  BY DEF PersistRefs, Settled
<1>2. CASE vpc' = vpc
  BY <1>1, <1>2, UnwrittenVPC
<1>3. CASE vpc' # vpc
  <2>1. vpc' = [vpc EXCEPT !.refs = Refs]
    BY <1>3 DEF PersistRefs, WriteVPC
  <2>2. \A l \in Locations : auth.got[l].uid \in Nat
    BY <1>0 DEF AuthType, BindingType
  <2>3. Refs \in [Locations -> Nat]
    BY <2>2 DEF Refs
  <2>4. /\ vpc' \in VPCType /\ vpc'.claims = vpc.claims /\ vpc'.live = vpc.live /\ vpc'.refs = Refs
    BY <1>0, <2>1, <2>3 DEF VPCType
  <2>5. \A l \in Locations : Refs[l] # 0 => Refs[l] = binding[l].uid
    BY <1>1, SettledFacts DEF Refs
  <2>6. \A l \in Locations : RefInv(l)'
    BY <1>1, <2>4, <2>5 DEF RefInv
  <2>7. Apart' /\ \A s \in Subnets : s \in vpc'.claims <=> s \in vpc.claims
    BY <1>0, <2>4 DEF Apart, Overlaps
  <2> QED
    BY <1>1, <2>4, <2>6, <2>7, VPCWrite
<1> QED
  BY <1>2, <1>3

\* A finalizer goes once the Subnet's own location has acknowledged that it is gone.
LEMMA RemoveFinalizerStep ==
  ASSUME IInv, NEW s \in Subnets, RemoveFinalizer(s)
  PROVE  IInv'
<1>0. subnet \in [Subnets -> SubnetType] /\ subnet[s] \in SubnetType
  BY DEF IInv, Shapes
<1>1. /\ Settled /\ vpc.live /\ EndPass /\ UNCHANGED <<vpc, binding, born, blocked, sites>>
      /\ s \in Released
  BY DEF RemoveFinalizer, Settled
<1>2. CASE subnet' = subnet
  BY <1>1, <1>2, UnwrittenVPC
<1>3. CASE subnet' # subnet
  <2>1. subnet' = [subnet EXCEPT ![s].fin = FALSE, ![s].state = "gone"]
    BY <1>3 DEF RemoveFinalizer
  <2>2. /\ subnet' \in [Subnets -> SubnetType] /\ \A t \in Subnets \ {s} : subnet'[t] = subnet[t]
        /\ subnet'[s].state = "gone" /\ ~subnet'[s].fin
    BY <1>0, <2>1 DEF SubnetType
  <2>3. PICK l \in Locations : LocationOf[s] = l
    BY LocationAssumption
  <2>4. s \in Bound /\ s \in Terminating /\ AllApplied
    BY <1>1 DEF Released
  <2>5. l \in Planned
    BY <2>3, <2>4 DEF Planned, PlannedLocations
  <2>6. auth.got[l].status.applied = {Want(l)}
    BY <1>1, <2>4, <2>5, SettledFacts DEF AllApplied, Applied
  <2>7. Off(s, Want(l))
    BY <2>3, <2>4, WantFacts
  <2>8. Acks(s, auth.got[l].status)
    BY <2>6, <2>7, OneApplied
  <2>9. ~Runs(s, l)
    BY <2>8 DEF IInv, LifeInv, Left
  <2>10. \A k \in Locations : ~Runs(s, k)
    BY <2>3, <2>9 DEF IInv, LifeInv
  <2>11. FinInv(s)' /\ (Ended(s) => Ended(s)')
    BY <2>2 DEF FinInv, Ended
  <2> QED
    BY <1>1, <2>2, <2>10, <2>11, SubnetWrite
<1> QED
  BY <1>2, <1>3

LEMMA ReleaseClaimsStep ==
  ASSUME IInv, ReleaseClaims
  PROVE  IInv'
<1>0. vpc \in VPCType /\ Apart
  BY DEF IInv, Shapes, AuthInv
<1>1. Settled /\ vpc.live /\ Busy /\ EndPass /\ UNCHANGED <<subnet, binding, born, blocked, sites>>
  BY DEF ReleaseClaims, Settled, Busy
<1>2. CASE vpc' = vpc
  BY <1>1, <1>2, UnwrittenVPC
<1>3. CASE vpc' # vpc
  <2>1. vpc' = [vpc EXCEPT !.claims = KeptClaims]
    BY <1>3 DEF ReleaseClaims, WriteVPC
  <2>2. KeptClaims \subseteq vpc.claims
    BY DEF KeptClaims
  <2>3. /\ vpc' \in VPCType /\ vpc'.claims = KeptClaims /\ vpc'.live = vpc.live /\ vpc'.refs = vpc.refs
    BY <1>0, <2>1, <2>2 DEF VPCType
  <2>4. ASSUME NEW s \in Subnets, s \in vpc.claims, s \notin vpc'.claims
        PROVE  subnet[s].state = "gone"
    <3>1. s \notin Present
      BY <2>3, <2>4 DEF KeptClaims
    <3>2. s \notin Finalized
      BY <3>1 DEF Finalized
    <3>3. ~auth.subnets[s].fin
      BY <1>1, <3>2, ListedFacts
    <3> QED
      BY <1>1, <2>4, <3>3 DEF IInv, AuthInv, ListedInv
  <2>5. Apart' /\ \A s \in Subnets : s \in vpc'.claims => s \in vpc.claims
    BY <1>0, <2>2, <2>3 DEF Apart, Overlaps
  <2>6. \A l \in Locations : RefInv(l)'
    BY <1>1, <2>3, FinFacts DEF RefInv
  <2> QED
    BY <1>1, <2>3, <2>4, <2>5, <2>6, VPCWrite
<1> QED
  BY <1>2, <1>3

\* A binding is deleted when its tombstone was acknowledged to the end.
LEMMA BindingGone ==
  ASSUME IInv, NEW l \in Locations, EndPass, UNCHANGED <<subnet, sites>>,
         vpc'.claims = vpc.claims, binding'[l] = NoBinding, born'[l] = born[l],
         binding[l].uid # 0, Buried(local[l].status), local[l].src = binding[l].uid
  PROVE  /\ AgeInv(l)' /\ \A s \in Subnets : LifeInv(s, l)'
<1>0. auth'.pc = "idle" /\ auth'.got[l] = NoBinding
  BY IdleObjects DEF EndPass
<1>1. AgeInv(l)'
  <2>1. AgeInv(l)
    BY DEF IInv
  <2>2. ~Buried(auth'.got[l].status) /\ ~Buried(binding'[l].status) /\ binding'[l].uid = 0
    BY <1>0, EmptyObjects, Empty
  <2>3. local[l].src = born[l]
    BY <2>1 DEF AgeInv
  <2> QED
    BY <2>1, <2>2, <2>3 DEF AgeInv, sites
<1>2. ASSUME NEW s \in Subnets PROVE LifeInv(s, l)'
  <2>1. LifeInv(s, l)
    BY DEF IInv
  <2>2. /\ ~Acks(s, auth'.got[l].status) /\ ~Acks(s, binding'[l].status)
        /\ ~On(s, binding'[l].spec) /\ ~Off(s, binding'[l].spec)
    BY <1>0, EmptyObjects, Empty
  <2>3. (Runs(s, l)' => Runs(s, l)) /\ (Leaves(s, l)' => Leaves(s, l)) /\ (Left(s, l)' => Left(s, l))
    BY <2>2 DEF Runs, Leaves, Left, sites
  <2>4. Ordered(s, l)'
    BY <2>1, <2>2 DEF LifeInv, Ordered, sites
  <2> QED
    BY <1>0, <2>1, <2>3, <2>4 DEF LifeInv, Busy, Ended
<1> QED
  BY <1>1, <1>2

LEMMA ForgetTombstoneStep ==
  ASSUME IInv, NEW l \in Locations, ForgetTombstone(l)
  PROVE  IInv'
<1>0. vpc \in VPCType /\ Apart /\ PlanInv(l) /\ AgeInv(l) /\ RefInv(l)
  BY FinFacts DEF IInv, Shapes, AuthInv
<1>1. /\ vpc.live /\ EndPass /\ UNCHANGED <<subnet, born, sites>>
      /\ auth.bindings[l].uid = binding[l].uid /\ auth.bindings[l].uid # 0
      /\ CleanedUp(auth.bindings[l])
  BY <1>0 DEF ForgetTombstone, Deciding, Finished, PlanInv
<1>2. vpc.refs[l] # 0 => vpc.refs[l] = auth.bindings[l].uid
  BY <1>0, <1>1 DEF RefInv
<1>3. UNCHANGED blocked
  BY <1>2 DEF ForgetTombstone
<1>4. CASE UNCHANGED <<vpc, binding>>
  BY <1>1, <1>3, <1>4, UnwrittenVPC
<1>5. CASE vpc.refs[l] # 0 /\ ~UNCHANGED <<vpc, binding>>
  <2>1. vpc' = [vpc EXCEPT !.refs[l] = 0] /\ UNCHANGED binding
    BY <1>2, <1>5 DEF ForgetTombstone, WriteVPC
  <2>2. /\ vpc' \in VPCType /\ vpc'.claims = vpc.claims /\ vpc'.live = vpc.live
        /\ vpc'.refs[l] = 0 /\ \A k \in Locations \ {l} : vpc'.refs[k] = vpc.refs[k]
    BY <1>0, <2>1 DEF VPCType
  <2>3. \A k \in Locations : RefInv(k)'
    BY <1>1, <2>1, <2>2, FinFacts DEF RefInv
  <2>4. Apart' /\ \A s \in Subnets : s \in vpc'.claims <=> s \in vpc.claims
    BY <1>0, <2>2 DEF Apart, Overlaps
  <2> QED
    BY <1>1, <1>3, <2>1, <2>2, <2>3, <2>4, VPCWrite
<1>6. CASE vpc.refs[l] = 0 /\ ~UNCHANGED <<vpc, binding>>
  <2>1. /\ UNCHANGED vpc /\ binding[l] = auth.bindings[l]
        /\ binding' = [binding EXCEPT ![l] = NoBinding]
    BY <1>6 DEF ForgetTombstone
  <2>2. /\ binding' \in [Locations -> BindingType] /\ binding'[l] = NoBinding
        /\ \A k \in Locations \ {l} : binding'[k] = binding[k] /\ born'[k] = born[k]
        /\ born' \in [Locations -> Nat]
    BY <1>1, <2>1, EmptyObjects DEF IInv, Shapes
  <2>3. Buried(binding[l].status)
    BY <1>1, <2>1, CleanedBuried
  <2>4. Buried(local[l].status) /\ local[l].src = binding[l].uid
    BY <1>0, <2>3 DEF AgeInv
  <2>5. AgeInv(l)' /\ \A s \in Subnets : LifeInv(s, l)'
    BY <1>1, <2>1, <2>2, <2>4, BindingGone
  <2>6. RefInv(l)' /\ binding'[l].spec.deleting \subseteq binding'[l].spec.subnets
    BY <1>6, <2>1, <2>2, EmptyObjects DEF RefInv, EmptySpec
  <2> QED
    BY <1>1, <1>3, <2>1, <2>2, <2>5, <2>6, BindingStep
<1> QED
  BY <1>4, <1>5, <1>6

\* A published spec never wants what was wanted gone before.
LEMMA PublishedLife ==
  ASSUME IInv, Busy, NEW l \in Locations, EndPass, UNCHANGED <<vpc, subnet, sites>>,
         binding'[l].spec = Want(l),
         binding'[l].status = binding[l].status \/ binding'[l].status = EmptyStatus,
         NEW s \in Subnets
  PROVE  LifeInv(s, l)'
<1>0. auth'.pc = "idle" /\ auth'.got[l] = NoBinding
  BY IdleObjects DEF EndPass
<1>1. LifeInv(s, l) /\ FinInv(s)
  BY FinFacts DEF IInv
<1>2. /\ ~Acks(s, auth'.got[l].status)
      /\ Acks(s, binding'[l].status) => Acks(s, binding[l].status)
  BY <1>0, EmptyObjects, Empty
<1>3. On(s, binding'[l].spec) => s \in Bound /\ s \notin Terminating /\ LocationOf[s] = l
  BY WantFacts
<1>4. Off(s, binding'[l].spec) => s \in Terminating
  BY WantFacts
<1>5. On(s, binding'[l].spec) => /\ s \in vpc.claims /\ LocationOf[s] = l /\ subnet[s].state # "gone"
                                 /\ ~ListedEnded(s)
  BY <1>1, <1>3, ListedFacts DEF FinInv, ListedEnded
<1>6. Off(s, binding'[l].spec) => Ended(s)
  BY <1>4, ListedFacts DEF Ended
<1>7. Runs(s, l)' => Runs(s, l) \/ On(s, binding'[l].spec)
  BY DEF Runs, sites
<1>8. Leaves(s, l)' => Leaves(s, l) \/ Off(s, binding'[l].spec)
  BY DEF Leaves, sites
<1>9. Left(s, l)' => Left(s, l)
  BY <1>2 DEF Left, sites
<1>10. Leaves(s, l) \/ Left(s, l) => ~On(s, binding'[l].spec)
  BY <1>1, <1>5 DEF LifeInv
<1>11. Ordered(s, l)'
  BY <1>1, <1>10 DEF LifeInv, Ordered, Leaves, sites
<1> QED
  BY <1>0, <1>1, <1>5, <1>6, <1>7, <1>8, <1>9, <1>10, <1>11 DEF LifeInv, Busy, Ended

LEMMA ApplyBindingStep ==
  ASSUME IInv, NEW l \in Locations, ApplyBinding(l)
  PROVE  IInv'
<1> DEFINE cur == binding[l]
<1>0. /\ cur \in BindingType /\ binding \in [Locations -> BindingType] /\ born \in [Locations -> Nat]
      /\ AgeInv(l) /\ PlanInv(l) /\ RefInv(l) /\ auth \in AuthType
  BY FinFacts DEF IInv, Shapes, AuthInv
<1>1. vpc.live /\ Busy /\ auth.pc = "apply" /\ UNCHANGED <<vpc, subnet, sites>>
  BY DEF ApplyBinding, Busy
<1>2. vpc.refs[l] # 0 => vpc.refs[l] = cur.uid
  BY <1>0, <1>1 DEF RefInv
<1>3. Want(l) \in SpecType /\ Want(l).deleting \subseteq Want(l).subnets
  BY WantFacts
<1>4. CASE cur.uid = 0
  <2>1. vpc.refs[l] = 0
    BY <1>2, <1>4
  <2>2. /\ born' = [born EXCEPT ![l] = @ + 1]
        /\ binding' = [binding EXCEPT ![l] = [uid |-> born'[l], spec |-> Want(l), status |-> EmptyStatus]]
        /\ EndPass /\ UNCHANGED blocked
    BY <1>4, <2>1 DEF ApplyBinding
  <2>3. born' \in [Locations -> Nat] /\ born'[l] = born[l] + 1 /\ born[l] \in Nat
        /\ \A k \in Locations \ {l} : born'[k] = born[k]
    BY <1>0, <2>2
  <2>4. [uid |-> born'[l], spec |-> Want(l), status |-> EmptyStatus] \in BindingType
    BY <1>3, <2>3, Empty DEF BindingType
  <2>5. /\ binding' \in [Locations -> BindingType] /\ binding'[l].uid = born'[l]
        /\ binding'[l].spec = Want(l) /\ binding'[l].status = EmptyStatus
        /\ \A k \in Locations \ {l} : binding'[k] = binding[k]
    BY <1>0, <2>2, <2>4
  <2>6. AgeInv(l)'
    <3>1. ~Buried(binding'[l].status) /\ ~Buried(auth'.got[l].status)
      BY <2>2, <2>5, IdleObjects, EmptyObjects, Empty DEF EndPass
    <3>2. local[l] \in LocalType /\ sync[l] \in SyncType
      BY DEF IInv, Shapes
    <3>3. local[l].src \in Nat /\ sync[l].remote.uid \in Nat
      BY <3>2 DEF LocalType, SyncType, BindingType
    <3> QED
      BY <1>0, <1>1, <2>3, <2>5, <3>1, <3>3 DEF AgeInv, sites
  <2>7. \A s \in Subnets : LifeInv(s, l)'
    BY <1>1, <2>2, <2>5, PublishedLife
  <2>8. RefInv(l)' /\ binding'[l].spec.deleting \subseteq binding'[l].spec.subnets
    BY <1>1, <1>3, <2>1, <2>5 DEF RefInv
  <2> QED
    BY <1>1, <2>2, <2>3, <2>5, <2>6, <2>7, <2>8, BindingStep
<1>5. CASE cur.uid # 0 /\ cur.spec # Want(l)
  <2>1. binding' = [binding EXCEPT ![l].spec = Want(l)] /\ EndPass /\ UNCHANGED <<born, blocked>>
    BY <1>2, <1>5 DEF ApplyBinding
  <2>2. /\ binding' \in [Locations -> BindingType] /\ binding'[l].uid = cur.uid
        /\ binding'[l].spec = Want(l) /\ binding'[l].status = cur.status
        /\ \A k \in Locations \ {l} : binding'[k] = binding[k]
    BY <1>0, <1>3, <2>1 DEF BindingType
  <2>3. AgeInv(l)'
    <3>1. ~Buried(auth'.got[l].status)
      BY <2>1, IdleObjects, EmptyObjects, Empty DEF EndPass
    <3> QED
      BY <1>0, <1>1, <2>1, <2>2, <3>1 DEF AgeInv, sites
  <2>4. \A s \in Subnets : LifeInv(s, l)'
    BY <1>1, <2>1, <2>2, PublishedLife
  <2>5. RefInv(l)' /\ binding'[l].spec.deleting \subseteq binding'[l].spec.subnets
    BY <1>0, <1>1, <1>3, <2>2 DEF RefInv
  <2>6. born' \in [Locations -> Nat] /\ \A k \in Locations \ {l} : binding'[k] = binding[k] /\ born'[k] = born[k]
    BY <1>0, <2>1, <2>2
  <2> QED
    BY <1>1, <2>1, <2>2, <2>3, <2>4, <2>5, <2>6, BindingStep
<1>6. CASE cur.uid # 0 /\ cur.spec = Want(l)
  <2>1. auth' = [auth EXCEPT !.got[l] = cur] /\ UNCHANGED <<binding, born, blocked>>
    BY <1>2, <1>6 DEF ApplyBinding
  <2>2. /\ auth' \in AuthType /\ auth'.pc = auth.pc /\ auth'.subnets = auth.subnets
        /\ auth'.bindings = auth.bindings /\ auth'.got[l] = cur
        /\ \A k \in Locations \ {l} : auth'.got[k] = auth.got[k]
    BY <1>0, <2>1 DEF AuthType
  <2>3. ASSUME NEW s \in Subnets PROVE ListedInv(s)'
    BY <1>1, <2>2 DEF IInv, AuthInv, ListedInv, Busy
  <2>4. ASSUME NEW k \in Locations PROVE PlanInv(k)'
    <3>1. PlanInv(k) /\ Want(k)' = Want(k)
      BY <1>1, <2>2, WantSame DEF IInv, AuthInv
    <3>2. CASE k = l
      BY <1>1, <1>6, <2>1, <2>2, <3>1, <3>2 DEF PlanInv
    <3>3. CASE k # l
      BY <1>1, <2>1, <2>2, <3>1, <3>3 DEF PlanInv
    <3> QED
      BY <3>2, <3>3
  <2>5. \A k \in Locations : \/ auth'.got[k].status = auth.got[k].status
                             \/ auth'.got[k].status = binding[k].status
    BY <2>2
  <2> QED
    BY <1>1, <2>1, <2>2, <2>3, <2>4, <2>5, ReadStep
<1> QED
  BY <1>4, <1>5, <1>6

LEMMA FinishPassStep ==
  ASSUME IInv, FinishPass
  PROVE  IInv'
<1>1. Settled /\ EndPass /\ UNCHANGED <<subnet, born, blocked, sites>>
  BY DEF FinishPass, Complete
<1>2. vpc.live /\ Busy
  BY <1>1, SettledFacts
<1>3. CASE ~Removable
  <2>1. UNCHANGED <<vpc, binding>>
    BY <1>3 DEF FinishPass
  <2> QED
    BY <1>1, <1>2, <2>1, UnwrittenVPC
<1>4. CASE Removable
  <2>1. /\ binding' = [l \in Locations |-> IF l \in Planned THEN NoBinding ELSE binding[l]]
        /\ vpc' = [vpc EXCEPT !.live = FALSE]
    BY <1>4 DEF FinishPass
  <2>2. /\ vpc' \in VPCType /\ vpc'.claims = vpc.claims /\ ~vpc'.live
    BY <2>1 DEF IInv, Shapes, VPCType
  <2>3. binding' \in [Locations -> BindingType]
    BY <2>1, EmptyObjects DEF IInv, Shapes
  <2>4. auth' \in AuthType /\ auth'.pc = "idle" /\ \A l \in Locations : auth'.got[l] = NoBinding
    BY <1>1, IdleObjects DEF EndPass
  <2>5. Shapes'
    BY <1>1, <2>2, <2>3, <2>4 DEF IInv, Shapes, sites
  <2>6. \A l \in Locations : binding'[l].uid = 0
    <3>1. \A l \in Locations : l \notin Planned => binding[l].uid = 0
      BY <1>1, SettledFacts DEF Planned, PlannedLocations
    <3> QED
      BY <2>1, <3>1, EmptyObjects
  <2>7. \A s \in Subnets : ~subnet[s].fin
    <3> SUFFICES ASSUME NEW s \in Subnets PROVE ~subnet[s].fin
      OBVIOUS
    <3>1. s \notin Present
      BY <1>4 DEF Removable
    <3>2. s \notin Finalized
      BY <3>1 DEF Finalized
    <3>3. ~auth.subnets[s].fin
      BY <1>2, <3>2, ListedFacts
    <3> QED
      BY <1>2, <3>3 DEF IInv, AuthInv, ListedInv
  <2>8. LiveInv'
    BY <1>1, <2>4, <2>6, <2>7 DEF LiveInv
  <2>9. (\A s \in Subnets : FinInv(s)') /\ (\A l \in Locations : RefInv(l)') /\ Apart'
    BY <1>1, <2>2, FinFacts DEF FinInv, RefInv, IInv, AuthInv, Apart, Overlaps
  <2>10. \A l \in Locations : binding'[l].spec.deleting \subseteq binding'[l].spec.subnets
    BY <2>1, EmptyObjects DEF IInv, Formed, EmptySpec
  <2>11. ASSUME NEW l \in Locations PROVE AgeInv(l)' /\ \A s \in Subnets : LifeInv(s, l)'
    <3>1. CASE l \in Planned
      <4>1. auth.got[l].uid # 0 /\ auth.got[l].uid = binding[l].uid
        BY <1>1, <3>1, SettledFacts
      <4>2. Tombstone(auth.got[l].spec) /\ Applied(auth.got[l])
        BY <1>4, <3>1 DEF Removable
      <4>3. Buried(auth.got[l].status)
        BY <4>2, OneApplied DEF Applied
      <4>4. local[l].src = binding[l].uid /\ Buried(local[l].status)
        BY <4>3 DEF IInv, AgeInv
      <4>5. binding'[l] = NoBinding /\ born'[l] = born[l] /\ UNCHANGED <<subnet, sites>>
        BY <1>1, <2>1, <3>1
      <4> QED
        BY <1>1, <2>2, <4>1, <4>4, <4>5, BindingGone
    <3>2. CASE l \notin Planned
      <4>1. binding'[l] = binding[l] /\ born'[l] = born[l]
        BY <1>1, <2>1, <3>2
      <4>2. AgeInv(l)'
        <5>1. ~Buried(auth'.got[l].status) /\ AgeInv(l)
          BY <2>4, EmptyObjects, Empty DEF IInv
        <5> QED
          BY <1>1, <4>1, <5>1 DEF AgeInv, sites
      <4>3. ASSUME NEW s \in Subnets PROVE LifeInv(s, l)'
        <5>1. LifeInv(s, l) /\ ~Acks(s, auth'.got[l].status)
          BY <2>4, EmptyObjects, Empty DEF IInv
        <5>2. /\ Runs(s, l)' => Runs(s, l)
              /\ Leaves(s, l)' => Leaves(s, l)
              /\ Left(s, l)' => Left(s, l)
          BY <1>1, <4>1, <5>1 DEF Runs, Leaves, Left, sites
        <5>3. Ordered(s, l)'
          BY <1>1, <4>1, <5>1 DEF LifeInv, Ordered, sites
        <5> QED
          BY <1>1, <2>2, <2>4, <5>1, <5>2, <5>3 DEF LifeInv, Busy, Ended
      <4> QED
        BY <4>2, <4>3
    <3> QED
      BY <3>1, <3>2
  <2> QED
    BY <1>1, <2>5, <2>8, <2>9, <2>10, <2>11, EndFrame
<1> QED
  BY <1>3, <1>4

-----------------------------------------------------------------------------
(* Every step.                                                             *)

LEMMA AuthoritySteps ==
  ASSUME IInv, Authority
  PROVE  IInv'
<1>1. CASE Decide
  BY <1>1, ForgetTombstoneStep, SubnetDecisions, PersistClaimsStep, PassReads DEF Decide
<1>2. CASE Publish
  BY <1>2, ApplyBindingStep, PersistRefsStep, RemoveFinalizerStep, ReleaseClaimsStep,
     FinishPassStep DEF Publish
<1> QED
  BY <1>1, <1>2, PassReads DEF Authority

LEMMA SiteSteps ==
  ASSUME IInv, NEW l \in Locations, Syncer(l) \/ Site(l) \/ LoseReceipt(l) \/ KubeOVN(l)
  PROVE  IInv'
<1>1. CASE Syncer(l)
  BY <1>1, SyncListStep, SyncApplyStep, SyncUploadStep DEF Syncer
<1>2. CASE Site(l)
  <2>1. CASE \E s \in Subnets : CreateNative(l, s) \/ DeleteNative(l, s) \/ DropReceipt(l, s)
    BY <2>1, NativeWrites, StatusWrites
  <2> QED
    BY <1>2, <2>1, SiteReadStep, StatusWrites, NativeWrites, AcknowledgeStep, RestSteps DEF Site
<1> QED
  BY <1>1, <1>2, RestSteps

LEMMA Unchanged ==
  ASSUME IInv, UNCHANGED vars
  PROVE  IInv'
<1>1. UNCHANGED <<vpc, subnet, binding, born, auth, sync, local, site, native, blocked>>
  BY DEF vars
<1>2. ASSUME NEW l \in Locations PROVE PlaceInv(l)'
  BY <1>1, PlaceSame, Places
<1>3. Shapes' /\ LiveInv'
  BY <1>1 DEF IInv, Shapes, LiveInv
<1>4. \A s \in Subnets : ListedInv(s)'
  BY <1>1 DEF IInv, AuthInv, ListedInv, Busy
<1>5. \A l \in Locations : PlanInv(l)'
  BY <1>1, WantSame DEF IInv, AuthInv, PlanInv
<1>6. AuthInv'
  BY <1>1, <1>4, <1>5 DEF IInv, AuthInv, Apart, NoFalseBlock
<1> QED
  BY <1>2, <1>3, <1>6 DEF IInv, PlaceInv

LEMMA NextStep ==
  ASSUME IInv, [Next]_vars
  PROVE  IInv'
<1>1. CASE UNCHANGED vars
  BY <1>1, Unchanged
<1>2. CASE Next
  BY <1>2, UsersStep, AuthoritySteps, SiteSteps DEF Next
<1> QED
  BY <1>1, <1>2

-----------------------------------------------------------------------------
(* The initial state.                                                      *)

\* Two sites that run have gateways.
LEMMA SteadyGateways ==
  ASSUME NEW l \in Locations, l \in Running, SteadyRoutes(l) # {}
  PROVE  Cardinality(Running) > 1
<1>1. PICK s \in Established : LocationOf[s] # l
  BY DEF SteadyRoutes, SteadySpec
<1> DEFINE m == LocationOf[s]
<1> DEFINE f == [t \in Established |-> LocationOf[t]]
<1>2. f \in Surjection(Established, Running)
  BY DEF Surjection, Running
<1>3. IsFiniteSet(Running)
  <2> HIDE DEF f
  <2> QED
    BY <1>2, FS_Surjection, SteadyAssumption
<1>4. m \in Running /\ m # l
  BY <1>1 DEF Running
<1> HIDE DEF m, f
<1>5. {l} \union {m} \in SUBSET Running
  BY <1>4
<1>6. IsFiniteSet({l}) /\ Cardinality({l}) = 1
  BY FS_Singleton
<1>7. Cardinality({l} \union {m}) = 2
  BY <1>4, <1>6, FS_AddElement
<1>8. Cardinality({l} \union {m}) <= Cardinality(Running) /\ Cardinality(Running) \in Nat
  BY <1>3, <1>5, FS_Subset, FS_CardinalityType
<1> QED
  BY <1>7, <1>8

\* What a running site starts with.
LEMMA SteadyFacts ==
  ASSUME NEW l \in Locations
  PROVE  /\ SteadySpec(l) \in SpecType /\ SteadyStatus(l) \in StatusType
         /\ SteadyRoutes(l) \in SUBSET CIDRs
         /\ SteadySpec(l).deleting = {}
         /\ SteadySpec(l).subnets = {s \in Established : LocationOf[s] = l}
         /\ l \in Running => ~Tombstone(SteadySpec(l)) /\ ~Buried(SteadyStatus(l))
         /\ \A s \in Subnets : /\ On(s, SteadySpec(l)) => s \in Established /\ LocationOf[s] = l
                               /\ ~Off(s, SteadySpec(l)) /\ ~Acks(s, SteadyStatus(l))
<1> DEFINE here == {s \in Established : LocationOf[s] = l}
<1> DEFINE remote == {<<LocationOf[s], CIDROf[s]>> : s \in Established \ here}
<1>1. Established \subseteq Subnets /\ \A s \in Established : LocationOf[s] \in Locations
  BY UserAssumption, LocationAssumption
<1>2. here \in SUBSET Subnets /\ remote \in SUBSET (Locations \X CIDRs) /\ Running \in SUBSET Locations
  BY <1>1 DEF CIDRs, Running
<1>3. SteadySpec(l) = [subnets |-> here, deleting |-> {}, remote |-> remote,
                       authorized |-> Running, peers |-> Running \ {l}]
  BY DEF SteadySpec
<1>4. l \in Running => here # {}
  BY DEF Running
<1>5. \A s \in here : s \in Established /\ LocationOf[s] = l
  OBVIOUS
<1>6. SteadySpec(l).subnets = {s \in Established : LocationOf[s] = l}
  BY <1>3
<1> HIDE DEF here, remote
<1>7. SteadySpec(l) \in SpecType
  BY <1>2, <1>3 DEF SpecType
<1>8. /\ SteadySpec(l).deleting = {} /\ SteadySpec(l).subnets = here
      /\ SteadySpec(l).remote = remote
  BY <1>3
<1>9. SteadyRoutes(l) \in SUBSET CIDRs
  BY <1>2, <1>8 DEF SteadyRoutes
<1>10. /\ SteadyStatus(l).applied = {SteadySpec(l)}
       /\ SteadyStatus(l) \in StatusType
  <2>1. SteadyStatus(l) = [applied |-> {SteadySpec(l)}, resources |-> here,
                           gateways |-> Cardinality(Running) > 1, deleted |-> FALSE]
    BY DEF SteadyStatus, here
  <2>2. (Cardinality(Running) > 1) \in BOOLEAN
    OBVIOUS
  <2> QED
    BY <1>2, <1>7, <2>1, <2>2 DEF StatusType
<1>11. l \in Running => ~Tombstone(SteadySpec(l)) /\ ~Buried(SteadyStatus(l))
  BY <1>4, <1>8, <1>10, OneApplied DEF Tombstone
<1>12. ASSUME NEW s \in Subnets
       PROVE  /\ On(s, SteadySpec(l)) => s \in Established /\ LocationOf[s] = l
              /\ ~Off(s, SteadySpec(l)) /\ ~Acks(s, SteadyStatus(l))
  BY <1>5, <1>8, <1>10, OneApplied DEF On, Off
<1> QED
  BY <1>6, <1>7, <1>8, <1>9, <1>10, <1>11, <1>12

LEMMA InitHolds ==
  ASSUME Init
  PROVE  IInv
<1>0. Established \in SUBSET Subnets
  BY UserAssumption
<1>1. /\ vpc.claims = Established /\ vpc.live /\ vpc \in VPCType
      /\ \A l \in Locations : vpc.refs[l] = IF l \in Running THEN 1 ELSE 0
  BY <1>0 DEF Init, VPCType
<1>2. /\ subnet \in [Subnets -> SubnetType]
      /\ \A s \in Subnets : IF s \in Established
                            THEN subnet[s].state = "active" /\ subnet[s].fin
                            ELSE subnet[s].state = "none" /\ ~subnet[s].fin
  BY DEF Init, NoSubnet, SubnetType
<1>3. /\ auth = AuthIdle /\ blocked = {}
      /\ \A l \in Locations : sync[l] = SyncIdle /\ site[l] = SiteIdle
      /\ sync \in [Locations -> SyncType] /\ site \in [Locations -> SiteType]
  BY IdleObjects DEF Init
<1>4. /\ born \in [Locations -> Nat]
      /\ \A l \in Locations : born[l] = IF l \in Running THEN 1 ELSE 0
  BY DEF Init
<1>5. /\ binding \in [Locations -> BindingType]
      /\ \A l \in Locations : IF l \in Running
            THEN binding[l].uid = 1 /\ binding[l].spec = SteadySpec(l)
                                    /\ binding[l].status = SteadyStatus(l)
            ELSE binding[l] = NoBinding
  <2>1. ASSUME NEW l \in Locations
        PROVE  [uid |-> 1, spec |-> SteadySpec(l), status |-> SteadyStatus(l)] \in BindingType
    BY SteadyFacts DEF BindingType
  <2>2. binding = [l \in Locations |->
          IF l \in Running THEN [uid |-> 1, spec |-> SteadySpec(l), status |-> SteadyStatus(l)]
                           ELSE NoBinding]
    BY DEF Init
  <2> QED
    BY <2>1, <2>2, EmptyObjects
<1>6. /\ local \in [Locations -> LocalType]
      /\ \A l \in Locations : IF l \in Running
            THEN local[l].src = 1 /\ local[l].spec = SteadySpec(l)
                                  /\ local[l].status = SteadyStatus(l)
            ELSE local[l] = NoLocal
  <2>1. ASSUME NEW l \in Locations
        PROVE  [src |-> 1, spec |-> SteadySpec(l), status |-> SteadyStatus(l)] \in LocalType
    BY SteadyFacts DEF LocalType
  <2>2. local = [l \in Locations |->
          IF l \in Running THEN [src |-> 1, spec |-> SteadySpec(l), status |-> SteadyStatus(l)]
                           ELSE NoLocal]
    BY DEF Init
  <2> QED
    BY <2>1, <2>2, EmptyObjects
<1>7. /\ native \in [Locations -> NativeType]
      /\ \A l \in Locations : IF l \in Running
            THEN /\ native[l].subnets = SteadySpec(l).subnets
                 /\ native[l].routes = SteadyRoutes(l) /\ native[l].installed = SteadyRoutes(l)
            ELSE native[l] = NoNative
  <2>1. ASSUME NEW l \in Locations
        PROVE  [subnets |-> SteadySpec(l).subnets, routes |-> SteadyRoutes(l),
                installed |-> SteadyRoutes(l)] \in NativeType
    BY SteadyFacts DEF NativeType, SpecType
  <2>2. native = [l \in Locations |->
          IF l \in Running THEN [subnets |-> SteadySpec(l).subnets, routes |-> SteadyRoutes(l),
                                 installed |-> SteadyRoutes(l)]
                           ELSE NoNative]
    BY DEF Init
  <2> QED
    BY <2>1, <2>2, EmptyObjects
<1>8. Shapes /\ LiveInv
  BY <1>1, <1>2, <1>3, <1>4, <1>5, <1>6, <1>7, IdleObjects DEF Shapes, LiveInv
<1>9. AuthInv
  <2>1. Apart
    BY <1>1, SteadyAssumption DEF Apart
  <2>2. \A s \in Subnets : ListedInv(s)
    BY <1>1, <1>2, <1>3, IdleObjects DEF ListedInv, Busy
  <2>3. \A l \in Locations : PlanInv(l)
    BY <1>1, <1>3, <1>5, IdleObjects, EmptyObjects DEF PlanInv
  <2> QED
    BY <1>3, <2>1, <2>2, <2>3 DEF AuthInv, NoFalseBlock
<1>10. ASSUME NEW l \in Locations PROVE Formed(l) /\ SiteInv(l) /\ AgeInv(l)
  <2>1. /\ sync[l].pc = "idle" /\ sync[l].remote = NoBinding /\ site[l].pc = "idle"
        /\ site[l].seen = NoLocal /\ auth.got[l] = NoBinding
    BY <1>3, IdleObjects
  <2>2. EmptySpec.deleting \subseteq EmptySpec.subnets
    BY DEF EmptySpec
  <2>3. Formed(l)
    BY <1>5, <1>6, <2>1, <2>2, SteadyFacts, EmptyObjects DEF Formed
  <2>4. SiteInv(l)
    <3>1. CASE l \in Running
      <4>1. SteadyRoutes(l) # {} => local[l].status.gateways
        <5>1. SteadyStatus(l).gateways = (Cardinality(Running) > 1)
          BY DEF SteadyStatus
        <5>2. SteadyRoutes(l) # {} => Cardinality(Running) > 1
          BY <3>1, SteadyGateways
        <5> QED
          BY <1>6, <3>1, <5>1, <5>2
      <4> QED
        BY <1>6, <1>7, <2>1, <3>1, <4>1, SteadyFacts DEF SiteInv
    <3>2. CASE l \notin Running
      BY <1>6, <1>7, <2>1, <3>2, Empty, EmptyObjects DEF SiteInv
    <3> QED
      BY <3>1, <3>2
  <2>5. AgeInv(l)
    <3>1. CASE l \in Running
      BY <1>4, <1>5, <1>6, <2>1, <3>1, SteadyFacts, Empty, EmptyObjects DEF AgeInv
    <3>2. CASE l \notin Running
      BY <1>4, <1>5, <1>6, <1>7, <2>1, <3>2, Empty, EmptyObjects DEF AgeInv
    <3> QED
      BY <3>1, <3>2
  <2> QED
    BY <2>3, <2>4, <2>5
<1>11. ASSUME NEW s \in Subnets, NEW l \in Locations PROVE LifeInv(s, l)
  <2>1. /\ sync[l].remote = NoBinding /\ sync[l].status = EmptyStatus
        /\ site[l].seen = NoLocal /\ auth.got[l] = NoBinding
    BY <1>3, IdleObjects
  <2>2. /\ ~On(s, sync[l].remote.spec) /\ ~Off(s, sync[l].remote.spec)
        /\ ~On(s, site[l].seen.spec) /\ ~Off(s, site[l].seen.spec)
        /\ ~Acks(s, sync[l].remote.status) /\ ~Acks(s, sync[l].status)
        /\ ~Acks(s, site[l].seen.status) /\ ~Acks(s, auth.got[l].status)
    BY <2>1, Empty, EmptyObjects
  <2>3. /\ ~Off(s, binding[l].spec) /\ ~Off(s, local[l].spec)
        /\ ~Acks(s, binding[l].status) /\ ~Acks(s, local[l].status)
    BY <1>5, <1>6, SteadyFacts, Empty, EmptyObjects
  <2>4. On(s, binding[l].spec) \/ On(s, local[l].spec) \/ s \in native[l].subnets =>
            s \in Established /\ LocationOf[s] = l
    BY <1>5, <1>6, <1>7, SteadyFacts, Empty, EmptyObjects
  <2>5. ~Leaves(s, l) /\ ~Left(s, l) /\ Ordered(s, l)
    BY <2>2, <2>3 DEF Leaves, Left, Ordered
  <2>6. Runs(s, l) => s \in Established /\ LocationOf[s] = l
    BY <2>2, <2>4 DEF Runs
  <2> QED
    BY <1>1, <1>2, <2>5, <2>6 DEF LifeInv
<1> QED
  BY <1>8, <1>9, <1>10, <1>11 DEF IInv

-----------------------------------------------------------------------------
(* Theorems.                                                               *)

\* The inductive invariant of one VPC's authority and sites.
THEOREM Invariant == Spec => []IInv
<1>1. Init => IInv
  BY InitHolds
<1>2. IInv /\ [Next]_vars => IInv'
  BY NextStep
<1> QED
  BY <1>1, <1>2, PTL DEF Spec

\* Admission precedes realisation (platformcontroller/reconciler.go:153): whatever pass,
\* copy or receipt is stale, every native subnet at any site has a claim.
THEOREM Claimed == Spec => []NativeClaimed
<1>1. IInv => NativeClaimed
  <2> SUFFICES ASSUME IInv, NEW l \in Locations, NEW s \in native[l].subnets
               PROVE  s \in vpc.claims
    BY DEF NativeClaimed
  <2>1. s \in Subnets
    BY DEF IInv, Shapes, NativeType
  <2> QED
    BY <2>1 DEF IInv, LifeInv, Runs
<1> QED
  BY <1>1, Invariant, PTL

\* Two Subnets with overlapping prefixes are never both realised, at one site or at two,
\* however deletion, creation and stale snapshots interleave.
THEOREM Disjoint == Spec => []NoOverlap
<1>1. IInv /\ NativeClaimed => NoOverlap
  <2> SUFFICES ASSUME IInv, NativeClaimed, NEW l \in Locations, NEW m \in Locations,
                      NEW s \in native[l].subnets, NEW t \in native[m].subnets, s # t
               PROVE  ~Overlaps(s, t)
    BY DEF NoOverlap
  <2>1. s \in vpc.claims /\ t \in vpc.claims
    BY DEF NativeClaimed
  <2> QED
    BY <2>1 DEF IInv, AuthInv, Apart
<1> QED
  BY <1>1, Claimed, Invariant, PTL

\* Routes go before their gateways (localcontroller/reconciler.go:571, :639): a site never
\* has an installed route without registered gateways.
THEOREM Routed == Spec => []RoutesHaveGateways
<1>1. IInv => RoutesHaveGateways
  BY DEF IInv, SiteInv, RoutesHaveGateways
<1> QED
  BY <1>1, Invariant, PTL

\* The authority never finds its own binding missing or replaced, whatever it read before
\* (platformcontroller/reconciler.go:140, 239, 255).
THEOREM NeverBlocked == Spec => []NoFalseBlock
<1>1. IInv => NoFalseBlock
  BY DEF IInv, AuthInv
<1> QED
  BY <1>1, Invariant, PTL

\* The VPC object is released only when no site holds anything of it: no binding, no native
\* object, no finalizer.
THEOREM NothingLeft == Spec => []VPCGoneClean
<1>1. IInv => VPCGoneClean
  <2> SUFFICES ASSUME IInv, ~vpc.live
               PROVE  /\ \A l \in Locations : native[l] = NoNative /\ binding[l].uid = 0
                      /\ \A s \in Subnets : ~subnet[s].fin
    BY DEF VPCGoneClean
  <2>1. /\ \A l \in Locations : binding[l].uid = 0
        /\ \A s \in Subnets : ~subnet[s].fin
    BY DEF IInv, LiveInv
  <2>2. ASSUME NEW l \in Locations PROVE native[l] = NoNative
    BY <2>1 DEF IInv, AgeInv, SiteInv
  <2> QED
    BY <2>1, <2>2
<1> QED
  BY <1>1, Invariant, PTL
=============================================================================
