---------------------------- MODULE PlatformPlan ----------------------------
(***************************************************************************)
(* The pure planner of the platform authority, internal/platformplan, and  *)
(* the parts of a NetworkBinding it reads and writes.                      *)
(*                                                                         *)
(* Revision is the SHA-256 of the binding's spec, so the model uses the    *)
(* spec itself as its revision: two specs with equal content have equal    *)
(* revisions, also when one was published long before the other.           *)
(***************************************************************************)
EXTENDS Integers, FiniteSets

CONSTANTS
    Locations,   \* sites that can join the VPC
    Subnets,     \* public Subnet objects, one name per incarnation (UID)
    LocationOf,  \* Spec.LocationRef of each Subnet (immutable)
    CIDROf       \* Spec.CIDR of each Subnet (immutable)

ASSUME LocationAssumption == LocationOf \in [Subnets -> Locations]
ASSUME CIDRAssumption == DOMAIN CIDROf = Subnets

\* Prefixes of the model overlap when they are equal.
Overlaps(s, t) == CIDROf[s] = CIDROf[t]

\* A NetworkBinding spec: local subnets, which of them are terminating, the
\* remote prefixes, the locations with subnets, and the remote locations
\* whose gateways are registered.
EmptySpec == [subnets |-> {}, deleting |-> {}, remote |-> {},
              authorized |-> {}, peers |-> {}]

\* Spec.Deleting: the location has no subnet left.
Tombstone(spec) == spec.subnets = {}

\* A NetworkBinding status.  applied holds the acknowledged revision, if any.
EmptyStatus == [applied |-> {}, resources |-> {}, gateways |-> FALSE,
                deleted |-> FALSE]

Applied(b) == b.status.applied = {b.spec}

\* resourceAbsent: no receipt of the subnet's native object.
ResourceAbsent(b, s) == s \notin b.status.resources

\* Mutant: trusts the receipts of a location that acknowledged nothing.
WithdrawnUnacknowledged(existing, l, s) ==
    existing[l].uid # 0 /\ ResourceAbsent(existing[l], s)

\* The location acknowledged its current spec and the subnet's native object
\* is gone there.
Withdrawn(existing, l, s) ==
    existing[l].uid # 0 /\ Applied(existing[l]) /\ ResourceAbsent(existing[l], s)

\* Every acknowledgement and receipt of a tombstone is complete.
CleanedUp(b) ==
    /\ Tombstone(b.spec)
    /\ b.status.deleted
    /\ Applied(b)
    /\ b.status.resources = {}
    /\ ~b.status.gateways

\* The locations a plan covers: those with a binding or with a subnet.
PlannedLocations(bound, existing) ==
    {l \in Locations : existing[l].uid # 0 \/ \E s \in bound : LocationOf[s] = l}

\* The subnets of location l that are terminating.
Draining(l, bound, terminating) == {s \in bound \intersect terminating : LocationOf[s] = l}

\* Build: the spec of location l, from the accepted subnets, the terminating
\* ones among them, and the bindings that exist.  A terminating subnet stays
\* until its object is gone; its prefix is exported until it is withdrawn.
Build(l, bound, terminating, existing) ==
    LET at(k) == {s \in bound : LocationOf[s] = k}
        exported == {s \in bound \ at(l) :
            ~(s \in terminating /\ Withdrawn(existing, LocationOf[s], s))}
    IN  [subnets |-> at(l),
         deleting |-> Draining(l, bound, terminating),
         remote |-> {<<LocationOf[s], CIDROf[s]>> : s \in exported},
         authorized |-> {LocationOf[s] : s \in bound},
         peers |-> {k \in Locations \ {l} : /\ existing[k].uid # 0
                                            /\ existing[k].status.gateways
                                            /\ at(k) # {}}]
=============================================================================
