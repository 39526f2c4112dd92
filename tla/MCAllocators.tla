---------------------------- MODULE MCAllocators ----------------------------
(***************************************************************************)
(* The two allocators of the managed VPC path for TLC, racing and retrying *)
(* from nothing: a site's addresses and the platform's network IDs.  They  *)
(* share no state, so a behaviour exercises one of them, the part.         *)
(***************************************************************************)
EXTENDS LocalAllocation, TLC

CONSTANTS p1, p2, n1, n2,    \* processes, binding names
          k1, k2, h1, h2     \* keys, shards

VARIABLES part,
    seq, anchor, shards, at, req, seen, result, failure, issued, answers, harm, gone, cut, lost

\* Two keys in shards of their own, always asked for together; one call is cut off.
N == INSTANCE NetworkIDRegistry WITH
        Keys <- {k1, k2}, Shards <- {h1, h2}, ShardOf <- (k1 :> h1) @@ (k2 :> h2),
        Requests <- {{k1, k2}}, MaxID <- 12, ShardCapacity <- 1, MaxAborts <- 1, MaxDamage <- 0,
        pc <- at, view <- seen, err <- failure, damage <- harm, aborts <- cut, losses <- lost

idVars == <<seq, anchor, shards, at, req, seen, result, failure, issued, answers,
            harm, gone, cut, lost>>
allVars == <<part, vars, idVars>>

OfAddresses(step) == part = "addresses" /\ step /\ UNCHANGED <<part, idVars>>
OfIDs(step) == part = "ids" /\ step /\ UNCHANGED <<part, vars>>

AllInit == part \in {"addresses", "ids"} /\ Init /\ N!Init
AllNext == OfAddresses(Next) \/ OfIDs(N!Next)

\* A process goes on with its call, a failed call is retried (controller-runtime
\* requeues on error), and the work queue hands out every binding
\* again and again; the syncer creates the bindings it finds missing.
AllSpec ==
    /\ AllInit /\ [][AllNext]_allVars
    /\ \A p \in Procs : /\ WF_allVars(OfIDs(N!Step(p)))
                        /\ WF_allVars(OfAddresses(Step(p)))
                        /\ \A n \in Names : SF_allVars(OfAddresses(Begin(p, n)))
    /\ \A n \in Names : WF_allVars(OfAddresses(CreateBinding(n)))

(***************************************************************************)
(* allocate: unless a pool runs out, every binding ends up with a receipt: *)
(* no call that fails between ledger, identity and receipt wedges the site.*)
(***************************************************************************)
EventuallyAllocated == <>[](part = "addresses" => Allocated)

(***************************************************************************)
(* networkIDs: every key is claimed for good: no lost response, crash or   *)
(* lost race during the bootstrap of sequence, anchor and shards wedges    *)
(* the registry.                                                           *)
(***************************************************************************)
IDsComplete == <>[](part = "ids" => N!AllClaimed)
=============================================================================
