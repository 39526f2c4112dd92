------------------------- MODULE NetworkIDRegistry -------------------------
(***************************************************************************)
(* The platform authority's network ID registry, Reconciler.networkIDs in  *)
(* internal/platformcontroller/networkid.go.                               *)
(*                                                                         *)
(* One monotonic sequence, one immutable identity anchor that names the    *)
(* sequence's UID, and one claim ConfigMap per shard live in the           *)
(* Kubernetes API.  networkIDs is a series of API calls; between any two   *)
(* of them another allocator (a deposed leader that has not noticed, or    *)
(* its successor) may run, the process may die, or an administrator may    *)
(* destroy an object.                                                      *)
(*                                                                         *)
(* Updates are optimistic: they carry the resourceVersion that was read.   *)
(* Every write in this code changes what it writes (the sequence grows, a  *)
(* shard gains a key), so within one incarnation (UID) of an object equal  *)
(* content is equal resourceVersion, and the model compares UID + content. *)
(***************************************************************************)
EXTENDS Integers, FiniteSets

CONSTANTS
    Procs,          \* allocators that may overlap (old and new leader)
    Keys,           \* "vpc/...", "asn/...", "link/..." claim keys
    Shards,         \* claim ConfigMaps, two hex digits in the code
    ShardOf,        \* networkIDShard: the shard of each key
    Requests,       \* the key sets networkIDs is called with
    MaxID,          \* maxNetworkID, 16777215 in the code
    ShardCapacity,  \* how many claims fit in one ConfigMap
    MaxAborts,      \* bound: crashes, failed calls and lost responses
    MaxDamage       \* bound: objects destroyed from outside

ASSUME ShardAssumption == ShardOf \in [Keys -> Shards]
ASSUME RequestAssumption ==
    /\ Requests \subseteq SUBSET Keys
    /\ \A K \in Requests : IsFiniteSet(K)
ASSUME BoundAssumption ==
    /\ MaxID \in Nat \ {0}
    /\ ShardCapacity \in Nat
    /\ MaxAborts \in Nat
    /\ MaxDamage \in Nat

VARIABLES
    seq,      \* network-id-sequence: [uid, next]; next = 0 when absent
    anchor,   \* network-id-sequence-anchor: the UID it names, 0 when absent
    shards,   \* claim ConfigMaps: [live, uid, ids]; ids[k] = 0 is no claim
    pc,       \* where each allocator is in networkIDs
    req,      \* the keys it was called with
    view,     \* the objects as it last read or wrote them
    result,   \* the IDs it assigned to its missing keys
    err,      \* the error its last call returned
    issued,   \* history: IDs ever assigned to each key by a reservation
    answers,  \* history: IDs ever returned to a caller for each key
    damage,   \* history: which of sequence and anchor were destroyed
    gone,     \* history: which claim shards were destroyed
    aborts,   \* how many aborts happened
    losses    \* how many objects were destroyed

registry == <<seq, anchor, shards>>
local == <<pc, req, view, result, err>>
history == <<issued, answers, damage, gone, aborts, losses>>
vars == <<seq, anchor, shards, pc, req, view, result, err,
          issued, answers, damage, gone, aborts, losses>>

Sequence == "sequence"
Anchor == "anchor"
IDs == 1..MaxID

KeysOf(s) == {k \in Keys : ShardOf[k] = s}

NoClaims == [k \in Keys |-> 0]
NoShards == [live |-> {}, uid |-> [s \in Shards |-> 0], ids |-> NoClaims]
NoSequence == [uid |-> 0, next |-> 0]
NoView == [seq |-> NoSequence, anchor |-> 0, shards |-> NoShards]

Init ==
    /\ seq = NoSequence
    /\ anchor = 0
    /\ shards = NoShards
    /\ pc = [p \in Procs |-> "idle"]
    /\ req = [p \in Procs |-> {}]
    /\ view = [p \in Procs |-> NoView]
    /\ result = [p \in Procs |-> NoClaims]
    /\ err = [p \in Procs |-> "none"]
    /\ issued = [k \in Keys |-> {}]
    /\ answers = [k \in Keys |-> {}]
    /\ damage = {}
    /\ gone = {}
    /\ aborts = 0
    /\ losses = 0

-----------------------------------------------------------------------------
(* What an allocator computes from the objects it has read.                *)

\* The retained claims the scan saw; highest of the code is their maximum.
Claimed(p) == {view[p].shards.ids[k] : k \in Keys} \ {0}

\* The scan's integrity check: every retained ID is in range and unique.
ValidClaims(ids) ==
    \A k \in Keys : ids[k] # 0 =>
        /\ ids[k] <= MaxID
        /\ \A l \in Keys \ {k} : ids[l] # ids[k]

\* The requested keys with no claim in what the allocator has seen.
Missing(p) == {k \in req[p] : view[p].shards.ids[k] = 0}

ReqShards(p) == {ShardOf[k] : k \in req[p]}

\* The shards of the request that the scan did not find.
AbsentShards(p) == ReqShards(p) \ view[p].shards.live

\* The shards still to be written with the reserved IDs.
Unpublished(p) == {ShardOf[k] : k \in Missing(p)}

\* Mutants: an update conditional on the object's identity only.
SequenceSameUID(p) == seq.uid = view[p].seq.uid /\ seq.next # 0
ShardSameUID(p, s) ==
    /\ s \in shards.live
    /\ shards.uid[s] = view[p].shards.uid[s]

\* Neither the sequence nor the shard changed since it was read.
SequenceUnchanged(p) == seq = view[p].seq
ShardUnchanged(p, s) ==
    /\ s \in shards.live
    /\ shards.uid[s] = view[p].shards.uid[s]
    /\ \A k \in KeysOf(s) : shards.ids[k] = view[p].shards.ids[k]

-----------------------------------------------------------------------------
(* How a call ends.                                                        *)

\* Forget everything the call read; the next call starts from the API again.
Leave(p, why) ==
    /\ pc' = [pc EXCEPT ![p] = "idle"]
    /\ req' = [req EXCEPT ![p] = {}]
    /\ view' = [view EXCEPT ![p] = NoView]
    /\ result' = [result EXCEPT ![p] = NoClaims]
    /\ err' = [err EXCEPT ![p] = why]

Fail(p, why) == Leave(p, why) /\ UNCHANGED <<registry, history>>

Goto(p, label) ==
    /\ pc' = [pc EXCEPT ![p] = label]
    /\ UNCHANGED <<req, result, err>>

-----------------------------------------------------------------------------
(* networkIDs, one action per API call or check.                           *)

\* List every ConfigMap: one consistent snapshot of all claim shards.
Scan(p, K) ==
    /\ pc[p] = "idle"
    /\ IF ValidClaims(shards.ids)
       THEN /\ pc' = [pc EXCEPT ![p] = "anchor"]
            /\ req' = [req EXCEPT ![p] = K]
            /\ view' = [view EXCEPT ![p].shards = shards]
            /\ err' = [err EXCEPT ![p] = "none"]
            /\ UNCHANGED <<result, registry, history>>
       ELSE Fail(p, "invalidClaims")

ReadAnchor(p) ==
    /\ pc[p] = "anchor"
    /\ view' = [view EXCEPT ![p].anchor = anchor]
    /\ Goto(p, "sequence")
    /\ UNCHANGED <<registry, history>>

\* The sequence is read after the scan; a missing one is created only when
\* nothing retained says that it existed before.
ReadSequence(p) ==
    /\ pc[p] = "sequence"
    /\ \/ /\ seq.next # 0
          /\ view' = [view EXCEPT ![p].seq = seq]
          /\ Goto(p, "check")
          /\ UNCHANGED <<registry, history>>
       \/ /\ seq.next = 0
          /\ IF view[p].anchor # 0 \/ Claimed(p) # {}
             THEN Fail(p, "missingSequence")
             ELSE /\ Goto(p, "createSequence")
                  /\ UNCHANGED <<view, registry, history>>

CreateSequence(p) ==
    /\ pc[p] = "createSequence"
    /\ IF seq.next # 0
       THEN Fail(p, "conflict")
       ELSE /\ seq' = [uid |-> seq.uid + 1, next |-> 1]
            /\ view' = [view EXCEPT ![p].seq = seq']
            /\ Goto(p, "check")
            /\ UNCHANGED <<anchor, shards, history>>

\* Mutant: the regression check compares with one ID too many.
StrictDiagnosis(p) ==
    IF \E i \in Claimed(p) : view[p].seq.next <= i + 1 THEN "regressed" ELSE "none"

\* Mutant: a sequence without an anchor is never adopted, not even a fresh one.
AnchoredOnlyDiagnosis(p) ==
    IF view[p].anchor = 0 THEN "unanchored" ELSE "none"

\* Regression and identity checks on what was read; "none" when all pass.
Diagnosis(p) ==
    LET next == view[p].seq.next
        fresh == next = 1 /\ Claimed(p) = {}
    IN  IF next > MaxID + 1 THEN "invalidSequence"
        ELSE IF \E i \in Claimed(p) : next <= i THEN "regressed"
        ELSE IF view[p].anchor = 0 /\ ~fresh THEN "unanchored"
        ELSE IF view[p].anchor \notin {0, view[p].seq.uid} THEN "identityChanged"
        ELSE "none"

\* Only an unused sequence may acquire an anchor.
CheckSequence(p) ==
    /\ pc[p] = "check"
    /\ IF Diagnosis(p) # "none"
       THEN Fail(p, Diagnosis(p))
       ELSE /\ Goto(p, IF view[p].anchor = 0 THEN "createAnchor" ELSE "allocate")
            /\ UNCHANGED <<view, registry, history>>

CreateAnchor(p) ==
    /\ pc[p] = "createAnchor"
    /\ IF anchor # 0
       THEN Fail(p, "conflict")
       ELSE /\ anchor' = view[p].seq.uid
            /\ view' = [view EXCEPT ![p].anchor = anchor']
            /\ Goto(p, "allocate")
            /\ UNCHANGED <<seq, shards, history>>

\* Mutant: the exhaustion check counts one ID past the end.
AllocateOnePastEnd(p) ==
    /\ pc[p] = "allocate"
    /\ IF Missing(p) = {}
       THEN Goto(p, "return") /\ UNCHANGED <<view, registry, history>>
       ELSE IF view[p].seq.next + Cardinality(Missing(p)) > MaxID + 2
       THEN Fail(p, "exhausted")
       ELSE Goto(p, "reserve") /\ UNCHANGED <<view, registry, history>>

\* Split the request into retained and missing keys; nothing missing returns
\* at once, too few IDs left is exhaustion.
Allocate(p) ==
    /\ pc[p] = "allocate"
    /\ IF Missing(p) = {}
       THEN Goto(p, "return") /\ UNCHANGED <<view, registry, history>>
       ELSE IF view[p].seq.next + Cardinality(Missing(p)) > MaxID + 1
       THEN Fail(p, "exhausted")
       ELSE Goto(p, "reserve") /\ UNCHANGED <<view, registry, history>>

\* The claim shards with a new, empty incarnation of s.
WithShard(objs, s, uid) ==
    [live |-> objs.live \union {s},
     uid |-> [objs.uid EXCEPT ![s] = uid],
     ids |-> objs.ids]

\* Create one absent claim shard, empty.
CreateShard(p, s) ==
    /\ pc[p] = "reserve"
    /\ s \in AbsentShards(p)
    /\ IF s \in shards.live
       THEN Fail(p, "conflict")
       ELSE /\ shards' = WithShard(shards, s, shards.uid[s] + 1)
            /\ view' = [view EXCEPT ![p].shards =
                           WithShard(@, s, shards.uid[s] + 1)]
            /\ Goto(p, "reserve")
            /\ UNCHANGED <<seq, anchor, history>>

\* The assignments of the reserved block to the missing keys.  The code hands
\* the IDs out in key order; which key gets which is not told apart here.
Assignments(p) ==
    LET n == Cardinality(Missing(p))
        next == view[p].seq.next
    IN  {f \in [Missing(p) -> next..(next + n - 1)] :
            \A k, l \in Missing(p) : f[k] = f[l] => k = l}

\* Reserve a block of IDs with one conditional update of the sequence.
Reserve(p) ==
    /\ pc[p] = "reserve"
    /\ AbsentShards(p) = {}
    /\ IF ~SequenceUnchanged(p)
       THEN Fail(p, "conflict")
       ELSE \E f \in Assignments(p) :
            /\ seq' = [seq EXCEPT !.next = @ + Cardinality(Missing(p))]
            /\ result' = [result EXCEPT ![p] =
                             [k \in Keys |-> IF k \in Missing(p) THEN f[k] ELSE 0]]
            /\ issued' = [k \in Keys |->
                             IF k \in Missing(p) THEN issued[k] \union {f[k]}
                                                 ELSE issued[k]]
            /\ pc' = [pc EXCEPT ![p] = "publish"]
            /\ UNCHANGED <<anchor, shards, req, view, err,
                           answers, damage, gone, aborts, losses>>

\* The claim shards after the allocator adds its reserved IDs to shard s.
WithResult(objs, p, s) ==
    [live |-> objs.live,
     uid |-> objs.uid,
     ids |-> [k \in Keys |-> IF ShardOf[k] = s /\ k \in Missing(p)
                             THEN result[p][k] ELSE objs.ids[k]]]

FitsShard(p, s) ==
    Cardinality({k \in KeysOf(s) : view[p].shards.ids[k] # 0 \/ k \in Missing(p)})
        <= ShardCapacity

\* Persist the claims of one shard with a conditional update.
Publish(p, s) ==
    /\ pc[p] = "publish"
    /\ s \in Unpublished(p)
    /\ IF ~FitsShard(p, s) THEN Fail(p, "capacity")
       ELSE IF ~ShardUnchanged(p, s) THEN Fail(p, "conflict")
       ELSE /\ shards' = WithResult(shards, p, s)
            /\ view' = [view EXCEPT ![p].shards = WithResult(@, p, s)]
            /\ Goto(p, "publish")
            /\ UNCHANGED <<seq, anchor, history>>

\* Every requested key now has a retained claim: hand the IDs to the caller.
Return(p) ==
    /\ \/ pc[p] = "return"
       \/ pc[p] = "publish" /\ Unpublished(p) = {}
    /\ answers' = [k \in Keys |->
                     IF k \in req[p] THEN answers[k] \union {view[p].shards.ids[k]}
                                     ELSE answers[k]]
    /\ Leave(p, "none")
    /\ UNCHANGED <<registry, issued, damage, gone, aborts, losses>>

-----------------------------------------------------------------------------
(* The environment.                                                        *)

\* A crash, an API error, or a committed write whose response is lost (the
\* write's own action followed by this one): all local state is gone.
Abort(p) ==
    /\ pc[p] # "idle"
    /\ aborts < MaxAborts
    /\ aborts' = aborts + 1
    /\ Leave(p, "aborted")
    /\ UNCHANGED <<registry, issued, answers, damage, gone, losses>>

\* Objects are destroyed from outside (an administrator, a bad restore).  The
\* registry's two witnesses, sequence and anchor, are never both destroyed.
LoseSequence ==
    /\ losses < MaxDamage
    /\ seq.next # 0
    /\ Anchor \notin damage
    /\ seq' = [seq EXCEPT !.next = 0]
    /\ damage' = damage \union {Sequence}
    /\ losses' = losses + 1
    /\ UNCHANGED <<anchor, shards, local, issued, answers, gone, aborts>>

LoseAnchor ==
    /\ losses < MaxDamage
    /\ anchor # 0
    /\ Sequence \notin damage
    /\ anchor' = 0
    /\ damage' = damage \union {Anchor}
    /\ losses' = losses + 1
    /\ UNCHANGED <<seq, shards, local, issued, answers, gone, aborts>>

LoseShard(s) ==
    /\ losses < MaxDamage
    /\ s \in shards.live
    /\ shards' = [live |-> shards.live \ {s},
                  uid |-> shards.uid,
                  ids |-> [k \in Keys |-> IF ShardOf[k] = s THEN 0
                                                           ELSE shards.ids[k]]]
    /\ gone' = gone \union {s}
    /\ losses' = losses + 1
    /\ UNCHANGED <<seq, anchor, local, issued, answers, damage, aborts>>

-----------------------------------------------------------------------------

Step(p) ==
    \/ \E K \in Requests : Scan(p, K)
    \/ ReadAnchor(p)
    \/ ReadSequence(p)
    \/ CreateSequence(p)
    \/ CheckSequence(p)
    \/ CreateAnchor(p)
    \/ Allocate(p)
    \/ \E s \in Shards : CreateShard(p, s)
    \/ Reserve(p)
    \/ \E s \in Shards : Publish(p, s)
    \/ Return(p)

Environment ==
    \/ \E p \in Procs : Abort(p)
    \/ LoseSequence
    \/ LoseAnchor
    \/ \E s \in Shards : LoseShard(s)

Next == (\E p \in Procs : Step(p)) \/ Environment

Spec == Init /\ [][Next]_vars

-----------------------------------------------------------------------------
(* Properties.                                                             *)

Labels == {"idle", "anchor", "sequence", "createSequence", "check",
           "createAnchor", "allocate", "reserve", "publish", "return"}
Errors == {"none", "aborted", "conflict", "exhausted", "capacity",
           "invalidClaims", "invalidSequence", "missingSequence",
           "regressed", "unanchored", "identityChanged"}

SequenceType == [uid : Nat, next : 0..(MaxID + 1)]
ShardsType == [live : SUBSET Shards, uid : [Shards -> Nat], ids : [Keys -> Nat]]

\* Type invariant: the shape of the registry objects, of what each allocator
\* holds, and of the histories.
TypeOK ==
    /\ seq \in SequenceType
    /\ anchor \in Nat
    /\ shards \in ShardsType
    /\ pc \in [Procs -> Labels]
    /\ req \in [Procs -> Requests \union {{}}]
    /\ view \in [Procs -> [seq : SequenceType, anchor : Nat, shards : ShardsType]]
    /\ result \in [Procs -> [Keys -> Nat]]
    /\ err \in [Procs -> Errors]
    /\ issued \in [Keys -> SUBSET Nat]
    /\ answers \in [Keys -> SUBSET Nat]
    /\ damage \subseteq {Sequence, Anchor}
    /\ gone \subseteq Shards
    /\ aborts \in Nat
    /\ losses \in Nat

\* Every ID a key was ever known by: returned to a caller or persisted.
KnownAs(k) == (answers[k] \union {shards.ids[k]}) \ {0}

\* "A VPC or native tunnel identifier is never reused after deletion"
\* (networkid.go:21): no ID is ever known for two keys, whatever allocators
\* overlap, calls are lost and shards, sequence or anchor are destroyed.
NoIDReuse ==
    \A k, l \in Keys : k # l => KnownAs(k) \intersect KnownAs(l) = {}

\* Two callers that ask for a key get the same ID as long as the key's shard
\* was not destroyed: overlapping allocators cannot both publish it.
StableAnswers ==
    \A k \in Keys : ShardOf[k] \notin gone =>
        \A i \in answers[k] : shards.ids[k] = i

\* Every ID handed out fits the 24-bit VNI space, also when several
\* allocators reach the end of the sequence together.
InRange == \A k \in Keys : answers[k] \subseteq IDs

\* A registry nobody damaged is never diagnosed as rolled back, replaced or
\* missing: the sequence is read after the scan on purpose (networkid.go:106).
\* The transient "unanchored" of a bootstrap race is not among these.
NoFalseAlarm ==
    (damage = {} /\ gone = {}) =>
        \A p \in Procs : err[p] \notin {"invalidClaims", "invalidSequence",
            "missingSequence", "regressed", "identityChanged"}

\* A retained claim never changes or disappears by the allocators' own steps;
\* only the loss of its shard removes it.
ClaimsRetained ==
    [][\A k \in Keys : shards.ids[k] # 0 /\ ShardOf[k] \notin gone' =>
            shards'.ids[k] = shards.ids[k]]_vars

\* What the registry promises, with reservations for draws and shards for claims.
Promise == INSTANCE NetworkIDs WITH
    drawn <- issued, claim <- shards.ids, told <- answers,
    lost <- {k \in Keys : ShardOf[k] \in gone}

\* networkIDs implements its promise: every call, crash, conflict and loss is a
\* step of the abstract directory or no step of it.
Implements == Promise!Spec

\* Every key has its claim.
AllClaimed == \A k \in Keys : shards.ids[k] # 0
=============================================================================
