-------------------------- MODULE LocalAllocation --------------------------
(***************************************************************************)
(* The address allocator of a site, allocate in                            *)
(* internal/localcontroller/allocation.go.                                 *)
(*                                                                         *)
(* A ledger ConfigMap retains every reservation (a transit prefix and a    *)
(* BFD source address per source binding), an immutable identity           *)
(* ConfigMap names the ledger's UID, and each local NetworkBinding carries *)
(* a receipt of its own reservation.  allocate is a series of API calls;   *)
(* between any two of them another process of the site may run, the        *)
(* process may die, the syncer may replace a binding, or an administrator  *)
(* may destroy an object.                                                  *)
(*                                                                         *)
(* Updates are conditional on the resourceVersion that was read.  A ledger *)
(* only grows and a binding only gains a receipt and evidence, so within   *)
(* one incarnation equal content is equal resourceVersion.                 *)
(***************************************************************************)
EXTENDS Integers, FiniteSets

CONSTANTS
    Procs,       \* site processes that may overlap (old and new leader)
    Names,       \* binding names, one per VPC
    Transits,    \* transit prefixes of the pool, by index
    Sources,     \* BFD source addresses of the pool, by index
    MaxReplaced, \* bound: authority incarnations after the first, per name
    MaxAborts,   \* bound: crashes, failed calls and lost responses
    MaxDamage    \* bound: objects destroyed from outside

ASSUME PoolAssumption == Transits \subseteq Nat /\ Sources \subseteq Nat
ASSUME LimitAssumption ==
    MaxReplaced \in Nat /\ MaxAborts \in Nat /\ MaxDamage \in Nat

VARIABLES
    ledger,    \* managed-network-allocations: [live, uid, entries]
    identity,  \* managed-network-allocation-identity: ledger UID, 0 absent
    binding,   \* local bindings: [uid, owner, receipt, realised], uid 0 absent
    made,      \* how many incarnations each local binding has had
    source,    \* UID of the authority's binding of each name
    pc,        \* where each process is in allocate
    view,      \* what it read: [name, own, list, identity, ledger]
    err,       \* the error its last call returned
    reserved,  \* history: every reservation ever written to a ledger
    exposed,   \* history: every reservation returned to the reconciler
    damage,    \* history: which kinds of objects were destroyed
    aborts,    \* how many aborts happened
    losses     \* how many objects were destroyed

stored == <<ledger, identity, binding, made, source>>
history == <<reserved, exposed, damage, aborts, losses>>
vars == <<ledger, identity, binding, made, source, pc, view, err,
          reserved, exposed, damage, aborts, losses>>

\* A reservation: who (source UID and local UID of the binding) has what.
Entry == [name : Names, owner : Nat, uid : Nat, transit : Transits, bfd : Sources]

\* A receipt also names the ledger's UID; a binding has none or one.
Receipt == [entry : Entry, ledger : Nat]

NoBinding == [uid |-> 0, owner |-> 0, receipt |-> {}, realised |-> FALSE]
NoLedger == [live |-> FALSE, uid |-> 0, entries |-> {}]
NoList == [n \in Names |-> NoBinding]
NoView == [name |-> {}, own |-> NoBinding, list |-> NoList, identity |-> 0,
           ledger |-> NoLedger]

Init ==
    /\ ledger = NoLedger
    /\ identity = 0
    /\ binding = NoList
    /\ made = [n \in Names |-> 0]
    /\ source = [n \in Names |-> 1]
    /\ pc = [p \in Procs |-> "idle"]
    /\ view = [p \in Procs |-> NoView]
    /\ err = [p \in Procs |-> "none"]
    /\ reserved = {}
    /\ exposed = {}
    /\ damage = {}
    /\ aborts = 0
    /\ losses = 0

-----------------------------------------------------------------------------
(* The syncer and the reconciler, as far as they change local bindings.    *)

\* Syncer.binding creates a missing local binding for the authority's one.
CreateBinding(n) ==
    /\ binding[n].uid = 0
    /\ made' = [made EXCEPT ![n] = @ + 1]
    /\ binding' = [binding EXCEPT ![n] = [uid |-> made[n] + 1, owner |-> source[n],
                                          receipt |-> {}, realised |-> FALSE]]
    /\ UNCHANGED <<ledger, identity, source, pc, view, err, history>>

\* The reconciler records resources, gateways or an applied revision, which it
\* does only with an allocation; an applied revision stays.
Realise(n) ==
    /\ binding[n].uid # 0
    /\ ~binding[n].realised
    /\ \E e \in exposed : e.name = n /\ e.uid = binding[n].uid
    /\ binding' = [binding EXCEPT ![n].realised = TRUE]
    /\ UNCHANGED <<ledger, identity, made, source, pc, view, err, history>>

\* bootstrapAllocationEvidence: somebody has used an allocation.
Evidence(list) == \E n \in Names : list[n].receipt # {} \/ list[n].realised

\* Ledger and identity are both lost: only the bindings still tell.
Unwitnessed == {"ledger", "identity"} \subseteq damage

\* What an administrator must leave: with ledger and identity both destroyed,
\* some binding with a receipt.
Witnessed == Unwitnessed' => \E n \in Names : binding'[n].receipt # {}

\* The cleaned-up binding of an earlier authority incarnation is deleted.
ReplaceBinding(n) ==
    /\ binding[n].realised
    /\ source[n] <= MaxReplaced
    /\ source' = [source EXCEPT ![n] = @ + 1]
    /\ binding' = [binding EXCEPT ![n] = NoBinding]
    /\ UNCHANGED <<ledger, identity, made, pc, view, err, history>>
    /\ Witnessed

-----------------------------------------------------------------------------
(* What allocate computes from the objects it has read.                    *)

Ledger(p) == view[p].ledger
Own(p) == view[p].own

\* readAllocationState: every retained reservation has an owner, a binding, a
\* transit prefix and a BFD source of its own.
ValidLedger(entries) ==
    \A e, f \in entries : e # f =>
        /\ <<e.name, e.owner>> # <<f.name, f.owner>>
        /\ <<e.name, e.uid>> # <<f.name, f.uid>>
        /\ e.transit # f.transit
        /\ e.bfd # f.bfd

\* validateAllocationReceipts, for one binding.
ReceiptMatches(b, n, led) ==
    \A r \in b.receipt :
        /\ r.entry \in led.entries
        /\ r.entry.name = n
        /\ r.entry.owner = b.owner
        /\ r.entry.uid = b.uid
        /\ r.ledger = led.uid

\* Mutant: the bindings are listed after the ledger was read.
ReceiptsMatchLate(p) ==
    \A n \in Names : ReceiptMatches(binding[n], n, Ledger(p))

ReceiptsMatch(p) ==
    \A n \in Names : /\ ReceiptMatches(view[p].list[n], n, Ledger(p))
                     /\ n \in view[p].name => ReceiptMatches(Own(p), n, Ledger(p))

\* The retained reservation of the caller's source binding, if any.
Retained(p) ==
    {e \in Ledger(p).entries : e.name \in view[p].name /\ e.owner = Own(p).owner}

\* Retained reservations of the caller's local binding.
Held(p) ==
    {e \in Ledger(p).entries : e.name \in view[p].name /\ e.uid = Own(p).uid}

FreeTransits(p) == Transits \ {e.transit : e \in Ledger(p).entries}
FreeSources(p) == Sources \ {e.bfd : e \in Ledger(p).entries}
First(i, free) == i \in free /\ \A j \in free : i <= j

\* Mutant: a ledger without identity is never adopted, not even an empty one.
AnchoredOnlyDiagnosis(p) ==
    IF view[p].identity = 0 THEN "identityMissing" ELSE "none"

\* The checks between reading the ledger and the next write; "none" if passed.
Diagnosis(p) ==
    LET known == view[p].identity IN
    IF ~ValidLedger(Ledger(p).entries) THEN "corrupt"
    ELSE IF known = 0 /\ (Ledger(p).entries # {} \/ Evidence(view[p].list))
    THEN "identityMissing"
    ELSE IF known = 0 THEN "none"
    ELSE IF known # Ledger(p).uid THEN "identityChanged"
    ELSE IF ~ReceiptsMatch(p) THEN "receiptMismatch"
    ELSE IF \E e \in Retained(p) : e.uid # Own(p).uid THEN "bindingChanged"
    ELSE IF Retained(p) = {} /\ Held(p) # {} THEN "sourceChanged"
    ELSE IF Retained(p) = {} /\ (FreeTransits(p) = {} \/ FreeSources(p) = {})
    THEN "exhausted"
    ELSE "none"

-----------------------------------------------------------------------------
(* allocate, one action per API call or check.                             *)

Leave(p, why) ==
    /\ pc' = [pc EXCEPT ![p] = "idle"]
    /\ view' = [view EXCEPT ![p] = NoView]
    /\ err' = [err EXCEPT ![p] = why]

Fail(p, why) == Leave(p, why) /\ UNCHANGED <<stored, history>>

Goto(p, label) == pc' = [pc EXCEPT ![p] = label] /\ UNCHANGED err

\* The reconciler reads the binding it works on.
Begin(p, n) ==
    /\ pc[p] = "idle"
    /\ binding[n].uid # 0
    /\ view' = [view EXCEPT ![p] = [name |-> {n}, own |-> binding[n], list |-> NoList,
                                    identity |-> 0, ledger |-> NoLedger]]
    /\ Goto(p, "list")
    /\ UNCHANGED <<stored, history>>

\* List all bindings; the caller's must be among them, the same incarnation.
ListBindings(p) ==
    /\ pc[p] = "list"
    /\ IF \E n \in view[p].name : /\ binding[n].uid = Own(p).uid
                                  /\ binding[n].owner = Own(p).owner
       THEN /\ view' = [view EXCEPT ![p].list = binding]
            /\ Goto(p, "identity")
            /\ UNCHANGED <<stored, history>>
       ELSE Fail(p, "bindingMissing")

GetIdentity(p) ==
    /\ pc[p] = "identity"
    /\ view' = [view EXCEPT ![p].identity = identity]
    /\ Goto(p, "ledger")
    /\ UNCHANGED <<stored, history>>

\* A missing ledger is created only when nothing says that there was one.
GetLedger(p) ==
    /\ pc[p] = "ledger"
    /\ IF ledger.live
       THEN /\ view' = [view EXCEPT ![p].ledger = ledger]
            /\ Goto(p, "check")
            /\ UNCHANGED <<stored, history>>
       ELSE IF view[p].identity # 0 \/ Evidence(view[p].list)
       THEN Fail(p, "ledgerMissing")
       ELSE /\ Goto(p, "createLedger")
            /\ UNCHANGED <<view, stored, history>>

CreateLedger(p) ==
    /\ pc[p] = "createLedger"
    /\ IF ledger.live
       THEN Fail(p, "conflict")
       ELSE /\ ledger' = [live |-> TRUE, uid |-> ledger.uid + 1, entries |-> {}]
            /\ view' = [view EXCEPT ![p].ledger = ledger']
            /\ Goto(p, "check")
            /\ UNCHANGED <<identity, binding, made, source, history>>

\* Mutant: a reservation that is retained is returned without a receipt.
CheckWithoutReceipt(p) ==
    /\ pc[p] = "check"
    /\ IF Diagnosis(p) # "none"
       THEN Fail(p, Diagnosis(p))
       ELSE /\ Goto(p, IF view[p].identity = 0 THEN "createIdentity"
                       ELSE IF Retained(p) = {} THEN "reserve" ELSE "return")
            /\ UNCHANGED <<view, stored, history>>

Check(p) ==
    /\ pc[p] = "check"
    /\ IF Diagnosis(p) # "none"
       THEN Fail(p, Diagnosis(p))
       ELSE /\ Goto(p, IF view[p].identity = 0 THEN "createIdentity"
                       ELSE IF Retained(p) = {} THEN "reserve"
                       ELSE IF Own(p).receipt = {} THEN "receipt"
                       ELSE "return")
            /\ UNCHANGED <<view, stored, history>>

\* Only an interrupted, still empty bootstrap may create the identity.
CreateIdentity(p) ==
    /\ pc[p] = "createIdentity"
    /\ IF identity # 0
       THEN Fail(p, "conflict")
       ELSE /\ identity' = Ledger(p).uid
            /\ view' = [view EXCEPT ![p].identity = Ledger(p).uid]
            /\ Goto(p, "check")
            /\ UNCHANGED <<ledger, binding, made, source, history>>

\* Mutant: the update is conditional on the ledger's identity only.
LedgerSameUID(p) == ledger.live /\ ledger.uid = Ledger(p).uid

\* The ledger did not change since it was read.
LedgerUnchanged(p) == ledger = Ledger(p)

\* Reserve the first free transit prefix and BFD source in the ledger.
Reserve(p) ==
    /\ pc[p] = "reserve"
    /\ IF ~LedgerUnchanged(p)
       THEN Fail(p, "conflict")
       ELSE \E n \in view[p].name, t \in FreeTransits(p), s \in FreeSources(p) :
            /\ First(t, FreeTransits(p))
            /\ First(s, FreeSources(p))
            /\ LET e == [name |-> n, owner |-> Own(p).owner, uid |-> Own(p).uid,
                         transit |-> t, bfd |-> s]
               IN /\ ledger' = [ledger EXCEPT !.entries = Ledger(p).entries \union {e}]
                  /\ reserved' = reserved \union {e}
            /\ view' = [view EXCEPT ![p].ledger = ledger']
            /\ Goto(p, "receipt")
            /\ UNCHANGED <<identity, binding, made, source,
                           exposed, damage, aborts, losses>>

\* Write the receipt on the local binding, conditional on the caller's copy.
WriteReceipt(p) ==
    /\ pc[p] = "receipt"
    /\ \E n \in view[p].name, e \in Retained(p) :
       IF binding[n] # Own(p)
       THEN Fail(p, "conflict")
       ELSE /\ binding' = [binding EXCEPT ![n].receipt =
                              {[entry |-> e, ledger |-> Ledger(p).uid]}]
            /\ view' = [view EXCEPT ![p].own = binding'[n]]
            /\ Goto(p, "return")
            /\ UNCHANGED <<ledger, identity, made, source, history>>

\* The addresses are handed to native resources and gateways.
Return(p) ==
    /\ pc[p] = "return"
    /\ exposed' = exposed \union {[e EXCEPT !.uid = Own(p).uid] : e \in Retained(p)}
    /\ Leave(p, "none")
    /\ UNCHANGED <<stored, reserved, damage, aborts, losses>>

-----------------------------------------------------------------------------
(* The environment.                                                        *)

\* A crash, an API error, a conflict with a write of the syncer, or a committed
\* write whose response is lost.
Abort(p) ==
    /\ pc[p] # "idle"
    /\ aborts < MaxAborts
    /\ aborts' = aborts + 1
    /\ Leave(p, "aborted")
    /\ UNCHANGED <<stored, reserved, exposed, damage, losses>>

\* An object of the kind is destroyed.  When that leaves neither ledger nor
\* identity of the original pair, the site's processes are not in a call.
Lose(kind) ==
    /\ losses < MaxDamage
    /\ losses' = losses + 1
    /\ damage' = damage \union {kind}
    /\ Unwitnessed' => \A p \in Procs : pc[p] = "idle"
    /\ UNCHANGED <<made, source, pc, view, err, reserved, exposed, aborts>>
    /\ Witnessed

LoseLedger ==
    /\ ledger.live
    /\ ledger' = [ledger EXCEPT !.live = FALSE, !.entries = {}]
    /\ UNCHANGED <<identity, binding>>
    /\ Lose("ledger")

LoseIdentity ==
    /\ identity # 0
    /\ identity' = 0
    /\ UNCHANGED <<ledger, binding>>
    /\ Lose("identity")

\* The syncer will create it again, with a new UID and the same source.
LoseBinding(n) ==
    /\ binding[n].uid # 0
    /\ binding' = [binding EXCEPT ![n] = NoBinding]
    /\ UNCHANGED <<ledger, identity>>
    /\ Lose("binding")

-----------------------------------------------------------------------------

Step(p) ==
    \/ \E n \in Names : Begin(p, n)
    \/ ListBindings(p)
    \/ GetIdentity(p)
    \/ GetLedger(p)
    \/ CreateLedger(p)
    \/ Check(p)
    \/ CreateIdentity(p)
    \/ Reserve(p)
    \/ WriteReceipt(p)
    \/ Return(p)

Bindings ==
    \E n \in Names : CreateBinding(n) \/ Realise(n) \/ ReplaceBinding(n)

Environment ==
    \/ \E p \in Procs : Abort(p)
    \/ LoseLedger
    \/ LoseIdentity
    \/ \E n \in Names : LoseBinding(n)

Next == (\E p \in Procs : Step(p)) \/ Bindings \/ Environment

Spec == Init /\ [][Next]_vars

-----------------------------------------------------------------------------
(* Properties.                                                             *)

Labels == {"idle", "list", "identity", "ledger", "createLedger", "check",
           "createIdentity", "reserve", "receipt", "return"}
Alarms == {"corrupt", "ledgerMissing", "identityChanged", "receiptMismatch",
           "bindingChanged", "sourceChanged"}
Errors == Alarms \union {"none", "aborted", "conflict", "bindingMissing",
                         "identityMissing", "exhausted"}

LedgerType == [live : BOOLEAN, uid : Nat, entries : SUBSET Entry]
BindingType == [uid : Nat, owner : Nat, receipt : SUBSET Receipt, realised : BOOLEAN]
ViewType == [name : SUBSET Names, own : BindingType, list : [Names -> BindingType],
             identity : Nat, ledger : LedgerType]

\* Type invariant: the ledger only holds addresses of the pools, and the shape
\* of the other objects, of what each process holds, and of the histories.
TypeOK ==
    /\ ledger \in LedgerType
    /\ identity \in Nat
    /\ binding \in [Names -> BindingType]
    /\ made \in [Names -> Nat]
    /\ source \in [Names -> Nat]
    /\ pc \in [Procs -> Labels]
    /\ view \in [Procs -> ViewType]
    /\ err \in [Procs -> Errors]
    /\ reserved \in SUBSET Entry
    /\ exposed \in SUBSET Entry
    /\ damage \subseteq {"ledger", "identity", "binding"}
    /\ aborts \in Nat
    /\ losses \in Nat

\* "Allocation is retained after deletion" (allocation.go:31): whatever overlaps,
\* crashes, is replaced or destroyed, no address is ever handed to two source
\* bindings or to two incarnations of a local binding, and none gets two.
Exclusive ==
    \A e, f \in exposed :
        \/ e = f
        \/ /\ e.transit # f.transit
           /\ e.bfd # f.bfd
           /\ <<e.name, e.uid>> # <<f.name, f.uid>>
           /\ <<e.name, e.owner>> # <<f.name, f.owner>>

\* "allocate commits the retained reservation and then a receipt on the local
\* Binding before exposing any addresses" (allocation.go:117): both are there
\* as long as nobody destroys them.
CommittedFirst ==
    \A e \in exposed :
        /\ "ledger" \notin damage => e \in ledger.entries
        /\ e.uid = binding[e.name].uid =>
              \E r \in binding[e.name].receipt :
                  r.entry.transit = e.transit /\ r.entry.bfd = e.bfd

\* Where nothing was destroyed allocate asks for fenced recovery in one case
\* only, also when processes overlap and the syncer replaces bindings: a process
\* that looked for the identity before another one's bootstrap wrote it calls it
\* missing (allocation.go:171).  That takes a second process, and the identity
\* and its ledger are there for the next call to read.
NoFalseFence == damage = {} => \A p \in Procs :
    /\ err[p] \notin Alarms
    /\ err[p] = "identityMissing" =>
        Procs # {p} /\ ledger.live /\ identity = ledger.uid /\ identity # 0

\* Some pool has no address left.
Exhausted ==
    \/ {e.transit : e \in ledger.entries} = Transits
    \/ {e.bfd : e \in ledger.entries} = Sources

\* Every binding has a receipt, unless something is destroyed or a pool runs out.
Allocated == damage # {} \/ Exhausted \/ \A n \in Names : binding[n].receipt # {}
=============================================================================
