----------------------- MODULE LocalAllocationProofs -----------------------
(***************************************************************************)
(* Proofs about the site's address allocator, for any processes, bindings  *)
(* and pools, and any number of crashes and destroyed objects: type        *)
(* correctness, that no address is ever handed out twice, that none is     *)
(* handed out without reservation and receipt, and that no alarm is raised *)
(* in a site where nothing was destroyed.                                  *)
(***************************************************************************)
EXTENDS LocalAllocation, TLAPS

\* The process has read or created a ledger.
Reading == {"check", "createIdentity", "reserve", "receipt", "return"}

\* The process has listed the bindings.
Listed == Labels \ {"idle", "list"}

\* A ledger that exists has a UID, one that does not has no entries, and the
\* identity names no later ledger.  What was ever reserved is free of conflicts,
\* and whatever the ledger or the reconciler has was reserved.
ObjectsInv ==
    /\ ledger.live => ledger.uid # 0
    /\ ~ledger.live => ledger.entries = {}
    /\ identity <= ledger.uid
    /\ \A n \in Names : binding[n].uid = 0 => binding[n] = NoBinding
    /\ ValidLedger(reserved)
    /\ ledger.entries \subseteq reserved
    /\ exposed \subseteq reserved

\* A ledger that was never destroyed has every reservation; so has the ledger
\* an undestroyed identity names, and nobody reserves before it exists.
RetainedInv ==
    /\ "ledger" \notin damage => ledger.entries = reserved
    /\ "identity" \notin damage /\ reserved # {} =>
          /\ identity # 0
          /\ ledger.live /\ ledger.uid = identity => ledger.entries = reserved

\* With ledger and identity both destroyed, the pair is never completed again
\* and some binding has a receipt.
WitnessInv ==
    Unwitnessed => /\ ~ledger.live \/ identity = 0
                   /\ \E n \in Names : binding[n].receipt # {}

\* What a process has copied: no later ledger than the stored one, no entry
\* that was not reserved, nothing at all between two calls.
CopyInv(p) ==
    /\ view[p].identity <= ledger.uid
    /\ Ledger(p).uid <= ledger.uid
    /\ Ledger(p).entries \subseteq reserved
    /\ pc[p] \in Reading => Ledger(p).live /\ Ledger(p).uid # 0
    /\ pc[p] = "idle" => view[p] = NoView
    /\ pc[p] # "idle" => view[p].own.uid # 0

\* The identity a process knows is the stored one, unless it was destroyed
\* while the ledger was intact.
IdentityInv(p) ==
    "identity" \notin damage \/ Unwitnessed => view[p].identity \in {0, identity}

\* Only a process that saw no evidence bootstraps; with ledger and identity
\* both destroyed everyone who listed the bindings saw evidence.
BootstrapInv(p) ==
    /\ pc[p] \in {"createLedger", "createIdentity"} => ~Evidence(view[p].list)
    /\ Unwitnessed /\ pc[p] \in Listed => Evidence(view[p].list)

\* What the checks established for a process that is about to reserve, or that
\* has a reservation.
ClearedInv(p) ==
    /\ pc[p] = "reserve" => /\ view[p].identity # 0
                            /\ view[p].identity = Ledger(p).uid
                            /\ Retained(p) = {}
                            /\ Held(p) = {}
    /\ pc[p] \in {"receipt", "return"} => \A e \in Retained(p) : e.uid = Own(p).uid

ProcInv(p) == CopyInv(p) /\ IdentityInv(p) /\ BootstrapInv(p) /\ ClearedInv(p)

\* The inductive invariant.
IInv == /\ TypeOK /\ ObjectsInv /\ RetainedInv /\ WitnessInv
        /\ \A p \in Procs : ProcInv(p)

\* A step of p leaves what the other processes hold alone.
Others(p) == \A q \in Procs \ {p} : view'[q] = view[q] /\ pc'[q] = pc[q]

-----------------------------------------------------------------------------
(* The initial state.                                                      *)

\* The objects a process starts a call with are well typed.
LEMMA Blank == /\ NoBinding \in BindingType
               /\ NoLedger \in LedgerType
               /\ NoList \in [Names -> BindingType]
               /\ NoView \in ViewType
  BY DEF NoBinding, NoLedger, NoList, NoView, BindingType, LedgerType, ViewType

\* An installation without ledger, identity and bindings.
LEMMA InitInv == Init => IInv
<1> SUFFICES ASSUME Init PROVE IInv
  OBVIOUS
<1>1. TypeOK
  BY Blank DEF Init, TypeOK, Labels, Errors, Alarms
<1>2. ObjectsInv /\ RetainedInv /\ WitnessInv
  BY DEF Init, ObjectsInv, RetainedInv, WitnessInv, Unwitnessed, ValidLedger,
             NoLedger, NoList
<1>3. ASSUME NEW p \in Procs PROVE ProcInv(p)
  BY DEF Init, ProcInv, CopyInv, IdentityInv, BootstrapInv, ClearedInv, Unwitnessed,
             Ledger, Reading, Listed, NoLedger, NoView
<1> QED
  BY <1>1, <1>2, <1>3 DEF IInv

-----------------------------------------------------------------------------
(* What the steps of a call have in common.                                *)

\* A step that changes no object only has to answer for the process itself:
\* the reads and checks of allocate.
LEMMA MoveStep ==
  ASSUME IInv, NEW p \in Procs, Others(p),
         UNCHANGED <<stored, reserved, damage>>, exposed' \subseteq reserved,
         TypeOK', ProcInv(p)'
  PROVE  IInv'
<1>1. ObjectsInv' /\ RetainedInv' /\ WitnessInv'
  BY DEF IInv, ObjectsInv, RetainedInv, WitnessInv, Unwitnessed, ValidLedger, stored
<1>2. ASSUME NEW q \in Procs PROVE ProcInv(q)'
  BY DEF IInv, ProcInv, CopyInv, IdentityInv, BootstrapInv, ClearedInv, Unwitnessed,
             Ledger, Own, Retained, Held, Evidence, Others, stored
<1> QED
  BY <1>1, <1>2 DEF IInv

\* However a call ends, the process holds nothing afterwards.
LEMMA LeaveStep ==
  ASSUME IInv, NEW p \in Procs, NEW why \in Errors, Leave(p, why),
         UNCHANGED <<stored, reserved, damage, losses>>,
         exposed' \subseteq reserved, aborts' \in Nat
  PROVE  IInv'
<1>1. TypeOK'
  BY Blank DEF IInv, TypeOK, Leave, Labels, stored
<1>2. Others(p)
  BY DEF IInv, TypeOK, Leave, Others
<1>3. ProcInv(p)'
  BY DEF IInv, TypeOK, LedgerType, Leave, ProcInv, CopyInv, IdentityInv, BootstrapInv,
             ClearedInv, Ledger, Reading, Listed, NoLedger, NoView, stored
<1> QED
  BY <1>1, <1>2, <1>3, MoveStep

\* A call that ends with an error.
LEMMA FailStep ==
  ASSUME IInv, NEW p \in Procs, NEW why \in Errors, Fail(p, why)
  PROVE  IInv'
  BY LeaveStep DEF Fail, history, IInv, TypeOK, ObjectsInv

-----------------------------------------------------------------------------
(* The reads and checks of a call.                                         *)

\* The reconciler starts with its own copy of a binding.
LEMMA BeginStep ==
  ASSUME IInv, NEW p \in Procs, NEW n \in Names, Begin(p, n)
  PROVE  IInv'
<1> DEFINE v == [name |-> {n}, own |-> binding[n], list |-> NoList, identity |-> 0,
                ledger |-> NoLedger]
<1>1. v \in ViewType /\ v.identity = 0 /\ v.ledger = NoLedger /\ v.own.uid # 0
  BY Blank DEF IInv, TypeOK, ViewType, Begin
<1> HIDE DEF v
<1>2. /\ view' = [view EXCEPT ![p] = v]
      /\ pc' = [pc EXCEPT ![p] = "list"]
      /\ UNCHANGED <<stored, history, err>>
  BY DEF Begin, Goto, v
<1>3. TypeOK'
  BY <1>1, <1>2 DEF IInv, TypeOK, Labels, stored, history
<1>4. Others(p)
  BY <1>2 DEF IInv, TypeOK, Others
<1>5. view'[p] = v /\ pc'[p] = "list"
  BY <1>2 DEF IInv, TypeOK
<1>6. ProcInv(p)'
  BY <1>1, <1>5 DEF IInv, TypeOK, LedgerType, ProcInv, CopyInv, IdentityInv,
     BootstrapInv, ClearedInv, Ledger, Reading, Listed, NoLedger, Begin, stored, history
<1> QED
  BY <1>3, <1>4, <1>6, MoveStep DEF Begin, stored, history, IInv, ObjectsInv

\* The list shows a receipt when ledger and identity are both destroyed.
LEMMA ListStep ==
  ASSUME IInv, NEW p \in Procs, ListBindings(p)
  PROVE  IInv'
<1>0. pc[p] = "list"
  BY DEF ListBindings
<1>1. \/ Fail(p, "bindingMissing")
      \/ /\ view' = [view EXCEPT ![p].list = binding]
         /\ Goto(p, "identity")
         /\ UNCHANGED <<stored, history>>
  BY DEF ListBindings
<1>2. CASE Fail(p, "bindingMissing")
  BY <1>2, FailStep DEF Errors
<1>3. CASE /\ view' = [view EXCEPT ![p].list = binding]
           /\ Goto(p, "identity")
           /\ UNCHANGED <<stored, history>>
  <2> USE <1>3 DEF Goto, stored, history
  <2>0. view' \in [Procs -> ViewType]
    BY DEF IInv, TypeOK, ViewType
  <2>1. TypeOK'
    BY <2>0 DEF IInv, TypeOK, Labels
  <2>2. Others(p)
    BY DEF IInv, TypeOK, ViewType, Others
  <2>3. /\ view'[p].list = binding
        /\ view'[p].identity = view[p].identity
        /\ view'[p].ledger = view[p].ledger
        /\ view'[p].own = view[p].own
        /\ pc'[p] = "identity"
    BY DEF IInv, TypeOK, ViewType
  <2>4. ProcInv(p)'
    BY <1>0, <2>3 DEF IInv, ProcInv, CopyInv, IdentityInv, BootstrapInv, ClearedInv, Ledger,
       Reading, Listed, Labels, Evidence, WitnessInv, Unwitnessed
  <2> QED
    BY <2>1, <2>2, <2>4, MoveStep DEF IInv, ObjectsInv
<1> QED
  BY <1>1, <1>2, <1>3

\* The copy of the identity is the stored one.
LEMMA GetIdentityStep ==
  ASSUME IInv, NEW p \in Procs, GetIdentity(p)
  PROVE  IInv'
<1> USE DEF GetIdentity, Goto, stored, history
<1>0. view' \in [Procs -> ViewType]
  BY DEF IInv, TypeOK, ViewType
<1>1. TypeOK'
  BY <1>0 DEF IInv, TypeOK, Labels
<1>2. Others(p)
  BY DEF IInv, TypeOK, ViewType, Others
<1>3. /\ view'[p].list = view[p].list
      /\ view'[p].identity = identity
      /\ view'[p].ledger = view[p].ledger
      /\ view'[p].own = view[p].own
      /\ pc[p] = "identity" /\ pc'[p] = "ledger"
  BY DEF IInv, TypeOK, ViewType
<1>4. ProcInv(p)'
  BY <1>3 DEF IInv, ObjectsInv, ProcInv, CopyInv, IdentityInv, BootstrapInv, ClearedInv,
     Ledger, Reading, Listed, Labels, Evidence, Unwitnessed
<1> QED
  BY <1>1, <1>2, <1>4, MoveStep DEF IInv, ObjectsInv

\* A process goes on with a live ledger, or bootstraps without evidence.
LEMMA GetLedgerStep ==
  ASSUME IInv, NEW p \in Procs, GetLedger(p)
  PROVE  IInv'
<1>1. CASE ledger.live
  <2>1. /\ view' = [view EXCEPT ![p].ledger = ledger]
        /\ pc[p] = "ledger"
        /\ pc' = [pc EXCEPT ![p] = "check"]
        /\ UNCHANGED <<stored, history, err>>
    BY <1>1 DEF GetLedger, Goto
  <2> USE <2>1 DEF stored, history
  <2>2. view' \in [Procs -> ViewType]
    BY DEF IInv, TypeOK, ViewType
  <2>3. TypeOK'
    BY <2>2 DEF IInv, TypeOK, Labels
  <2>4. Others(p)
    BY DEF IInv, TypeOK, ViewType, Others
  <2>5. /\ view'[p].list = view[p].list
        /\ view'[p].identity = view[p].identity
        /\ view'[p].ledger = ledger
        /\ view'[p].own = view[p].own
        /\ pc'[p] = "check"
    BY DEF IInv, TypeOK, ViewType
  <2>6. ProcInv(p)'
    BY <1>1, <2>5 DEF IInv, TypeOK, LedgerType, ObjectsInv, ProcInv, CopyInv, IdentityInv,
       BootstrapInv, ClearedInv, Ledger, Listed, Labels, Evidence, Unwitnessed
  <2> QED
    BY <2>3, <2>4, <2>6, MoveStep DEF IInv, ObjectsInv
<1>2. CASE ~ledger.live /\ (view[p].identity # 0 \/ Evidence(view[p].list))
  BY <1>2, FailStep DEF GetLedger, Errors, Alarms
<1>3. CASE ~ledger.live /\ ~(view[p].identity # 0 \/ Evidence(view[p].list))
  <2>1. /\ pc[p] = "ledger"
        /\ pc' = [pc EXCEPT ![p] = "createLedger"]
        /\ UNCHANGED <<stored, history, err, view>>
    BY <1>3 DEF GetLedger, Goto
  <2> USE <2>1 DEF stored, history
  <2>2. TypeOK'
    BY DEF IInv, TypeOK, Labels
  <2>3. Others(p)
    BY DEF IInv, TypeOK, Others
  <2>4. pc'[p] = "createLedger"
    BY DEF IInv, TypeOK
  <2>5. ProcInv(p)'
    BY <1>3, <2>4 DEF IInv, ProcInv, CopyInv, IdentityInv, BootstrapInv, ClearedInv,
       Ledger, Reading, Listed, Labels, Evidence, Unwitnessed
  <2> QED
    BY <2>2, <2>3, <2>5, MoveStep DEF IInv, ObjectsInv
<1> QED
  BY <1>1, <1>2, <1>3

\* The checks establish what the writes after them rely on.
LEMMA CheckStep ==
  ASSUME IInv, NEW p \in Procs, Check(p)
  PROVE  IInv'
<1>1. CASE Diagnosis(p) # "none"
  <2>1. Fail(p, Diagnosis(p))
    BY <1>1 DEF Check
  <2>2. Diagnosis(p) \in Errors
    BY DEF Diagnosis, Errors, Alarms
  <2> QED
    BY <2>1, <2>2, FailStep
<1>2. CASE Diagnosis(p) = "none"
  <2> DEFINE l == IF view[p].identity = 0 THEN "createIdentity"
                  ELSE IF Retained(p) = {} THEN "reserve"
                  ELSE IF Own(p).receipt = {} THEN "receipt"
                  ELSE "return"
  <2>1. /\ pc[p] = "check"
        /\ pc' = [pc EXCEPT ![p] = l]
        /\ UNCHANGED <<stored, history, err, view>>
    BY <1>2 DEF Check, Goto
  <2>2. l \in {"createIdentity", "reserve", "receipt", "return"}
    OBVIOUS
  <2>3. l = "createIdentity" => ~Evidence(view[p].list)
    BY <1>2 DEF Diagnosis
  <2>4. l = "reserve" => /\ view[p].identity # 0
                         /\ view[p].identity = Ledger(p).uid
                         /\ Retained(p) = {}
                         /\ Held(p) = {}
    BY <1>2 DEF Diagnosis
  <2>5. l \in {"receipt", "return"} => \A e \in Retained(p) : e.uid = Own(p).uid
    BY <1>2 DEF Diagnosis
  <2> HIDE DEF l
  <2> USE DEF stored, history
  <2>6. TypeOK'
    BY <2>1, <2>2 DEF IInv, TypeOK, Labels
  <2>7. Others(p)
    BY <2>1 DEF IInv, TypeOK, Others
  <2>8. pc'[p] = l
    BY <2>1 DEF IInv, TypeOK
  <2>9. CopyInv(p)' /\ IdentityInv(p)' /\ BootstrapInv(p)'
    BY <2>1, <2>2, <2>3, <2>8 DEF IInv, ProcInv, CopyInv, IdentityInv, BootstrapInv,
       Ledger, Reading, Listed, Labels, Evidence, Unwitnessed
  <2>10. ClearedInv(p)'
    BY <2>1, <2>4, <2>5, <2>8 DEF ClearedInv, Ledger, Retained, Held, Own
  <2> QED
    BY <2>1, <2>6, <2>7, <2>9, <2>10, MoveStep DEF IInv, ObjectsInv, ProcInv
<1> QED
  BY <1>1, <1>2

-----------------------------------------------------------------------------
(* The writes of a call.                                                   *)

\* What the other processes rely on survives a write that keeps or replaces the
\* ledger, keeps the reservations, and creates the identity only when absent.
LEMMA OthersStep ==
  ASSUME IInv, NEW p \in Procs, Others(p), ledger'.uid \in Nat,
         ledger.uid <= ledger'.uid, reserved \subseteq reserved',
         identity' = identity \/ identity = 0, damage' = damage
  PROVE  \A q \in Procs \ {p} : ProcInv(q)'
<1> SUFFICES ASSUME NEW q \in Procs \ {p} PROVE ProcInv(q)'
  OBVIOUS
<1>1. view[q].identity \in Nat /\ Ledger(q).uid \in Nat /\ ledger.uid \in Nat
  BY DEF IInv, TypeOK, ViewType, LedgerType, Ledger
<1>2. CopyInv(q)'
  BY <1>1 DEF IInv, ProcInv, CopyInv, Ledger, Others
<1>3. IdentityInv(q)' /\ BootstrapInv(q)'
  BY DEF IInv, ProcInv, IdentityInv, BootstrapInv, Evidence, Unwitnessed, Others
<1>4. ClearedInv(q)'
  BY DEF IInv, ProcInv, ClearedInv, Ledger, Retained, Held, Own, Others
<1> QED
  BY <1>2, <1>3, <1>4 DEF ProcInv

\* A ledger is created only where none retains anything: while the ledger was
\* never destroyed nothing is reserved, the identity names no new ledger, and
\* with both destroyed nobody bootstraps.
LEMMA CreateLedgerStep ==
  ASSUME IInv, NEW p \in Procs, CreateLedger(p)
  PROVE  IInv'
<1>1. CASE ledger.live
  BY <1>1, FailStep DEF CreateLedger, Errors
<1>2. CASE ~ledger.live
  <2>1. /\ ledger' = [live |-> TRUE, uid |-> ledger.uid + 1, entries |-> {}]
        /\ view' = [view EXCEPT ![p].ledger = ledger']
        /\ pc[p] = "createLedger"
        /\ pc' = [pc EXCEPT ![p] = "check"]
        /\ UNCHANGED <<identity, binding, made, source, history, err>>
    BY <1>2 DEF CreateLedger, Goto
  <2>2. ledger' \in LedgerType /\ ledger'.uid \in Nat /\ ledger.uid < ledger'.uid
    BY <2>1 DEF IInv, TypeOK, LedgerType
  <2>3. view' \in [Procs -> ViewType]
    BY <2>1, <2>2 DEF IInv, TypeOK, ViewType
  <2>4. TypeOK'
    BY <2>1, <2>2, <2>3 DEF IInv, TypeOK, Labels, history
  <2>5. Others(p)
    BY <2>1 DEF IInv, TypeOK, ViewType, Others
  <2>6. /\ view'[p].list = view[p].list
        /\ view'[p].identity = view[p].identity
        /\ view'[p].ledger = ledger'
        /\ view'[p].own = view[p].own
        /\ pc'[p] = "check"
    BY <2>1 DEF IInv, TypeOK, ViewType
  <2>7. ~Unwitnessed
    BY <2>1 DEF IInv, ProcInv, BootstrapInv, Listed, Labels
  <2>8. ObjectsInv'
    BY <2>1, <2>2 DEF IInv, TypeOK, LedgerType, ObjectsInv, ValidLedger, history
  <2>9. RetainedInv' /\ WitnessInv'
    BY <1>2, <2>1, <2>2, <2>7 DEF IInv, TypeOK, LedgerType, ObjectsInv, RetainedInv,
       WitnessInv, Unwitnessed, history
  <2>10. CopyInv(p)'
    BY <2>1, <2>2, <2>6 DEF IInv, TypeOK, LedgerType, ViewType, ProcInv, CopyInv, Ledger
  <2>11. IdentityInv(p)' /\ BootstrapInv(p)' /\ ClearedInv(p)'
    BY <2>1, <2>6, <2>7 DEF IInv, ProcInv, IdentityInv, BootstrapInv, ClearedInv,
       Unwitnessed, history
  <2>12. \A q \in Procs \ {p} : ProcInv(q)'
    BY <2>1, <2>2, <2>5, OthersStep DEF IInv, TypeOK, LedgerType, history
  <2> QED
    BY <2>4, <2>8, <2>9, <2>10, <2>11, <2>12 DEF IInv, ProcInv
<1> QED
  BY <1>1, <1>2

\* An identity is created only where nothing was reserved yet, or for a ledger
\* that lost its identity and was never destroyed itself.
LEMMA CreateIdentityStep ==
  ASSUME IInv, NEW p \in Procs, CreateIdentity(p)
  PROVE  IInv'
<1>1. CASE identity # 0
  BY <1>1, FailStep DEF CreateIdentity, Errors
<1>2. CASE identity = 0
  <2>1. /\ identity' = Ledger(p).uid
        /\ view' = [view EXCEPT ![p].identity = Ledger(p).uid]
        /\ pc[p] = "createIdentity"
        /\ pc' = [pc EXCEPT ![p] = "check"]
        /\ UNCHANGED <<ledger, binding, made, source, history, err>>
    BY <1>2 DEF CreateIdentity, Goto
  <2>2. identity' \in Nat /\ identity' <= ledger.uid
    BY <2>1 DEF IInv, TypeOK, LedgerType, ViewType, Ledger, ProcInv, CopyInv
  <2>3. view' \in [Procs -> ViewType]
    BY <2>1, <2>2 DEF IInv, TypeOK, ViewType
  <2>4. TypeOK'
    BY <2>1, <2>2, <2>3 DEF IInv, TypeOK, Labels, history
  <2>5. Others(p)
    BY <2>1 DEF IInv, TypeOK, ViewType, Others
  <2>6. /\ view'[p].list = view[p].list
        /\ view'[p].identity = identity'
        /\ view'[p].ledger = view[p].ledger
        /\ view'[p].own = view[p].own
        /\ pc'[p] = "check"
    BY <2>1 DEF IInv, TypeOK, ViewType
  <2>7. ~Unwitnessed
    BY <2>1 DEF IInv, ProcInv, BootstrapInv, Listed, Labels
  <2>8. ObjectsInv'
    BY <2>1, <2>2 DEF IInv, ObjectsInv, ValidLedger, history
  <2>9. RetainedInv' /\ WitnessInv'
    BY <1>2, <2>1, <2>7 DEF IInv, RetainedInv, WitnessInv, Unwitnessed, history
  <2>10. ProcInv(p)'
    BY <2>1, <2>2, <2>6, <2>7 DEF IInv, ProcInv, CopyInv, IdentityInv, BootstrapInv,
       ClearedInv, Ledger, Reading, Unwitnessed, history
  <2>11. \A q \in Procs \ {p} : ProcInv(q)'
    BY <1>2, <2>1, <2>5, OthersStep DEF IInv, TypeOK, LedgerType, history
  <2> QED
    BY <2>4, <2>8, <2>9, <2>10, <2>11 DEF IInv
<1> QED
  BY <1>1, <1>2

\* A ledger that is about to be extended retains every reservation ever made:
\* it was never destroyed, or it is the one an undestroyed identity names; with
\* both destroyed no process gets this far.
LEMMA Complete ==
  ASSUME IInv, NEW p \in Procs, pc[p] = "reserve", ledger = Ledger(p)
  PROVE  /\ ledger.entries = reserved
         /\ "identity" \notin damage => identity = ledger.uid
         /\ ~Unwitnessed
<1>1. /\ ledger.live
      /\ ledger.uid # 0
      /\ view[p].identity = ledger.uid
  BY DEF IInv, ProcInv, CopyInv, ClearedInv, Reading
<1>2. "identity" \notin damage \/ Unwitnessed => identity = ledger.uid
  BY <1>1 DEF IInv, ProcInv, IdentityInv
<1>3. ~Unwitnessed
  BY <1>1, <1>2 DEF IInv, WitnessInv
<1>4. CASE "ledger" \notin damage
  BY <1>2, <1>3, <1>4 DEF IInv, RetainedInv
<1>5. CASE "identity" \notin damage
  BY <1>1, <1>2, <1>3, <1>5 DEF IInv, RetainedInv, ObjectsInv
<1> QED
  BY <1>3, <1>4, <1>5 DEF Unwitnessed

\* So the addresses that are free in the caller's copy were never reserved.
LEMMA ReserveStep ==
  ASSUME IInv, NEW p \in Procs, Reserve(p)
  PROVE  IInv'
<1>1. CASE ledger # Ledger(p)
  BY <1>1, FailStep DEF Reserve, LedgerUnchanged, Errors
<1>2. CASE ledger = Ledger(p)
  <2>1. PICK n \in view[p].name, t \in FreeTransits(p), s \in FreeSources(p) :
          LET e == [name |-> n, owner |-> Own(p).owner, uid |-> Own(p).uid,
                    transit |-> t, bfd |-> s]
          IN /\ ledger' = [ledger EXCEPT !.entries = Ledger(p).entries \union {e}]
             /\ reserved' = reserved \union {e}
             /\ view' = [view EXCEPT ![p].ledger = ledger']
             /\ pc' = [pc EXCEPT ![p] = "receipt"]
             /\ UNCHANGED <<identity, binding, made, source, err,
                            exposed, damage, aborts, losses>>
    BY <1>2 DEF Reserve, LedgerUnchanged, Goto
  <2> DEFINE e == [name |-> n, owner |-> Own(p).owner, uid |-> Own(p).uid,
                   transit |-> t, bfd |-> s]
  <2>2. pc[p] = "reserve"
    BY DEF Reserve
  <2>3. e \in Entry /\ e.name = n /\ e.owner = Own(p).owner /\ e.uid = Own(p).uid
    BY DEF IInv, TypeOK, ViewType, BindingType, Own, Entry, FreeTransits, FreeSources
  <2>4. e.transit = t /\ e.bfd = s
    OBVIOUS
  <2> HIDE DEF e
  <2>5. /\ ledger.entries = reserved
        /\ "identity" \notin damage => identity = ledger.uid
        /\ ~Unwitnessed
    BY <1>2, <2>2, Complete
  <2>6. /\ ledger' = [live |-> ledger.live, uid |-> ledger.uid,
                      entries |-> reserved \union {e}]
        /\ reserved' = reserved \union {e}
        /\ view' = [view EXCEPT ![p].ledger = ledger']
        /\ pc' = [pc EXCEPT ![p] = "receipt"]
        /\ UNCHANGED <<identity, binding, made, source, err,
                       exposed, damage, aborts, losses>>
    BY <1>2, <2>1, <2>5 DEF e, IInv, TypeOK, LedgerType
  <2>7. /\ Ledger(p).live
        /\ Ledger(p).uid # 0
        /\ Ledger(p).entries = reserved
        /\ Retained(p) = {} /\ Held(p) = {}
    BY <1>2, <2>2, <2>5 DEF IInv, ProcInv, CopyInv, ClearedInv, Reading
  <2>8. \A f \in reserved : /\ <<e.name, e.owner>> # <<f.name, f.owner>>
                            /\ <<e.name, e.uid>> # <<f.name, f.uid>>
                            /\ e.transit # f.transit
                            /\ e.bfd # f.bfd
    BY <2>1, <2>3, <2>4, <2>7 DEF Retained, Held, FreeTransits, FreeSources
  <2>9. ledger' \in LedgerType /\ reserved' \in SUBSET Entry
    BY <2>3, <2>6 DEF IInv, TypeOK, LedgerType
  <2>10. view' \in [Procs -> ViewType]
    BY <2>6, <2>9 DEF IInv, TypeOK, ViewType
  <2>11. TypeOK'
    BY <2>6, <2>9, <2>10 DEF IInv, TypeOK, Labels
  <2>12. Others(p)
    BY <2>6 DEF IInv, TypeOK, ViewType, Others
  <2>13. /\ view'[p].list = view[p].list
         /\ view'[p].identity = view[p].identity
         /\ view'[p].ledger = ledger'
         /\ view'[p].own = view[p].own
         /\ view'[p].name = view[p].name
         /\ pc'[p] = "receipt"
    BY <2>6 DEF IInv, TypeOK, ViewType
  <2>14. ledger'.live = ledger.live /\ ledger'.uid = ledger.uid
         /\ ledger'.entries = reserved'
    BY <2>6
  <2>15. ValidLedger(reserved')
    BY <2>6, <2>8 DEF IInv, ObjectsInv, ValidLedger
  <2>16. ObjectsInv'
    BY <1>2, <2>6, <2>7, <2>14, <2>15 DEF IInv, ObjectsInv
  <2>17. RetainedInv' /\ WitnessInv'
    BY <1>2, <2>5, <2>6, <2>7, <2>14 DEF RetainedInv, WitnessInv, Unwitnessed
  <2>18. CopyInv(p)' /\ IdentityInv(p)' /\ BootstrapInv(p)'
    BY <1>2, <2>2, <2>5, <2>6, <2>7, <2>13, <2>14 DEF IInv, TypeOK, LedgerType, ProcInv,
       CopyInv, IdentityInv, BootstrapInv, Ledger, Unwitnessed
  <2>19. ASSUME NEW f \in Retained(p)' PROVE f.uid = Own(p)'.uid
    <3>1. /\ f \in reserved \union {e}
          /\ f.name \in view[p].name
          /\ f.owner = Own(p).owner
          /\ Own(p)' = Own(p)
      BY <2>6, <2>13, <2>14, <2>19 DEF Retained, Own, Ledger
    <3>2. f \notin reserved
      BY <3>1, <2>7 DEF Retained
    <3> QED
      BY <3>1, <3>2, <2>3
  <2>20. ClearedInv(p)'
    BY <2>13, <2>19 DEF ClearedInv
  <2>21. \A q \in Procs \ {p} : ProcInv(q)'
    BY <2>6, <2>9, <2>12, <2>14, OthersStep DEF IInv, TypeOK, LedgerType
  <2> QED
    BY <2>11, <2>16, <2>17, <2>18, <2>20, <2>21 DEF IInv, ProcInv
<1> QED
  BY <1>1, <1>2

\* A receipt is one more witness of the allocation.
LEMMA WriteReceiptStep ==
  ASSUME IInv, NEW p \in Procs, WriteReceipt(p)
  PROVE  IInv'
<1>1. PICK n \in view[p].name, e \in Retained(p) :
        IF binding[n] # Own(p)
        THEN Fail(p, "conflict")
        ELSE /\ binding' = [binding EXCEPT ![n].receipt =
                               {[entry |-> e, ledger |-> Ledger(p).uid]}]
             /\ view' = [view EXCEPT ![p].own = binding'[n]]
             /\ pc' = [pc EXCEPT ![p] = "return"]
             /\ UNCHANGED <<ledger, identity, made, source, history, err>>
  BY DEF WriteReceipt, Goto
<1>2. CASE binding[n] # Own(p)
  BY <1>1, <1>2, FailStep DEF Errors
<1>3. CASE binding[n] = Own(p)
  <2> DEFINE r == [entry |-> e, ledger |-> Ledger(p).uid]
  <2>1. r \in Receipt /\ n \in Names
    <3>1. view[p] \in ViewType
      BY DEF IInv, TypeOK
    <3>2. Ledger(p) \in LedgerType /\ n \in Names
      BY <3>1 DEF ViewType, Ledger
    <3>3. e \in Entry /\ Ledger(p).uid \in Nat
      BY <3>2 DEF LedgerType, Retained
    <3> QED
      BY <3>2, <3>3 DEF Receipt
  <2> HIDE DEF r
  <2>2. /\ binding' = [binding EXCEPT ![n].receipt = {r}]
        /\ view' = [view EXCEPT ![p].own = binding'[n]]
        /\ pc[p] = "receipt"
        /\ pc' = [pc EXCEPT ![p] = "return"]
        /\ UNCHANGED <<ledger, identity, made, source, history, err>>
    BY <1>1, <1>3 DEF WriteReceipt, r
  <2>3. binding' \in [Names -> BindingType]
    BY <2>1, <2>2 DEF IInv, TypeOK, BindingType
  <2>4. /\ binding'[n].receipt = {r}
        /\ binding'[n].uid = binding[n].uid
        /\ binding'[n].owner = binding[n].owner
        /\ \A m \in Names \ {n} : binding'[m] = binding[m]
    <3>1. binding \in [Names -> BindingType] /\ n \in Names
      BY <2>1 DEF IInv, TypeOK
    <3>2. binding' = [binding EXCEPT ![n].receipt = {r}]
      BY <2>2
    <3> QED
      BY <3>1, <3>2 DEF BindingType
  <2>5. view' \in [Procs -> ViewType]
    <3>1. view \in [Procs -> ViewType] /\ binding'[n] \in BindingType
      BY <2>1, <2>3 DEF IInv, TypeOK
    <3>2. view' = [view EXCEPT ![p].own = binding'[n]]
      BY <2>2
    <3> QED
      BY <3>1, <3>2 DEF ViewType
  <2>6. TypeOK'
    BY <2>2, <2>3, <2>5 DEF IInv, TypeOK, Labels, history
  <2>7. Others(p)
    BY <2>2 DEF IInv, TypeOK, ViewType, Others
  <2>8. /\ view'[p].list = view[p].list
        /\ view'[p].identity = view[p].identity
        /\ view'[p].ledger = view[p].ledger
        /\ view'[p].own = binding'[n]
        /\ view'[p].name = view[p].name
        /\ pc'[p] = "return"
    BY <2>2 DEF IInv, TypeOK, ViewType
  <2>9. binding[n].uid # 0
    BY <1>3, <2>2 DEF IInv, ProcInv, CopyInv, Own
  <2>10. ObjectsInv'
    BY <2>1, <2>2, <2>4, <2>9 DEF IInv, ObjectsInv, ValidLedger, history
  <2>11. RetainedInv' /\ WitnessInv'
    BY <2>1, <2>2, <2>4 DEF IInv, RetainedInv, WitnessInv, Unwitnessed, history
  <2>12. CopyInv(p)' /\ IdentityInv(p)' /\ BootstrapInv(p)'
    BY <2>2, <2>4, <2>8, <2>9 DEF IInv, ProcInv, CopyInv, IdentityInv, BootstrapInv, Ledger,
       Reading, Listed, Labels, Evidence, Unwitnessed, history
  <2>13. Retained(p)' = Retained(p) /\ Own(p)'.uid = Own(p).uid
    BY <1>3, <2>4, <2>8 DEF Retained, Own, Ledger
  <2>14. ClearedInv(p)'
    BY <2>2, <2>8, <2>13 DEF IInv, ProcInv, ClearedInv
  <2>15. \A q \in Procs \ {p} : ProcInv(q)'
    BY <2>2, <2>7, OthersStep DEF IInv, TypeOK, LedgerType, history
  <2> QED
    BY <2>6, <2>10, <2>11, <2>12, <2>14, <2>15 DEF IInv, ProcInv
<1> QED
  BY <1>1, <1>2, <1>3

\* What is handed out is reserved, and for this incarnation of the binding.
LEMMA ReturnStep ==
  ASSUME IInv, NEW p \in Procs, Return(p)
  PROVE  IInv'
<1>1. ASSUME NEW e \in Retained(p) PROVE [e EXCEPT !.uid = Own(p).uid] \in reserved
  <2>1. e \in reserved /\ e \in Entry
    BY DEF IInv, TypeOK, ProcInv, CopyInv, Retained
  <2>2. e.uid = Own(p).uid
    BY DEF IInv, ProcInv, ClearedInv, Return
  <2>3. [e EXCEPT !.uid = Own(p).uid] = e
    BY <2>1, <2>2 DEF Entry
  <2> QED
    BY <2>1, <2>3
<1>2. exposed' \subseteq reserved
  BY <1>1 DEF Return, IInv, ObjectsInv
<1> QED
  BY <1>2, LeaveStep DEF Return, IInv, TypeOK, Errors

\* A crash or a failed call, at any point.
LEMMA AbortStep ==
  ASSUME IInv, NEW p \in Procs, Abort(p)
  PROVE  IInv'
  BY LeaveStep DEF Abort, IInv, TypeOK, ObjectsInv, Errors

-----------------------------------------------------------------------------
(* Bindings that come and go, and objects that are destroyed.              *)

\* The witnesses among the bindings are not needed by a process in a call, and
\* remain as long as they are needed by later ones.
LEMMA BindingStep ==
  ASSUME IInv, UNCHANGED <<ledger, identity, pc, view, reserved, exposed>>,
         TypeOK', damage' \in {damage, damage \union {"binding"}},
         \A n \in Names : binding'[n].uid = 0 => binding'[n] = NoBinding,
         Unwitnessed => \E n \in Names : binding'[n].receipt # {}
  PROVE  IInv'
<1>1. /\ "ledger" \in damage' <=> "ledger" \in damage
      /\ "identity" \in damage' <=> "identity" \in damage
      /\ Unwitnessed' <=> Unwitnessed
  BY DEF Unwitnessed
<1>2. ObjectsInv' /\ RetainedInv' /\ WitnessInv'
  BY <1>1 DEF IInv, ObjectsInv, RetainedInv, WitnessInv, ValidLedger
<1>3. ASSUME NEW q \in Procs PROVE ProcInv(q)'
  BY <1>1 DEF IInv, ProcInv, CopyInv, IdentityInv, BootstrapInv, ClearedInv, Evidence,
     Ledger, Own, Retained, Held
<1> QED
  BY <1>2, <1>3 DEF IInv

\* The syncer creates, the reconciler realises, the syncer replaces.
LEMMA BindingsStep ==
  ASSUME IInv, NEW n \in Names, CreateBinding(n) \/ Realise(n) \/ ReplaceBinding(n)
  PROVE  IInv'
<1> USE DEF history
<1>1. CASE CreateBinding(n)
  <2> DEFINE b == [uid |-> made[n] + 1, owner |-> source[n], receipt |-> {},
                   realised |-> FALSE]
  <2>1. b \in BindingType /\ b.uid # 0
    BY DEF IInv, TypeOK, BindingType
  <2> HIDE DEF b
  <2>2. /\ binding' = [binding EXCEPT ![n] = b]
        /\ made' = [made EXCEPT ![n] = @ + 1]
        /\ binding[n].uid = 0
        /\ UNCHANGED <<ledger, identity, source, pc, view, err, history>>
    BY <1>1 DEF CreateBinding, b
  <2>3. TypeOK'
    BY <2>1, <2>2 DEF IInv, TypeOK
  <2>4. binding'[n] = b /\ \A m \in Names \ {n} : binding'[m] = binding[m]
    BY <2>2 DEF IInv, TypeOK
  <2>5. binding[n].receipt = {}
    BY <2>2 DEF IInv, ObjectsInv, NoBinding
  <2>6. \A m \in Names : binding'[m].uid = 0 => binding'[m] = NoBinding
    BY <2>1, <2>4 DEF IInv, ObjectsInv
  <2>7. Unwitnessed => \E m \in Names : binding'[m].receipt # {}
    BY <2>4, <2>5 DEF IInv, WitnessInv
  <2> QED
    BY <2>2, <2>3, <2>6, <2>7, BindingStep
<1>2. CASE Realise(n)
  <2>1. /\ binding' = [binding EXCEPT ![n].realised = TRUE]
        /\ binding[n].uid # 0
        /\ UNCHANGED <<ledger, identity, made, source, pc, view, err, history>>
    BY <1>2 DEF Realise
  <2>2. binding' \in [Names -> BindingType]
    BY <2>1 DEF IInv, TypeOK, BindingType
  <2>3. TypeOK'
    BY <2>1, <2>2 DEF IInv, TypeOK
  <2>4. /\ binding'[n].uid = binding[n].uid
        /\ binding'[n].receipt = binding[n].receipt
        /\ \A m \in Names \ {n} : binding'[m] = binding[m]
    BY <2>1 DEF IInv, TypeOK, BindingType
  <2>5. \A m \in Names : binding'[m].uid = 0 => binding'[m] = NoBinding
    BY <2>1, <2>4 DEF IInv, ObjectsInv
  <2>6. Unwitnessed => \E m \in Names : binding'[m].receipt # {}
    BY <2>4 DEF IInv, WitnessInv
  <2> QED
    BY <2>1, <2>3, <2>5, <2>6, BindingStep
<1>3. CASE ReplaceBinding(n)
  <2>1. /\ binding' = [binding EXCEPT ![n] = NoBinding]
        /\ source' = [source EXCEPT ![n] = @ + 1]
        /\ UNCHANGED <<ledger, identity, made, pc, view, err, history>>
        /\ Witnessed
    BY <1>3 DEF ReplaceBinding
  <2>2. TypeOK'
    BY <2>1, Blank DEF IInv, TypeOK
  <2>3. \A m \in Names : binding'[m].uid = 0 => binding'[m] = NoBinding
    BY <2>1 DEF IInv, TypeOK, ObjectsInv
  <2>4. Unwitnessed => \E m \in Names : binding'[m].receipt # {}
    BY <2>1 DEF Witnessed, Unwitnessed
  <2> QED
    BY <2>1, <2>2, <2>3, <2>4, BindingStep
<1> QED
  BY <1>1, <1>2, <1>3

\* A destroyed ledger: the identity remembers it, or nobody is in a call and the
\* receipts do.
LEMMA LoseLedgerStep ==
  ASSUME IInv, LoseLedger
  PROVE  IInv'
<1>1. /\ ledger' = [live |-> FALSE, uid |-> ledger.uid, entries |-> {}]
      /\ losses' = losses + 1
      /\ damage' = damage \union {"ledger"}
      /\ Unwitnessed' => \A p \in Procs : pc[p] = "idle"
      /\ UNCHANGED <<identity, binding, made, source, pc, view, err, reserved,
                     exposed, aborts>>
      /\ Unwitnessed' => \E n \in Names : binding'[n].receipt # {}
  BY DEF LoseLedger, Lose, Witnessed, IInv, TypeOK, LedgerType
<1>2. TypeOK'
  BY <1>1 DEF IInv, TypeOK, LedgerType
<1>3. ObjectsInv' /\ RetainedInv' /\ WitnessInv'
  BY <1>1 DEF IInv, ObjectsInv, RetainedInv, WitnessInv, ValidLedger
<1>4. ASSUME NEW p \in Procs PROVE ProcInv(p)'
  <2>1. Unwitnessed' => view[p].identity = 0 /\ pc[p] = "idle"
    BY <1>1 DEF IInv, ProcInv, CopyInv, NoView
  <2>2. CopyInv(p)' /\ ClearedInv(p)'
    BY <1>1 DEF IInv, ProcInv, CopyInv, ClearedInv, Ledger, Own, Retained, Held
  <2>3. IdentityInv(p)' /\ BootstrapInv(p)'
    BY <1>1, <2>1 DEF IInv, ProcInv, IdentityInv, BootstrapInv, Evidence, Listed
  <2> QED
    BY <2>2, <2>3 DEF ProcInv
<1> QED
  BY <1>2, <1>3, <1>4 DEF IInv

\* A destroyed identity: the ledger still has everything, or nobody is in a
\* call and the receipts remain.
LEMMA LoseIdentityStep ==
  ASSUME IInv, LoseIdentity
  PROVE  IInv'
<1>1. /\ identity' = 0
      /\ losses' = losses + 1
      /\ damage' = damage \union {"identity"}
      /\ Unwitnessed' => \A p \in Procs : pc[p] = "idle"
      /\ UNCHANGED <<ledger, binding, made, source, pc, view, err, reserved,
                     exposed, aborts>>
      /\ Unwitnessed' => \E n \in Names : binding'[n].receipt # {}
  BY DEF LoseIdentity, Lose, Witnessed
<1>2. TypeOK'
  BY <1>1 DEF IInv, TypeOK
<1>3. ObjectsInv' /\ RetainedInv' /\ WitnessInv'
  BY <1>1 DEF IInv, TypeOK, LedgerType, ObjectsInv, RetainedInv, WitnessInv, ValidLedger
<1>4. ASSUME NEW p \in Procs PROVE ProcInv(p)'
  <2>1. Unwitnessed' => view[p].identity = 0 /\ pc[p] = "idle"
    BY <1>1 DEF IInv, ProcInv, CopyInv, NoView
  <2>2. CopyInv(p)' /\ ClearedInv(p)'
    BY <1>1 DEF IInv, ProcInv, CopyInv, ClearedInv, Ledger, Own, Retained, Held
  <2>3. IdentityInv(p)' /\ BootstrapInv(p)'
    BY <1>1, <2>1 DEF IInv, ProcInv, IdentityInv, BootstrapInv, Evidence, Listed
  <2> QED
    BY <2>2, <2>3 DEF ProcInv
<1> QED
  BY <1>2, <1>3, <1>4 DEF IInv

\* A destroyed binding.
LEMMA LoseBindingStep ==
  ASSUME IInv, NEW n \in Names, LoseBinding(n)
  PROVE  IInv'
<1>1. /\ binding' = [binding EXCEPT ![n] = NoBinding]
      /\ losses' = losses + 1
      /\ damage' = damage \union {"binding"}
      /\ UNCHANGED <<ledger, identity, made, source, pc, view, err, reserved,
                     exposed, aborts>>
      /\ Witnessed
  BY DEF LoseBinding, Lose
<1>2. TypeOK'
  BY <1>1, Blank DEF IInv, TypeOK
<1>3. \A m \in Names : binding'[m].uid = 0 => binding'[m] = NoBinding
  BY <1>1 DEF IInv, TypeOK, ObjectsInv
<1>4. Unwitnessed => \E m \in Names : binding'[m].receipt # {}
  BY <1>1 DEF Witnessed, Unwitnessed
<1> QED
  BY <1>1, <1>2, <1>3, <1>4, BindingStep

-----------------------------------------------------------------------------
(* The theorems.                                                           *)

\* Every step of a process, of the syncer or of the environment preserves the
\* inductive invariant.
LEMMA NextInv == IInv /\ [Next]_vars => IInv'
<1> SUFFICES ASSUME IInv, [Next]_vars PROVE IInv'
  OBVIOUS
<1>1. ASSUME NEW p \in Procs, Step(p) PROVE IInv'
  BY <1>1, BeginStep, ListStep, GetIdentityStep, GetLedgerStep, CreateLedgerStep,
     CheckStep, CreateIdentityStep, ReserveStep, WriteReceiptStep, ReturnStep DEF Step
<1>2. CASE Bindings
  BY <1>2, BindingsStep DEF Bindings
<1>3. CASE Environment
  BY <1>3, AbortStep, LoseLedgerStep, LoseIdentityStep, LoseBindingStep DEF Environment
<1>4. CASE UNCHANGED vars
  BY <1>4 DEF vars, IInv, TypeOK, ObjectsInv, RetainedInv, WitnessInv, Unwitnessed,
     ValidLedger, ProcInv, CopyInv, IdentityInv, BootstrapInv, ClearedInv, Evidence,
     Ledger, Own, Retained, Held
<1> QED
  BY <1>1, <1>2, <1>3, <1>4 DEF Next

\* The inductive invariant of allocate holds in every reachable state.
THEOREM Invariant == Spec => []IInv
  BY InitInv, NextInv, PTL DEF Spec

\* Type correctness: the ledger only ever holds addresses of the site's pools.
THEOREM TypeCorrect == Spec => []TypeOK
<1>1. IInv => TypeOK
  BY DEF IInv
<1> QED
  BY <1>1, Invariant, PTL

\* No address of a pool is ever handed to two source bindings or to two
\* incarnations of a local binding, and none gets two (allocation.go:31).
THEOREM NeverShared == Spec => []Exclusive
<1>1. IInv => Exclusive
  BY DEF IInv, ObjectsInv, ValidLedger, Exclusive
<1> QED
  BY <1>1, Invariant, PTL
-----------------------------------------------------------------------------
(* What is handed out is on record, and an undamaged site raises no alarm. *)

\* A binding as somebody read it at some time: its receipt is of a reservation
\* for it in a ledger, a realised one was reserved something, and unless a
\* binding was destroyed the n-th local binding is for the n-th source binding.
Genuine(b, n) ==
    /\ b.uid <= made[n]
    /\ \A r \in b.receipt :
          /\ r.entry \in reserved
          /\ r.entry.name = n
          /\ r.entry.owner = b.owner
          /\ r.entry.uid = b.uid
          /\ r.ledger # 0
          /\ r.ledger <= ledger.uid
    /\ b.realised => reserved # {}
    /\ "binding" \notin damage => b.owner = b.uid

\* The stored bindings; the syncer makes one per source binding.
BindingsInv ==
    /\ \A n \in Names : Genuine(binding[n], n)
    /\ "binding" \notin damage =>
          \A n \in Names : IF binding[n].uid = 0 THEN source[n] = made[n] + 1
                           ELSE source[n] = made[n] /\ binding[n].uid = made[n]

\* Reservations are for bindings that were made, and nothing is handed to the
\* present incarnation of a binding without a receipt.
RecordedInv ==
    /\ \A e \in reserved : /\ e.uid # 0
                           /\ e.uid <= made[e.name]
                           /\ "binding" \notin damage => e.owner = e.uid
    /\ \A e \in exposed :
          e.uid = binding[e.name].uid => binding[e.name].receipt # {}

\* Without a loss there is at most one ledger, and it stays.
FirstLedgerInv ==
    "ledger" \notin damage => ledger.uid <= 1 /\ (ledger.uid # 0 => ledger.live)

\* The reservations of b's receipt are in the ledger the process has read.
Covered(b, p) == \A r \in b.receipt : r.entry \in Ledger(p).entries

\* The caller's copy of its binding: a receipt on it is still there while the
\* incarnation is, and it has one exactly when the addresses are handed out.
OwnInv(p, n) ==
    /\ view[p].name = {n}
    /\ Genuine(Own(p), n)
    /\ Own(p).uid = binding[n].uid /\ Own(p).receipt # {} => binding[n].receipt # {}
    /\ pc[p] \in {"reserve", "receipt"} => Own(p).receipt = {}
    /\ pc[p] = "return" => Own(p).receipt # {}
    /\ "ledger" \notin damage /\ pc[p] \in Reading => Covered(Own(p), p)

\* The list was read before the ledger, so the ledger has what the list shows.
CallInv(p) ==
    /\ \A n \in Names : Genuine(view[p].list[n], n)
    /\ \A n \in view[p].name : OwnInv(p, n)
    /\ "ledger" \notin damage /\ pc[p] \in Reading =>
          \A n \in Names : Covered(view[p].list[n], p)

\* No call ends with an alarm; a missing identity is not one.
Unalarmed == damage = {} => \A p \in Procs : err[p] \notin Alarms

\* The second inductive invariant, on top of the first.
RInv == /\ BindingsInv /\ RecordedInv /\ FirstLedgerInv /\ Unalarmed
        /\ \A p \in Procs : CallInv(p)

\* How the objects may change: reservations, ledgers, losses and incarnations
\* only add up; a binding goes, is a new incarnation, or keeps its receipt.
Forward ==
    /\ reserved \subseteq reserved'
    /\ ledger.uid <= ledger'.uid
    /\ damage \subseteq damage'
    /\ \A n \in Names : made[n] <= made'[n]
    /\ \A n \in Names :
          \/ binding'[n].uid \in {0, made[n] + 1}
          \/ /\ binding'[n].uid = binding[n].uid
             /\ binding[n].receipt # {} => binding'[n].receipt # {}

\* What was read of a binding stays genuine.
LEMMA GenuineKept ==
  ASSUME IInv, IInv', Forward, NEW n \in Names, NEW b \in BindingType, Genuine(b, n)
  PROVE  Genuine(b, n)'
<1>1. /\ b.uid \in Nat /\ made[n] \in Nat /\ made'[n] \in Nat
      /\ ledger.uid \in Nat /\ ledger'.uid \in Nat
      /\ \A r \in b.receipt : r.ledger \in Nat
  BY DEF IInv, TypeOK, LedgerType, BindingType, Receipt
<1>2. b.uid <= made'[n]
  BY <1>1 DEF Forward, Genuine
<1>3. \A r \in b.receipt : r.entry \in reserved' /\ r.ledger <= ledger'.uid
  BY <1>1 DEF Forward, Genuine
<1> QED
  BY <1>2, <1>3 DEF Forward, Genuine

\* So does all that a process in a call relies on.
LEMMA CallKept ==
  ASSUME IInv, IInv', RInv, Forward, NEW q \in Procs,
         view'[q] = view[q], pc'[q] = pc[q]
  PROVE  CallInv(q)'
<1>1. view[q] \in ViewType /\ CallInv(q)
  BY DEF IInv, TypeOK, RInv
<1>2. ASSUME NEW n \in Names PROVE Genuine(view[q].list[n], n)'
  <2>1. PICK b \in BindingType : b = view[q].list[n]
    BY <1>1 DEF ViewType
  <2>2. Genuine(b, n)'
    BY <1>1, <2>1, GenuineKept DEF CallInv
  <2> QED
    BY <2>1, <2>2
<1>3. ASSUME NEW n \in view[q].name PROVE OwnInv(q, n)'
  <2>1. n \in Names /\ OwnInv(q, n)
    BY <1>1 DEF CallInv, ViewType
  <2>2. PICK b \in BindingType : b = Own(q)
    BY <1>1 DEF ViewType, Own
  <2>3. Genuine(b, n)' /\ Own(q)' = b
    BY <2>1, <2>2, GenuineKept DEF OwnInv, Own
  <2>4. Genuine(Own(q), n)'
    BY <2>3
  <2>5. b.uid # 0 /\ b.uid <= made[n] /\ b.uid \in Nat /\ made[n] \in Nat
    <3>1. pc[q] # "idle"
      BY <1>3 DEF IInv, ProcInv, CopyInv, NoView
    <3> QED
      BY <2>1, <2>2, <3>1 DEF IInv, TypeOK, BindingType, ProcInv, CopyInv, OwnInv, Own,
         Genuine
  <2>6. b.uid = binding'[n].uid /\ b.receipt # {} => binding'[n].receipt # {}
    BY <2>1, <2>2, <2>5 DEF Forward, OwnInv
  <2>7. "ledger" \notin damage' /\ pc'[q] \in Reading => Covered(Own(q), q)'
    BY <2>1 DEF Forward, OwnInv, Covered, Own, Ledger
  <2> QED
    BY <2>1, <2>2, <2>3, <2>4, <2>6, <2>7 DEF OwnInv
<1>4. "ledger" \notin damage' /\ pc'[q] \in Reading =>
         \A n \in Names : Covered(view[q].list[n], q)'
  BY <1>1 DEF Forward, CallInv, Covered, Ledger
<1> QED
  BY <1>2, <1>3, <1>4 DEF CallInv

\* A step of p that changes no object: the reads and checks of allocate.
LEMMA QuietStep ==
  ASSUME IInv, IInv', RInv, NEW p \in Procs, Others(p),
         UNCHANGED <<stored, reserved, damage>>,
         \A e \in exposed' :
            e.uid = binding[e.name].uid => binding[e.name].receipt # {},
         Unalarmed', CallInv(p)'
  PROVE  RInv'
<1>1. Forward
  BY DEF IInv, TypeOK, LedgerType, BindingType, Forward, stored
<1>2. \A q \in Procs : CallInv(q)'
  BY <1>1, CallKept DEF Others
<1>3. BindingsInv'
  BY DEF RInv, BindingsInv, Genuine, stored
<1>4. RecordedInv' /\ FirstLedgerInv'
  BY DEF RInv, RecordedInv, FirstLedgerInv, stored
<1> QED
  BY <1>2, <1>3, <1>4 DEF RInv

\* However a call ends, without an alarm if nothing was destroyed.
LEMMA QuietLeave ==
  ASSUME IInv, IInv', RInv, NEW p \in Procs, NEW why, Leave(p, why),
         UNCHANGED <<stored, reserved, damage>>,
         damage = {} => why \notin Alarms,
         \A e \in exposed' :
            e.uid = binding[e.name].uid => binding[e.name].receipt # {}
  PROVE  RInv'
<1>1. Others(p)
  BY DEF IInv, TypeOK, Leave, Others
<1>2. Unalarmed'
  BY DEF IInv, TypeOK, RInv, Leave, Unalarmed, Alarms
<1>3. view'[p] = NoView /\ pc'[p] = "idle"
  BY DEF IInv, TypeOK, Leave
<1>4. NoView.name = {} /\ \A n \in Names : NoView.list[n] = NoBinding
  BY DEF NoView, NoList
<1>5. ASSUME NEW n \in Names PROVE Genuine(NoBinding, n)'
  BY DEF IInv, TypeOK, Genuine, NoBinding
<1>6. CallInv(p)'
  BY <1>3, <1>4, <1>5 DEF CallInv, Reading
<1> QED
  BY <1>1, <1>2, <1>6, QuietStep

\* A call that ends with an error.
LEMMA QuietFail ==
  ASSUME IInv, IInv', RInv, NEW p \in Procs, NEW why, Fail(p, why),
         damage = {} => why \notin Alarms
  PROVE  RInv'
  BY QuietLeave DEF Fail, history, RInv, RecordedInv

-----------------------------------------------------------------------------
(* No false alarm.                                                         *)

\* Who finds no ledger has seen no identity and no evidence: there was none.
LEMMA NeverMissing ==
  ASSUME IInv, RInv, NEW p \in Procs, ~ledger.live, damage = {}
  PROVE  view[p].identity = 0 /\ ~Evidence(view[p].list)
<1>1. ledger.uid = 0 /\ reserved = {}
  BY DEF IInv, ObjectsInv, RetainedInv, RInv, FirstLedgerInv
<1>2. view[p].identity = 0
  BY <1>1 DEF IInv, TypeOK, ViewType, ProcInv, CopyInv
<1>3. ASSUME NEW n \in Names PROVE ~view[p].list[n].realised /\ view[p].list[n].receipt = {}
  BY <1>1 DEF RInv, CallInv, Genuine
<1> QED
  BY <1>2, <1>3 DEF Evidence

\* Every receipt a process has seen is of the ledger it has read.
LEMMA ReceiptsFit ==
  ASSUME IInv, RInv, NEW p \in Procs, pc[p] \in Reading, damage = {},
         NEW n \in Names, NEW b \in BindingType, Genuine(b, n), Covered(b, p)
  PROVE  ReceiptMatches(b, n, Ledger(p))
<1>1. Ledger(p).uid \in Nat /\ Ledger(p).uid # 0 /\ Ledger(p).uid <= ledger.uid
  BY DEF IInv, TypeOK, ViewType, LedgerType, ProcInv, CopyInv, Ledger
<1>2. ledger.uid \in Nat /\ ledger.uid <= 1
  BY DEF IInv, TypeOK, LedgerType, RInv, FirstLedgerInv
<1>3. ASSUME NEW r \in b.receipt PROVE r.ledger = Ledger(p).uid
  <2>1. r.ledger \in Nat /\ r.ledger # 0 /\ r.ledger <= ledger.uid
    BY DEF BindingType, Receipt, Genuine
  <2> QED
    BY <1>1, <1>2, <2>1
<1> QED
  BY <1>3 DEF ReceiptMatches, Genuine, Covered

\* The checks of allocate pass, or fail for want of an identity or an address.
LEMMA NoAlarm ==
  ASSUME IInv, RInv, NEW p \in Procs, pc[p] = "check", damage = {}
  PROVE  Diagnosis(p) \notin Alarms
<1>0. view[p] \in ViewType /\ CallInv(p) /\ pc[p] \in Reading
  BY DEF IInv, TypeOK, RInv, Reading
<1>1. ValidLedger(Ledger(p).entries)
  BY DEF IInv, ObjectsInv, ProcInv, CopyInv, ValidLedger
<1>2. view[p].identity # 0 => view[p].identity = Ledger(p).uid
  <2>1. /\ Ledger(p).uid \in Nat /\ Ledger(p).uid # 0 /\ Ledger(p).uid <= ledger.uid
        /\ view[p].identity \in Nat /\ view[p].identity <= ledger.uid
    BY <1>0 DEF IInv, TypeOK, ViewType, LedgerType, ProcInv, CopyInv, Ledger
  <2>2. ledger.uid \in Nat /\ ledger.uid <= 1
    BY DEF IInv, TypeOK, LedgerType, RInv, FirstLedgerInv
  <2> QED
    BY <2>1, <2>2
<1>3. ReceiptsMatch(p)
  <2>1. ASSUME NEW n \in Names PROVE ReceiptMatches(view[p].list[n], n, Ledger(p))
    BY <1>0, ReceiptsFit DEF CallInv, ViewType
  <2>2. ASSUME NEW n \in view[p].name PROVE ReceiptMatches(Own(p), n, Ledger(p))
    BY <1>0, ReceiptsFit DEF CallInv, OwnInv, ViewType, Own
  <2> QED
    BY <2>1, <2>2 DEF ReceiptsMatch
<1>4. ASSUME NEW e \in Ledger(p).entries, e.name \in view[p].name
      PROVE  e.owner = e.uid /\ Own(p).owner = Own(p).uid
  BY <1>0, <1>4 DEF IInv, ProcInv, CopyInv, RInv, RecordedInv, CallInv, OwnInv, Genuine
<1>5. \A e \in Retained(p) : e.uid = Own(p).uid
  BY <1>4 DEF Retained
<1>6. Held(p) \subseteq Retained(p)
  BY <1>4 DEF Held, Retained
<1>7. Diagnosis(p) \in {"none", "identityMissing", "exhausted"}
  BY <1>1, <1>2, <1>3, <1>5, <1>6 DEF Diagnosis
<1> QED
  BY <1>7 DEF Alarms

-----------------------------------------------------------------------------
(* The steps of a call preserve the second invariant.                      *)

\* The reads: the caller's binding, the list, the identity.
LEMMA BeginQuiet ==
  ASSUME IInv, IInv', RInv, NEW p \in Procs, NEW n \in Names, Begin(p, n)
  PROVE  RInv'
<1> DEFINE v == [name |-> {n}, own |-> binding[n], list |-> NoList, identity |-> 0,
                ledger |-> NoLedger]
<1>1. v.name = {n} /\ v.own = binding[n] /\ v.list = NoList
  OBVIOUS
<1> HIDE DEF v
<1>2. /\ view' = [view EXCEPT ![p] = v]
      /\ pc' = [pc EXCEPT ![p] = "list"]
      /\ UNCHANGED <<stored, history, err>>
  BY DEF Begin, Goto, v
<1>3. Others(p) /\ view'[p] = v /\ pc'[p] = "list"
  BY <1>2 DEF IInv, TypeOK, Others
<1>4. PICK b \in BindingType : b = binding[n]
  BY DEF IInv, TypeOK
<1>5. Genuine(b, n)'
  BY <1>2, <1>4 DEF RInv, BindingsInv, Genuine, stored, history
<1>6. OwnInv(p, n)'
  BY <1>1, <1>2, <1>3, <1>4, <1>5 DEF OwnInv, Own, Reading, stored
<1>7. ASSUME NEW m \in Names PROVE Genuine(NoBinding, m)'
  BY DEF IInv, TypeOK, Genuine, NoBinding
<1>8. \A m \in Names : v.list[m] = NoBinding
  BY <1>1 DEF NoList
<1>9. CallInv(p)'
  BY <1>1, <1>3, <1>6, <1>7, <1>8 DEF CallInv, Reading
<1> QED
  BY <1>2, <1>3, <1>9, QuietStep DEF stored, history, RInv, RecordedInv, Unalarmed

\* A step of p that only moves on keeps its copy of the caller's binding.
LEMMA OwnKept ==
  ASSUME IInv, IInv', RInv, NEW p \in Procs, NEW n \in view[p].name, Forward,
         view'[p].name = view[p].name, view'[p].own = view[p].own,
         pc[p] # "idle",
         pc'[p] \in {"reserve", "receipt"} => Own(p).receipt = {},
         pc'[p] = "return" => Own(p).receipt # {},
         "ledger" \notin damage' /\ pc'[p] \in Reading =>
            \A r \in Own(p).receipt : r.entry \in view'[p].ledger.entries
  PROVE  OwnInv(p, n)'
<1>1. view[p] \in ViewType /\ OwnInv(p, n) /\ n \in Names
  BY DEF IInv, TypeOK, RInv, CallInv, ViewType
<1>2. PICK b \in BindingType : b = Own(p)
  BY <1>1 DEF ViewType, Own
<1>3. Genuine(b, n)' /\ Own(p)' = b
  BY <1>1, <1>2, GenuineKept DEF OwnInv, Own
<1>4. Genuine(Own(p), n)'
  BY <1>3
<1>5. b.uid # 0 /\ b.uid <= made[n] /\ b.uid \in Nat /\ made[n] \in Nat
  BY <1>1, <1>2 DEF IInv, TypeOK, BindingType, ProcInv, CopyInv, OwnInv, Own, Genuine
<1>6. b.uid = binding'[n].uid /\ b.receipt # {} => binding'[n].receipt # {}
  BY <1>1, <1>2, <1>5 DEF Forward, OwnInv
<1>7. "ledger" \notin damage' /\ pc'[p] \in Reading => Covered(Own(p), p)'
  BY <1>2, <1>3 DEF Covered, Ledger
<1> QED
  BY <1>1, <1>2, <1>3, <1>4, <1>6, <1>7 DEF OwnInv

\* And its list.
LEMMA ListKept ==
  ASSUME IInv, IInv', RInv, NEW p \in Procs, Forward, view'[p].list = view[p].list
  PROVE  \A n \in Names : Genuine(view[p].list[n], n)'
<1> SUFFICES ASSUME NEW n \in Names PROVE Genuine(view[p].list[n], n)'
  OBVIOUS
<1>1. PICK b \in BindingType : b = view[p].list[n]
  BY DEF IInv, TypeOK, ViewType
<1>2. Genuine(b, n)'
  BY <1>1, GenuineKept DEF RInv, CallInv
<1> QED
  BY <1>1, <1>2

\* Unchanged objects are the simplest way forward.
LEMMA StillForward ==
  ASSUME IInv, UNCHANGED <<stored, reserved, damage>>
  PROVE  Forward
  BY DEF IInv, TypeOK, LedgerType, BindingType, Forward, stored

\* The list is of the stored bindings.
LEMMA ListQuiet ==
  ASSUME IInv, IInv', RInv, NEW p \in Procs, ListBindings(p)
  PROVE  RInv'
<1>1. CASE Fail(p, "bindingMissing")
  BY <1>1, QuietFail DEF Alarms
<1>2. CASE /\ view' = [view EXCEPT ![p].list = binding]
           /\ Goto(p, "identity")
           /\ UNCHANGED <<stored, history>>
  <2>1. Others(p)
    BY <1>2 DEF IInv, TypeOK, ViewType, Others, Goto
  <2>2. /\ view'[p].list = binding
        /\ view'[p].own = view[p].own
        /\ view'[p].name = view[p].name
        /\ pc'[p] = "identity" /\ pc[p] = "list"
    BY <1>2 DEF IInv, TypeOK, ViewType, Goto, ListBindings
  <2>3. Forward
    BY <1>2, StillForward DEF history
  <2>4. ASSUME NEW n \in view[p].name PROVE OwnInv(p, n)'
    BY <2>2, <2>3, OwnKept DEF Reading
  <2>5. ASSUME NEW n \in Names PROVE Genuine(view[p].list[n], n)'
    BY <1>2, <2>2 DEF RInv, BindingsInv, Genuine, stored, history
  <2>6. CallInv(p)'
    BY <2>2, <2>4, <2>5 DEF CallInv, Reading
  <2> QED
    BY <1>2, <2>1, <2>6, QuietStep DEF stored, history, Goto, RInv, RecordedInv, Unalarmed
<1> QED
  BY <1>1, <1>2 DEF ListBindings

\* The identity says nothing about bindings or ledgers.
LEMMA GetIdentityQuiet ==
  ASSUME IInv, IInv', RInv, NEW p \in Procs, GetIdentity(p)
  PROVE  RInv'
<1> USE DEF GetIdentity, Goto
<1>1. Others(p)
  BY DEF IInv, TypeOK, ViewType, Others
<1>2. /\ view'[p].list = view[p].list
      /\ view'[p].own = view[p].own
      /\ view'[p].name = view[p].name
      /\ pc'[p] = "ledger" /\ pc[p] = "identity"
  BY DEF IInv, TypeOK, ViewType
<1>3. Forward
  BY StillForward DEF history
<1>4. ASSUME NEW n \in view[p].name PROVE OwnInv(p, n)'
  BY <1>2, <1>3, OwnKept DEF Reading
<1>5. CallInv(p)'
  BY <1>2, <1>3, <1>4, ListKept DEF CallInv, Reading
<1> QED
  BY <1>1, <1>5, QuietStep DEF stored, history, RInv, RecordedInv, Unalarmed

\* A ledger that was never destroyed has every reservation anybody has seen.
LEMMA SeenCovered ==
  ASSUME IInv, RInv, NEW p \in Procs, "ledger" \notin damage
  PROVE  /\ \A n \in Names : \A r \in view[p].list[n].receipt : r.entry \in ledger.entries
         /\ \A n \in view[p].name : \A r \in Own(p).receipt : r.entry \in ledger.entries
  BY DEF IInv, RetainedInv, RInv, CallInv, OwnInv, Genuine

\* The ledger is read after the bindings, so it covers their receipts.
LEMMA GetLedgerQuiet ==
  ASSUME IInv, IInv', RInv, NEW p \in Procs, GetLedger(p)
  PROVE  RInv'
<1>1. CASE ledger.live
  <2>1. /\ view' = [view EXCEPT ![p].ledger = ledger]
        /\ pc[p] = "ledger"
        /\ pc' = [pc EXCEPT ![p] = "check"]
        /\ UNCHANGED <<stored, history, err>>
    BY <1>1 DEF GetLedger, Goto
  <2>2. Others(p)
    BY <2>1 DEF IInv, TypeOK, ViewType, Others
  <2>3. /\ view'[p].list = view[p].list
        /\ view'[p].own = view[p].own
        /\ view'[p].name = view[p].name
        /\ view'[p].ledger = ledger
        /\ pc'[p] = "check"
    BY <2>1 DEF IInv, TypeOK, ViewType
  <2>4. Forward
    BY <2>1, StillForward DEF history
  <2>5. ASSUME NEW n \in view[p].name PROVE OwnInv(p, n)'
    BY <2>1, <2>3, <2>4, OwnKept, SeenCovered DEF history
  <2>6. "ledger" \notin damage' => \A n \in Names : Covered(view[p].list[n], p)'
    BY <2>1, <2>3, SeenCovered DEF Covered, Ledger, history
  <2>7. CallInv(p)'
    BY <2>3, <2>4, <2>5, <2>6, ListKept DEF CallInv
  <2> QED
    BY <2>1, <2>2, <2>7, QuietStep DEF stored, history, RInv, RecordedInv, Unalarmed
<1>2. CASE ~ledger.live /\ (view[p].identity # 0 \/ Evidence(view[p].list))
  <2>1. damage # {}
    BY <1>2, NeverMissing
  <2> QED
    BY <1>2, <2>1, QuietFail DEF GetLedger
<1>3. CASE ~ledger.live /\ ~(view[p].identity # 0 \/ Evidence(view[p].list))
  <2>1. /\ pc[p] = "ledger"
        /\ pc' = [pc EXCEPT ![p] = "createLedger"]
        /\ UNCHANGED <<stored, history, err, view>>
    BY <1>3 DEF GetLedger, Goto
  <2>2. Others(p) /\ pc'[p] = "createLedger"
    BY <2>1 DEF IInv, TypeOK, Others
  <2>3. Forward
    BY <2>1, StillForward DEF history
  <2>4. ASSUME NEW n \in view[p].name PROVE OwnInv(p, n)'
    BY <2>1, <2>2, <2>3, OwnKept DEF Reading
  <2>5. CallInv(p)'
    BY <2>1, <2>2, <2>3, <2>4, ListKept DEF CallInv, Reading
  <2> QED
    BY <2>1, <2>2, <2>5, QuietStep DEF stored, history, RInv, RecordedInv, Unalarmed
<1> QED
  BY <1>1, <1>2, <1>3

\* Only a process whose copy has no receipt goes on to write one.
LEMMA CheckQuiet ==
  ASSUME IInv, IInv', RInv, NEW p \in Procs, Check(p)
  PROVE  RInv'
<1>1. CASE Diagnosis(p) # "none"
  <2>1. damage = {} => Diagnosis(p) \notin Alarms
    BY NoAlarm DEF Check
  <2> QED
    BY <1>1, <2>1, QuietFail DEF Check
<1>2. CASE Diagnosis(p) = "none"
  <2> DEFINE l == IF view[p].identity = 0 THEN "createIdentity"
                  ELSE IF Retained(p) = {} THEN "reserve"
                  ELSE IF Own(p).receipt = {} THEN "receipt"
                  ELSE "return"
  <2>1. /\ pc[p] = "check"
        /\ pc' = [pc EXCEPT ![p] = l]
        /\ UNCHANGED <<stored, history, err, view>>
    BY <1>2 DEF Check, Goto
  <2>2. l = "reserve" => ReceiptsMatch(p) /\ Retained(p) = {}
    BY <1>2 DEF Diagnosis
  <2>3. l = "receipt" => Own(p).receipt = {}
    OBVIOUS
  <2>4. l = "return" => Own(p).receipt # {}
    OBVIOUS
  <2> HIDE DEF l
  <2>5. Others(p) /\ pc'[p] = l
    BY <2>1 DEF IInv, TypeOK, Others
  <2>6. Forward
    BY <2>1, StillForward DEF history
  <2>7. view[p] \in ViewType /\ CallInv(p) /\ pc[p] \in Reading
    BY <2>1 DEF IInv, TypeOK, RInv, Reading
  <2>8. ASSUME NEW n \in view[p].name PROVE OwnInv(p, n)'
    <3>1. l = "reserve" => Own(p).receipt = {}
      BY <2>2, <2>7 DEF ReceiptsMatch, ReceiptMatches, Retained, ViewType
    <3>2. "ledger" \notin damage => Covered(Own(p), p)
      BY <2>7 DEF CallInv, OwnInv
    <3> QED
      BY <2>1, <2>3, <2>4, <2>5, <2>6, <3>1, <3>2, OwnKept DEF Covered, Ledger, history
  <2>9. "ledger" \notin damage' => \A n \in Names : Covered(view[p].list[n], p)'
    BY <2>1, <2>7 DEF CallInv, Covered, Ledger, history
  <2>10. CallInv(p)'
    BY <2>1, <2>5, <2>6, <2>8, <2>9, ListKept DEF CallInv
  <2> QED
    BY <2>1, <2>5, <2>10, QuietStep DEF stored, history, RInv, RecordedInv, Unalarmed
<1> QED
  BY <1>1, <1>2

\* The addresses are handed out with a receipt in place.
LEMMA ReturnQuiet ==
  ASSUME IInv, IInv', RInv, NEW p \in Procs, Return(p)
  PROVE  RInv'
<1>1. ASSUME NEW e \in exposed', e.uid = binding[e.name].uid
      PROVE  binding[e.name].receipt # {}
  <2>1. CASE e \in exposed
    BY <1>1, <2>1 DEF RInv, RecordedInv
  <2>2. CASE e \notin exposed
    <3>1. PICK f \in Retained(p) : e = [f EXCEPT !.uid = Own(p).uid]
      BY <2>2 DEF Return
    <3>2. f \in Entry /\ f.name \in view[p].name
      BY DEF IInv, TypeOK, ProcInv, CopyInv, Retained
    <3>3. e.name = f.name /\ e.uid = Own(p).uid
      BY <3>1, <3>2 DEF Entry
    <3>4. OwnInv(p, e.name)
      BY <3>2, <3>3 DEF RInv, CallInv
    <3> QED
      BY <1>1, <3>3, <3>4 DEF OwnInv, Return
  <2> QED
    BY <2>1, <2>2
<1> QED
  BY <1>1, QuietLeave DEF Return, Alarms

\* A crash or a failed call.
LEMMA AbortQuiet ==
  ASSUME IInv, IInv', RInv, NEW p \in Procs, Abort(p)
  PROVE  RInv'
  BY QuietLeave DEF Abort, Alarms, RInv, RecordedInv

\* A binding that a step leaves alone stays genuine.
LEMMA BindingKept ==
  ASSUME IInv, IInv', RInv, Forward, NEW n \in Names, binding'[n] = binding[n]
  PROVE  Genuine(binding[n], n)'
<1>1. PICK b \in BindingType : b = binding[n]
  BY DEF IInv, TypeOK
<1>2. Genuine(b, n)'
  BY <1>1, GenuineKept DEF RInv, BindingsInv
<1> QED
  BY <1>1, <1>2

\* A write of p that changes neither bindings nor histories.
LEMMA WriteStep ==
  ASSUME IInv, IInv', RInv, NEW p \in Procs, Others(p), Forward,
         UNCHANGED <<binding, made, source, err, history>>,
         FirstLedgerInv', CallInv(p)'
  PROVE  RInv'
<1>1. \A q \in Procs : CallInv(q)'
  BY CallKept DEF Others
<1>2. \A n \in Names : Genuine(binding[n], n)'
  BY BindingKept
<1>3. BindingsInv'
  BY <1>2 DEF RInv, BindingsInv, history
<1>4. RecordedInv' /\ Unalarmed'
  BY DEF RInv, RecordedInv, Unalarmed, history
<1> QED
  BY <1>1, <1>3, <1>4 DEF RInv

\* The first ledger is created before anything is reserved.
LEMMA CreateLedgerQuiet ==
  ASSUME IInv, IInv', RInv, NEW p \in Procs, CreateLedger(p)
  PROVE  RInv'
<1>1. CASE ledger.live
  BY <1>1, QuietFail DEF CreateLedger, Alarms
<1>2. CASE ~ledger.live
  <2>1. /\ ledger' = [live |-> TRUE, uid |-> ledger.uid + 1, entries |-> {}]
        /\ view' = [view EXCEPT ![p].ledger = ledger']
        /\ pc[p] = "createLedger"
        /\ pc' = [pc EXCEPT ![p] = "check"]
        /\ UNCHANGED <<identity, binding, made, source, history, err>>
    BY <1>2 DEF CreateLedger, Goto
  <2>2. ledger'.live /\ ledger'.uid = ledger.uid + 1 /\ ledger.uid \in Nat
    BY <2>1 DEF IInv, TypeOK, LedgerType
  <2>3. Others(p)
    BY <2>1 DEF IInv, TypeOK, ViewType, Others
  <2>4. /\ view'[p].list = view[p].list
        /\ view'[p].own = view[p].own
        /\ view'[p].name = view[p].name
        /\ view'[p].ledger = ledger'
        /\ pc'[p] = "check"
    BY <2>1 DEF IInv, TypeOK, ViewType
  <2>5. Forward
    BY <2>1, <2>2 DEF IInv, TypeOK, BindingType, Forward, history
  <2>6. FirstLedgerInv'
    BY <1>2, <2>1, <2>2 DEF RInv, FirstLedgerInv, history
  <2>7. ledger.entries = {}
    BY <1>2 DEF IInv, ObjectsInv
  <2>8. ASSUME NEW n \in view[p].name PROVE OwnInv(p, n)'
    BY <2>1, <2>4, <2>5, <2>7, OwnKept, SeenCovered DEF history
  <2>9. "ledger" \notin damage' => \A n \in Names : Covered(view[p].list[n], p)'
    BY <2>1, <2>4, <2>7, SeenCovered DEF Covered, Ledger, history
  <2>10. CallInv(p)'
    BY <2>4, <2>5, <2>8, <2>9, ListKept DEF CallInv
  <2> QED
    BY <2>1, <2>3, <2>5, <2>6, <2>10, WriteStep
<1> QED
  BY <1>1, <1>2

\* The identity is created for a ledger the process has read.
LEMMA CreateIdentityQuiet ==
  ASSUME IInv, IInv', RInv, NEW p \in Procs, CreateIdentity(p)
  PROVE  RInv'
<1>1. CASE identity # 0
  BY <1>1, QuietFail DEF CreateIdentity, Alarms
<1>2. CASE identity = 0
  <2>1. /\ view' = [view EXCEPT ![p].identity = Ledger(p).uid]
        /\ pc[p] = "createIdentity"
        /\ pc' = [pc EXCEPT ![p] = "check"]
        /\ UNCHANGED <<ledger, binding, made, source, history, err>>
    BY <1>2 DEF CreateIdentity, Goto
  <2>2. Others(p)
    BY <2>1 DEF IInv, TypeOK, ViewType, Others
  <2>3. /\ view'[p].list = view[p].list
        /\ view'[p].own = view[p].own
        /\ view'[p].name = view[p].name
        /\ view'[p].ledger = view[p].ledger
        /\ pc'[p] = "check"
    BY <2>1 DEF IInv, TypeOK, ViewType
  <2>4. Forward
    BY <2>1 DEF IInv, TypeOK, LedgerType, BindingType, Forward, history
  <2>5. FirstLedgerInv'
    BY <2>1 DEF RInv, FirstLedgerInv, history
  <2>6. view[p] \in ViewType /\ CallInv(p) /\ pc[p] \in Reading
    BY <2>1 DEF IInv, TypeOK, RInv, Reading
  <2>7. ASSUME NEW n \in view[p].name PROVE OwnInv(p, n)'
    <3>1. "ledger" \notin damage => Covered(Own(p), p)
      BY <2>6 DEF CallInv, OwnInv
    <3> QED
      BY <2>1, <2>3, <2>4, <3>1, OwnKept DEF Covered, Ledger, history
  <2>8. "ledger" \notin damage' => \A n \in Names : Covered(view[p].list[n], p)'
    BY <2>1, <2>3, <2>6 DEF CallInv, Covered, Ledger, history
  <2>9. CallInv(p)'
    BY <2>3, <2>4, <2>7, <2>8, ListKept DEF CallInv
  <2> QED
    BY <2>1, <2>2, <2>4, <2>5, <2>9, WriteStep
<1> QED
  BY <1>1, <1>2

\* A reservation is for the incarnation whose copy the caller has.
LEMMA ReserveQuiet ==
  ASSUME IInv, IInv', RInv, NEW p \in Procs, Reserve(p)
  PROVE  RInv'
<1>1. CASE ledger # Ledger(p)
  BY <1>1, QuietFail DEF Reserve, LedgerUnchanged, Alarms
<1>2. CASE ledger = Ledger(p)
  <2>1. PICK n \in view[p].name, t \in FreeTransits(p), s \in FreeSources(p) :
          LET e == [name |-> n, owner |-> Own(p).owner, uid |-> Own(p).uid,
                    transit |-> t, bfd |-> s]
          IN /\ ledger' = [ledger EXCEPT !.entries = Ledger(p).entries \union {e}]
             /\ reserved' = reserved \union {e}
             /\ view' = [view EXCEPT ![p].ledger = ledger']
             /\ pc' = [pc EXCEPT ![p] = "receipt"]
             /\ UNCHANGED <<identity, binding, made, source, err,
                            exposed, damage, aborts, losses>>
    BY <1>2 DEF Reserve, LedgerUnchanged, Goto
  <2> DEFINE e == [name |-> n, owner |-> Own(p).owner, uid |-> Own(p).uid,
                   transit |-> t, bfd |-> s]
  <2>2. e.name = n /\ e.owner = Own(p).owner /\ e.uid = Own(p).uid
    OBVIOUS
  <2> HIDE DEF e
  <2>3. /\ ledger' = [ledger EXCEPT !.entries = Ledger(p).entries \union {e}]
        /\ reserved' = reserved \union {e}
        /\ view' = [view EXCEPT ![p].ledger = ledger']
        /\ pc' = [pc EXCEPT ![p] = "receipt"]
        /\ UNCHANGED <<identity, binding, made, source, err,
                       exposed, damage, aborts, losses>>
    BY <2>1 DEF e
  <2>4. /\ ledger'.live = ledger.live /\ ledger'.uid = ledger.uid /\ ledger.uid \in Nat
        /\ ledger'.entries = Ledger(p).entries \union {e}
    BY <2>3 DEF IInv, TypeOK, LedgerType
  <2>5. Others(p)
    BY <2>3 DEF IInv, TypeOK, ViewType, Others
  <2>6. /\ view'[p].list = view[p].list
        /\ view'[p].own = view[p].own
        /\ view'[p].name = view[p].name
        /\ view'[p].ledger = ledger'
        /\ pc'[p] = "receipt" /\ pc[p] = "reserve"
    BY <2>3 DEF IInv, TypeOK, ViewType, Reserve
  <2>7. Forward
    BY <2>3, <2>4 DEF IInv, TypeOK, BindingType, Forward
  <2>8. view[p] \in ViewType /\ CallInv(p) /\ pc[p] \in Reading /\ OwnInv(p, n)
    BY <2>6 DEF IInv, TypeOK, RInv, CallInv, Reading
  <2>9. ASSUME NEW m \in view[p].name PROVE OwnInv(p, m)'
    <3>1. Own(p).receipt = {}
      BY <2>6, <2>8 DEF OwnInv
    <3> QED
      BY <2>6, <2>7, <3>1, OwnKept
  <2>10. "ledger" \notin damage' => \A m \in Names : Covered(view[p].list[m], p)'
    BY <2>3, <2>4, <2>6, <2>8 DEF CallInv, Covered, Ledger
  <2>11. CallInv(p)'
    BY <2>6, <2>7, <2>9, <2>10, ListKept DEF CallInv
  <2>12. \A q \in Procs : CallInv(q)'
    BY <2>5, <2>7, <2>11, CallKept DEF Others
  <2>13. BindingsInv'
    <3>1. \A m \in Names : Genuine(binding[m], m)'
      BY <2>3, <2>7, BindingKept
    <3> QED
      BY <2>3, <3>1 DEF RInv, BindingsInv
  <2>14. e.uid # 0 /\ e.uid <= made[e.name] /\ ("binding" \notin damage => e.owner = e.uid)
    BY <2>2, <2>6, <2>8 DEF IInv, ProcInv, CopyInv, OwnInv, Genuine, Own
  <2>15. RecordedInv'
    BY <2>3, <2>14 DEF RInv, RecordedInv
  <2>16. FirstLedgerInv' /\ Unalarmed'
    BY <2>3, <2>4 DEF RInv, FirstLedgerInv, Unalarmed
  <2> QED
    BY <2>12, <2>13, <2>15, <2>16 DEF RInv
<1> QED
  BY <1>1, <1>2

\* The receipt names the reservation of this binding.
LEMMA WriteReceiptQuiet ==
  ASSUME IInv, IInv', RInv, NEW p \in Procs, WriteReceipt(p)
  PROVE  RInv'
<1>1. PICK n \in view[p].name, e \in Retained(p) :
        IF binding[n] # Own(p)
        THEN Fail(p, "conflict")
        ELSE /\ binding' = [binding EXCEPT ![n].receipt =
                               {[entry |-> e, ledger |-> Ledger(p).uid]}]
             /\ view' = [view EXCEPT ![p].own = binding'[n]]
             /\ pc' = [pc EXCEPT ![p] = "return"]
             /\ UNCHANGED <<ledger, identity, made, source, history, err>>
  BY DEF WriteReceipt, Goto
<1>2. CASE binding[n] # Own(p)
  BY <1>1, <1>2, QuietFail DEF Alarms
<1>3. CASE binding[n] = Own(p)
  <2> DEFINE r == [entry |-> e, ledger |-> Ledger(p).uid]
  <2>1. r.entry = e /\ r.ledger = Ledger(p).uid
    OBVIOUS
  <2> HIDE DEF r
  <2>2. /\ binding' = [binding EXCEPT ![n].receipt = {r}]
        /\ view' = [view EXCEPT ![p].own = binding'[n]]
        /\ pc[p] = "receipt"
        /\ pc' = [pc EXCEPT ![p] = "return"]
        /\ UNCHANGED <<ledger, identity, made, source, history, err>>
    BY <1>1, <1>3 DEF WriteReceipt, r
  <2>3. /\ view[p] \in ViewType /\ n \in Names
        /\ CallInv(p) /\ OwnInv(p, n) /\ pc[p] \in Reading
    BY <2>2 DEF IInv, TypeOK, ViewType, RInv, CallInv, Reading
  <2>4. /\ binding'[n].receipt = {r}
        /\ binding'[n].uid = binding[n].uid
        /\ binding'[n].owner = binding[n].owner
        /\ binding'[n].realised = binding[n].realised
        /\ \A m \in Names \ {n} : binding'[m] = binding[m]
    BY <2>2, <2>3 DEF IInv, TypeOK, BindingType
  <2>5. Others(p)
    BY <2>2 DEF IInv, TypeOK, ViewType, Others
  <2>6. /\ view'[p].list = view[p].list
        /\ view'[p].ledger = view[p].ledger
        /\ view'[p].own = binding'[n]
        /\ view'[p].name = view[p].name
        /\ pc'[p] = "return"
    BY <2>2 DEF IInv, TypeOK, ViewType
  <2>7. Forward
    <3>1. \A m \in Names : /\ binding'[m].uid = binding[m].uid
                           /\ binding[m].receipt # {} => binding'[m].receipt # {}
      BY <2>4
    <3>2. ledger.uid \in Nat /\ \A m \in Names : made[m] \in Nat
      BY DEF IInv, TypeOK, LedgerType
    <3> QED
      BY <2>2, <3>1, <3>2 DEF Forward, history
  <2>8. /\ e \in reserved /\ e \in Ledger(p).entries /\ e.name = n
        /\ e.owner = binding[n].owner /\ e.uid = binding[n].uid
        /\ Ledger(p).uid # 0 /\ Ledger(p).uid <= ledger.uid
    BY <1>3, <2>2, <2>3 DEF IInv, ProcInv, CopyInv, ClearedInv, OwnInv, Retained, Reading
  <2>9. Genuine(binding[n], n)'
    BY <2>1, <2>2, <2>3, <2>4, <2>8 DEF RInv, BindingsInv, Genuine, history
  <2>10. \A m \in Names : Genuine(binding[m], m)'
    BY <2>4, <2>7, <2>9, BindingKept
  <2>11. BindingsInv'
    BY <2>2, <2>4, <2>10 DEF RInv, BindingsInv, history
  <2>12. RecordedInv'
    BY <2>2, <2>4 DEF IInv, TypeOK, Entry, RInv, RecordedInv, history
  <2>13. FirstLedgerInv' /\ Unalarmed'
    BY <2>2 DEF RInv, FirstLedgerInv, Unalarmed, history
  <2>14. Genuine(Own(p), n)'
    BY <2>6, <2>9 DEF Own
  <2>15. Covered(Own(p), p)'
    BY <2>1, <2>4, <2>6, <2>8 DEF Covered, Own, Ledger
  <2>16. OwnInv(p, n)'
    BY <2>3, <2>4, <2>6, <2>14, <2>15 DEF OwnInv, Own
  <2>17. view'[p].name = {n}
    BY <2>3, <2>6 DEF OwnInv
  <2>18. "ledger" \notin damage' => \A m \in Names : Covered(view[p].list[m], p)'
    BY <2>2, <2>3, <2>6 DEF CallInv, Covered, Ledger, history
  <2>19. CallInv(p)'
    BY <2>6, <2>7, <2>16, <2>17, <2>18, ListKept DEF CallInv
  <2>20. \A q \in Procs : CallInv(q)'
    BY <2>5, <2>7, <2>19, CallKept DEF Others
  <2> QED
    BY <2>11, <2>12, <2>13, <2>20 DEF RInv
<1> QED
  BY <1>1, <1>2, <1>3

-----------------------------------------------------------------------------
(* Bindings that come and go, and destroyed objects, once more.            *)

\* A step that leaves the calls alone.
LEMMA OutsideStep ==
  ASSUME IInv, IInv', RInv, Forward, UNCHANGED <<pc, view>>,
         BindingsInv', RecordedInv', FirstLedgerInv', Unalarmed'
  PROVE  RInv'
  BY CallKept DEF RInv

\* A new incarnation has a UID nothing was handed out for.
LEMMA CreateBindingQuiet ==
  ASSUME IInv, IInv', RInv, NEW n \in Names, CreateBinding(n)
  PROVE  RInv'
<1> DEFINE b == [uid |-> made[n] + 1, owner |-> source[n], receipt |-> {},
                 realised |-> FALSE]
<1>1. b.uid = made[n] + 1 /\ b.owner = source[n] /\ b.receipt = {} /\ ~b.realised
  OBVIOUS
<1> HIDE DEF b
<1>2. /\ binding' = [binding EXCEPT ![n] = b]
      /\ made' = [made EXCEPT ![n] = @ + 1]
      /\ binding[n].uid = 0
      /\ UNCHANGED <<ledger, identity, source, pc, view, err, history>>
  BY DEF CreateBinding, b
<1>3. /\ binding'[n] = b /\ made'[n] = made[n] + 1
      /\ \A m \in Names \ {n} : binding'[m] = binding[m] /\ made'[m] = made[m]
      /\ \A m \in Names : made[m] \in Nat /\ binding[m].uid \in Nat
      /\ ledger.uid \in Nat
  BY <1>2 DEF IInv, TypeOK, BindingType, LedgerType
<1>4. Forward
  BY <1>1, <1>2, <1>3 DEF Forward, history
<1>5. Genuine(binding[n], n)'
  BY <1>1, <1>2, <1>3 DEF RInv, BindingsInv, Genuine, history
<1>6. \A m \in Names : Genuine(binding[m], m)'
  BY <1>3, <1>4, <1>5, BindingKept
<1>7. BindingsInv'
  BY <1>1, <1>2, <1>3, <1>6 DEF RInv, BindingsInv, history
<1>8. RecordedInv'
  <2>1. ASSUME NEW e \in reserved
        PROVE  /\ e.name \in Names /\ e.uid # 0 /\ e.uid <= made'[e.name]
               /\ "binding" \notin damage => e.owner = e.uid
               /\ e.uid # made[e.name] + 1
    BY <1>3 DEF IInv, TypeOK, Entry, RInv, RecordedInv
  <2>2. exposed \subseteq reserved
    BY DEF IInv, ObjectsInv
  <2>3. ASSUME NEW e \in exposed, e.uid = binding'[e.name].uid
        PROVE  binding'[e.name].receipt # {}
    BY <1>1, <1>3, <2>1, <2>2, <2>3 DEF RInv, RecordedInv
  <2> QED
    BY <1>2, <2>1, <2>3 DEF RecordedInv, history
<1>9. FirstLedgerInv' /\ Unalarmed'
  BY <1>2 DEF RInv, FirstLedgerInv, Unalarmed, history
<1> QED
  BY <1>2, <1>4, <1>7, <1>8, <1>9, OutsideStep

\* A binding is realised only with an allocation.
LEMMA RealiseQuiet ==
  ASSUME IInv, IInv', RInv, NEW n \in Names, Realise(n)
  PROVE  RInv'
<1>1. /\ binding' = [binding EXCEPT ![n].realised = TRUE]
      /\ UNCHANGED <<ledger, identity, made, source, pc, view, err, history>>
  BY DEF Realise
<1>2. /\ binding'[n].uid = binding[n].uid
      /\ binding'[n].owner = binding[n].owner
      /\ binding'[n].receipt = binding[n].receipt
      /\ \A m \in Names \ {n} : binding'[m] = binding[m]
      /\ \A m \in Names : made[m] \in Nat
      /\ ledger.uid \in Nat
  BY <1>1 DEF IInv, TypeOK, BindingType, LedgerType
<1>3. \A m \in Names : /\ binding'[m].uid = binding[m].uid
                       /\ binding'[m].receipt = binding[m].receipt
  BY <1>2
<1>4. Forward
  BY <1>1, <1>2, <1>3 DEF Forward, history
<1>5. reserved # {}
  BY DEF IInv, ObjectsInv, Realise
<1>6. Genuine(binding[n], n)'
  BY <1>1, <1>2, <1>5 DEF RInv, BindingsInv, Genuine, history
<1>7. \A m \in Names : Genuine(binding[m], m)'
  BY <1>2, <1>4, <1>6, BindingKept
<1>8. BindingsInv'
  BY <1>1, <1>3, <1>7 DEF RInv, BindingsInv, history
<1>9. RecordedInv'
  BY <1>1, <1>3 DEF IInv, TypeOK, Entry, RInv, RecordedInv, history
<1>10. FirstLedgerInv' /\ Unalarmed'
  BY <1>1 DEF RInv, FirstLedgerInv, Unalarmed, history
<1> QED
  BY <1>1, <1>4, <1>8, <1>9, <1>10, OutsideStep

\* A binding that is gone: what was handed to it was not handed to nobody.
LEMMA GoneBinding ==
  ASSUME IInv, IInv', RInv, NEW n \in Names,
         binding' = [binding EXCEPT ![n] = NoBinding],
         UNCHANGED <<ledger, made, reserved, exposed>>, damage \subseteq damage'
  PROVE  /\ Forward
         /\ \A m \in Names : Genuine(binding[m], m)'
         /\ RecordedInv'
<1>1. /\ binding'[n] = NoBinding /\ NoBinding.uid = 0
      /\ \A m \in Names \ {n} : binding'[m] = binding[m]
      /\ \A m \in Names : made[m] \in Nat
      /\ ledger.uid \in Nat
  BY DEF IInv, TypeOK, LedgerType, NoBinding
<1>2. Forward
  BY <1>1 DEF Forward
<1>3. Genuine(NoBinding, n)'
  BY <1>1 DEF Genuine, NoBinding
<1>4. Genuine(binding[n], n)'
  BY <1>1, <1>3
<1>5. \A m \in Names : Genuine(binding[m], m)'
  BY <1>1, <1>2, <1>4, BindingKept
<1>6. \A e \in exposed : e.uid # 0 /\ e.name \in Names
  BY DEF IInv, TypeOK, Entry, ObjectsInv, RInv, RecordedInv
<1>7. RecordedInv'
  BY <1>1, <1>6 DEF RInv, RecordedInv
<1> QED
  BY <1>2, <1>5, <1>7

\* The authority's next binding is for the next incarnation.
LEMMA ReplaceBindingQuiet ==
  ASSUME IInv, IInv', RInv, NEW n \in Names, ReplaceBinding(n)
  PROVE  RInv'
<1>1. /\ binding' = [binding EXCEPT ![n] = NoBinding]
      /\ source' = [source EXCEPT ![n] = @ + 1]
      /\ UNCHANGED <<ledger, identity, made, pc, view, err, history>>
  BY DEF ReplaceBinding
<1>2. Forward /\ RecordedInv' /\ \A m \in Names : Genuine(binding[m], m)'
  BY <1>1, GoneBinding DEF history
<1>3. binding[n].uid # 0
  BY DEF IInv, ObjectsInv, NoBinding, ReplaceBinding
<1>4. /\ binding'[n].uid = 0 /\ source'[n] = source[n] + 1
      /\ \A m \in Names \ {n} : binding'[m] = binding[m] /\ source'[m] = source[m]
  BY <1>1 DEF IInv, TypeOK, NoBinding
<1>5. BindingsInv'
  BY <1>1, <1>2, <1>3, <1>4 DEF RInv, BindingsInv, history
<1>6. FirstLedgerInv' /\ Unalarmed'
  BY <1>1 DEF RInv, FirstLedgerInv, Unalarmed, history
<1> QED
  BY <1>1, <1>2, <1>5, <1>6, OutsideStep

\* A destroyed ledger or identity.
LEMMA LosePairQuiet ==
  ASSUME IInv, IInv', RInv, LoseLedger \/ LoseIdentity
  PROVE  RInv'
<1>1. /\ \/ damage' = damage \union {"ledger"}
         \/ damage' = damage \union {"identity"} /\ ledger' = ledger
      /\ ledger'.uid = ledger.uid /\ ledger.uid \in Nat
      /\ UNCHANGED <<binding, made, source, pc, view, err, reserved, exposed>>
  BY DEF LoseLedger, LoseIdentity, Lose, IInv, TypeOK, LedgerType
<1>2. Forward
  BY <1>1 DEF IInv, TypeOK, BindingType, Forward
<1>3. BindingsInv' /\ RecordedInv'
  BY <1>1 DEF RInv, BindingsInv, Genuine, RecordedInv
<1>4. FirstLedgerInv' /\ Unalarmed'
  BY <1>1 DEF RInv, FirstLedgerInv, Unalarmed
<1> QED
  BY <1>1, <1>2, <1>3, <1>4, OutsideStep

\* A destroyed binding.
LEMMA LoseBindingQuiet ==
  ASSUME IInv, IInv', RInv, NEW n \in Names, LoseBinding(n)
  PROVE  RInv'
<1>1. /\ binding' = [binding EXCEPT ![n] = NoBinding]
      /\ damage' = damage \union {"binding"}
      /\ UNCHANGED <<ledger, made, source, pc, view, err, reserved, exposed>>
  BY DEF LoseBinding, Lose
<1>2. Forward /\ RecordedInv' /\ \A m \in Names : Genuine(binding[m], m)'
  BY <1>1, GoneBinding
<1>3. BindingsInv' /\ FirstLedgerInv' /\ Unalarmed'
  BY <1>1, <1>2 DEF RInv, BindingsInv, FirstLedgerInv, Unalarmed
<1> QED
  BY <1>1, <1>2, <1>3, OutsideStep

\* Nothing is reserved and nobody is in a call.
LEMMA InitQuiet == Init => RInv
<1> SUFFICES ASSUME Init PROVE RInv
  OBVIOUS
<1>1. \A n \in Names : Genuine(NoBinding, n)
  BY DEF Init, Genuine, NoBinding
<1>2. \A n \in Names : NoList[n] = NoBinding
  BY DEF NoList
<1>3. BindingsInv
  BY <1>1, <1>2 DEF Init, BindingsInv, NoBinding
<1>4. RecordedInv /\ FirstLedgerInv /\ Unalarmed
  BY DEF Init, RecordedInv, FirstLedgerInv, Unalarmed, NoLedger, Alarms
<1>5. ASSUME NEW p \in Procs PROVE CallInv(p)
  <2>1. view[p].list = NoList /\ view[p].name = {} /\ pc[p] = "idle"
    BY DEF Init, NoView
  <2> QED
    BY <1>1, <1>2, <2>1 DEF CallInv, Reading
<1> QED
  BY <1>3, <1>4, <1>5 DEF RInv

\* Every step preserves the second invariant.
LEMMA NextQuiet == IInv /\ IInv' /\ RInv /\ [Next]_vars => RInv'
<1> SUFFICES ASSUME IInv, IInv', RInv, [Next]_vars PROVE RInv'
  OBVIOUS
<1>1. ASSUME NEW p \in Procs, Step(p) PROVE RInv'
  BY <1>1, BeginQuiet, ListQuiet, GetIdentityQuiet, GetLedgerQuiet, CreateLedgerQuiet,
     CheckQuiet, CreateIdentityQuiet, ReserveQuiet, WriteReceiptQuiet, ReturnQuiet DEF Step
<1>2. CASE Bindings
  BY <1>2, CreateBindingQuiet, RealiseQuiet, ReplaceBindingQuiet DEF Bindings
<1>3. CASE Environment
  BY <1>3, AbortQuiet, LosePairQuiet, LoseBindingQuiet DEF Environment
<1>4. CASE UNCHANGED vars
  <2> USE <1>4 DEF vars
  <2>1. Forward
    BY StillForward DEF stored
  <2>2. BindingsInv' /\ RecordedInv' /\ FirstLedgerInv' /\ Unalarmed'
    BY DEF RInv, BindingsInv, Genuine, RecordedInv, FirstLedgerInv, Unalarmed
  <2> QED
    BY <2>1, <2>2, OutsideStep
<1> QED
  BY <1>1, <1>2, <1>3, <1>4 DEF Next

\* The second inductive invariant: what everybody has read of the bindings is
\* genuine, and nothing is handed out without a record (allocation.go:117-217).
THEOREM Recorded == Spec => []RInv
<1>1. Init => RInv
  BY InitQuiet
<1>2. IInv /\ IInv' /\ RInv /\ [Next]_vars => RInv'
  BY NextQuiet
<1> QED
  BY <1>1, <1>2, Invariant, PTL DEF Spec

\* "allocate commits the retained reservation and then a receipt on the local
\* Binding before exposing any addresses" (allocation.go:117), and neither is
\* undone by anything but their destruction.
THEOREM ReceiptBeforeUse == Spec => []CommittedFirst
<1>1. ASSUME IInv, RInv PROVE CommittedFirst
  <2> SUFFICES ASSUME NEW e \in exposed
               PROVE  /\ "ledger" \notin damage => e \in ledger.entries
                      /\ e.uid = binding[e.name].uid =>
                           \E r \in binding[e.name].receipt :
                              r.entry.transit = e.transit /\ r.entry.bfd = e.bfd
    BY DEF CommittedFirst
  <2>1. e \in reserved /\ e.name \in Names
    BY <1>1 DEF IInv, TypeOK, Entry, ObjectsInv
  <2>2. "ledger" \notin damage => e \in ledger.entries
    BY <1>1, <2>1 DEF IInv, RetainedInv
  <2>3. ASSUME e.uid = binding[e.name].uid
        PROVE  \E r \in binding[e.name].receipt :
                  r.entry.transit = e.transit /\ r.entry.bfd = e.bfd
    <3>1. PICK r \in binding[e.name].receipt : TRUE
      BY <1>1, <2>3 DEF RInv, RecordedInv
    <3>2. r.entry \in reserved /\ r.entry.name = e.name /\ r.entry.uid = e.uid
      BY <1>1, <2>1, <2>3 DEF RInv, BindingsInv, Genuine
    <3>3. r.entry = e
      BY <1>1, <2>1, <3>2 DEF IInv, ObjectsInv, ValidLedger
    <3> QED
      BY <3>3
  <2> QED
    BY <2>2, <2>3
<1> QED
  BY <1>1, Invariant, Recorded, PTL

-----------------------------------------------------------------------------
(* The identity that a racing process misses.                              *)

\* Between reading and creating the identity nobody else is there to create it.
Bootstrapping == {"ledger", "createLedger", "check", "createIdentity"}

\* The third inductive invariant: whoever missed the identity was not alone.
MissedInv == damage = {} => \A p \in Procs :
    /\ err[p] = "identityMissing" => identity # 0 /\ Procs # {p}
    /\ Procs = {p} /\ pc[p] \in Bootstrapping => view[p].identity = identity

\* What a process has seen was reserved under the identity (allocation.go:163).
LEMMA SeenIdentity ==
  ASSUME IInv, RInv, NEW p \in Procs, damage = {},
         Ledger(p).entries # {} \/ Evidence(view[p].list)
  PROVE  identity # 0
<1>1. reserved # {}
  BY DEF IInv, ProcInv, CopyInv, RInv, CallInv, Genuine, Evidence
<1> QED
  BY <1>1 DEF IInv, RetainedInv

\* The identity appears and stays (allocation.go:184).
LEMMA IdentityStays ==
  ASSUME IInv, NEW p \in Procs, Step(p)
  PROVE  identity # 0 => identity' = identity
  BY DEF Step, Begin, ListBindings, GetIdentity, GetLedger, CreateLedger, Check, CreateIdentity,
         Reserve, WriteReceipt, Return, Fail, stored

\* A call of p ends, or goes on with an identity that is the stored one.
LEMMA MissedMove ==
  ASSUME IInv, IInv', RInv, MissedInv, NEW p \in Procs, Others(p), identity # 0 => identity' = identity,
         \A q \in Procs \ {p} : err'[q] = err[q], damage' = damage,
         damage = {} =>
            /\ err'[p] = "identityMissing" => err[p] = "identityMissing" \/ (identity # 0 /\ Procs # {p})
            /\ Procs = {p} /\ pc'[p] \in Bootstrapping => view'[p].identity = identity'
  PROVE  MissedInv'
<1> SUFFICES ASSUME damage = {}, NEW q \in Procs
             PROVE  /\ err'[q] = "identityMissing" => identity' # 0 /\ Procs # {q}
                    /\ Procs = {q} /\ pc'[q] \in Bootstrapping => view'[q].identity = identity'
  BY DEF MissedInv
<1>1. CASE q = p
  BY <1>1 DEF MissedInv
<1>2. CASE q # p
  BY <1>2 DEF MissedInv
<1> QED
  BY <1>1, <1>2

LEMMA MissedLeave ==
  ASSUME IInv, IInv', RInv, MissedInv, NEW p \in Procs, NEW why, Leave(p, why), UNCHANGED <<stored, damage>>,
         damage = {} /\ why = "identityMissing" => identity # 0 /\ Procs # {p}
  PROVE  MissedInv'
<1>1. /\ Others(p) /\ \A q \in Procs \ {p} : err'[q] = err[q]
      /\ pc'[p] = "idle" /\ err'[p] = why /\ identity' = identity
  BY DEF IInv, TypeOK, Leave, Others, stored
<1> QED
  BY <1>1, MissedMove DEF Bootstrapping

LEMMA MissedStep ==
  ASSUME IInv, IInv', RInv, MissedInv, NEW p \in Procs, Step(p)
  PROVE  MissedInv'
<1>1. ASSUME NEW why, Fail(p, why), why # "identityMissing" PROVE MissedInv'
  BY <1>1, MissedLeave DEF Fail, stored, history
<1>2. ASSUME NEW l, Goto(p, l), NEW v, view' = [view EXCEPT ![p] = v], damage' = damage,
             damage = {} /\ Procs = {p} /\ l \in Bootstrapping => v.identity = identity'
      PROVE  MissedInv'
  <2>1. /\ Others(p) /\ \A q \in Procs \ {p} : err'[q] = err[q]
        /\ pc'[p] = l /\ view'[p] = v /\ err'[p] = err[p]
    BY <1>2 DEF IInv, TypeOK, Goto, Others
  <2> QED
    BY <1>2, <2>1, IdentityStays, MissedMove
<1>3. ASSUME NEW l, l \notin Bootstrapping, Goto(p, l), NEW v, view' = [view EXCEPT ![p] = v], damage' = damage
      PROVE  MissedInv'
  BY <1>2, <1>3
<1>4. /\ view \in [Procs -> ViewType] /\ view[p] \in ViewType
      /\ damage = {} /\ Procs = {p} /\ pc[p] \in Bootstrapping => view[p].identity = identity
  BY DEF IInv, TypeOK, MissedInv
<1>5. ASSUME NEW n \in Names, Begin(p, n) PROVE MissedInv'
  <2> DEFINE v == [name |-> {n}, own |-> binding[n], list |-> NoList, identity |-> 0, ledger |-> NoLedger]
  <2>1. view' = [view EXCEPT ![p] = v] /\ Goto(p, "list") /\ damage' = damage
    BY <1>5 DEF Begin, history
  <2> HIDE DEF v
  <2> QED
    BY <1>3, <2>1 DEF Bootstrapping
<1>6. CASE ListBindings(p)
  <2>1. CASE Fail(p, "bindingMissing")
    BY <1>1, <2>1
  <2>2. CASE ~Fail(p, "bindingMissing")
    <3> DEFINE v == [view[p] EXCEPT !.list = binding]
    <3>1. view' = [view EXCEPT ![p].list = binding] /\ Goto(p, "identity") /\ damage' = damage
      BY <1>6, <2>2 DEF ListBindings, history
    <3>2. view' = [view EXCEPT ![p] = v]
      BY <1>4, <3>1
    <3> HIDE DEF v
    <3> QED
      BY <1>3, <3>1, <3>2 DEF Bootstrapping
  <2> QED
    BY <2>1, <2>2
<1>7. CASE GetIdentity(p)
  <2>1. PICK v : v = [view[p] EXCEPT !.identity = identity]
    OBVIOUS
  <2>2. view' = [view EXCEPT ![p] = v] /\ Goto(p, "ledger") /\ damage' = damage /\ identity' = identity
    BY <1>4, <1>7, <2>1 DEF GetIdentity, history, stored
  <2>3. v.identity = identity
    BY <1>4, <2>1 DEF ViewType
  <2> QED
    BY <1>2, <2>2, <2>3
<1>8. CASE GetLedger(p)
  <2>1. CASE Fail(p, "ledgerMissing")
    BY <1>1, <2>1
  <2>2. CASE ~Fail(p, "ledgerMissing")
    <3>1. PICK v : v = IF ledger.live THEN [view[p] EXCEPT !.ledger = ledger] ELSE view[p]
      OBVIOUS
    <3>2. /\ pc[p] = "ledger" /\ damage' = damage /\ identity' = identity
          /\ Goto(p, IF ledger.live THEN "check" ELSE "createLedger")
          /\ view' = [view EXCEPT ![p] = v]
      BY <1>4, <1>8, <2>2, <3>1 DEF GetLedger, history, stored
    <3>3. v.identity = view[p].identity
      BY <1>4, <3>1 DEF ViewType
    <3> QED
      BY <1>2, <1>4, <3>2, <3>3 DEF Bootstrapping
  <2> QED
    BY <2>1, <2>2
<1>9. CASE CreateLedger(p)
  <2>1. CASE ledger.live
    BY <1>1, <1>9, <2>1 DEF CreateLedger
  <2>2. CASE ~ledger.live
    <3>1. PICK v : v = [view[p] EXCEPT !.ledger = ledger']
      OBVIOUS
    <3>2. /\ pc[p] = "createLedger" /\ damage' = damage /\ identity' = identity
          /\ Goto(p, "check") /\ view' = [view EXCEPT ![p] = v]
      BY <1>4, <1>9, <2>2, <3>1 DEF CreateLedger, history
    <3>3. v.identity = view[p].identity
      BY <1>4, <3>1 DEF ViewType
    <3> QED
      BY <1>2, <1>4, <3>2, <3>3 DEF Bootstrapping
  <2> QED
    BY <2>1, <2>2
<1>10. CASE Check(p)
  <2>1. CASE Diagnosis(p) # "none"
    <3>1. Leave(p, Diagnosis(p)) /\ UNCHANGED <<stored, damage>> /\ pc[p] = "check"
      BY <1>10, <2>1 DEF Check, Fail, history
    <3>2. ASSUME damage = {}, Diagnosis(p) = "identityMissing" PROVE identity # 0 /\ Procs # {p}
      <4>1. view[p].identity = 0 /\ (Ledger(p).entries # {} \/ Evidence(view[p].list))
        BY <3>2 DEF Diagnosis
      <4>2. identity # 0
        BY <3>2, <4>1, SeenIdentity
      <4> QED
        BY <1>4, <3>1, <3>2, <4>1, <4>2 DEF Bootstrapping
    <3> QED
      BY <3>1, <3>2, MissedLeave
  <2>2. CASE Diagnosis(p) = "none"
    <3>1. PICK l : Goto(p, l)
      BY <1>10, <2>2 DEF Check
    <3>2. view' = [view EXCEPT ![p] = view[p]] /\ damage' = damage /\ identity' = identity /\ pc[p] = "check"
      BY <1>4, <1>10, <2>2 DEF Check, history, stored
    <3> QED
      BY <1>2, <1>4, <3>1, <3>2 DEF Bootstrapping
  <2> QED
    BY <2>1, <2>2
<1>11. CASE CreateIdentity(p)
  <2>1. CASE identity # 0
    BY <1>1, <1>11, <2>1 DEF CreateIdentity
  <2>2. CASE identity = 0
    <3>1. PICK v : v = [view[p] EXCEPT !.identity = Ledger(p).uid]
      OBVIOUS
    <3>2. /\ damage' = damage /\ identity' = Ledger(p).uid
          /\ Goto(p, "check") /\ view' = [view EXCEPT ![p] = v]
      BY <1>4, <1>11, <2>2, <3>1 DEF CreateIdentity, history
    <3>3. v.identity = Ledger(p).uid
      BY <1>4, <3>1 DEF ViewType
    <3> QED
      BY <1>2, <3>2, <3>3
  <2> QED
    BY <2>1, <2>2
<1>12. CASE Reserve(p)
  <2>1. CASE ~LedgerUnchanged(p)
    BY <1>1, <1>12, <2>1 DEF Reserve
  <2>2. CASE LedgerUnchanged(p)
    <3> DEFINE v == [view[p] EXCEPT !.ledger = ledger']
    <3>1. damage' = damage /\ Goto(p, "receipt") /\ view' = [view EXCEPT ![p].ledger = ledger']
      BY <1>12, <2>2 DEF Reserve
    <3>2. view' = [view EXCEPT ![p] = v]
      BY <1>4, <3>1
    <3> HIDE DEF v
    <3> QED
      BY <1>3, <3>1, <3>2 DEF Bootstrapping
  <2> QED
    BY <2>1, <2>2
<1>13. CASE WriteReceipt(p)
  <2>1. CASE Fail(p, "conflict")
    BY <1>1, <2>1
  <2>2. CASE ~Fail(p, "conflict")
    <3>1. PICK n : view' = [view EXCEPT ![p].own = binding'[n]] /\ damage' = damage /\ Goto(p, "return")
      BY <1>13, <2>2 DEF WriteReceipt, history
    <3> DEFINE v == [view[p] EXCEPT !.own = binding'[n]]
    <3>2. view' = [view EXCEPT ![p] = v]
      BY <1>4, <3>1
    <3> HIDE DEF v
    <3> QED
      BY <1>3, <3>1, <3>2 DEF Bootstrapping
  <2> QED
    BY <2>1, <2>2
<1>14. CASE Return(p)
  BY <1>14, MissedLeave DEF Return
<1> QED
  BY <1>5, <1>6, <1>7, <1>8, <1>9, <1>10, <1>11, <1>12, <1>13, <1>14 DEF Step

\* What bindings do and what dies leaves the identity alone; what is destroyed is damage.
LEMMA MissedNext == IInv /\ IInv' /\ RInv /\ MissedInv /\ [Next]_vars => MissedInv'
<1> SUFFICES ASSUME IInv, IInv', RInv, MissedInv, [Next]_vars PROVE MissedInv'
  OBVIOUS
<1>1. ASSUME NEW p \in Procs, Step(p) PROVE MissedInv'
  BY <1>1, MissedStep
<1>2. CASE Bindings \/ UNCHANGED vars
  <2>1. UNCHANGED <<identity, pc, view, err, damage>>
    BY <1>2 DEF Bindings, CreateBinding, Realise, ReplaceBinding, history, vars
  <2> QED
    BY <2>1 DEF MissedInv
<1>3. ASSUME NEW p \in Procs, Abort(p) PROVE MissedInv'
  BY <1>3, MissedLeave DEF Abort
<1>4. CASE LoseLedger \/ LoseIdentity \/ \E n \in Names : LoseBinding(n)
  BY <1>4 DEF LoseLedger, LoseIdentity, LoseBinding, Lose, MissedInv
<1> QED
  BY <1>1, <1>2, <1>3, <1>4 DEF Next, Environment

\* Overlapping processes, retries and replaced bindings alone raise no alarm.
\* A process that missed the identity of another one's bootstrap asks for
\* recovery nevertheless; a single process never does, and identity and ledger
\* are there when it calls again.
THEOREM AlarmsAreReal == Spec => []NoFalseFence
<1>1. Init => MissedInv
  BY DEF Init, MissedInv, Bootstrapping
<1>2. ASSUME IInv, RInv, MissedInv PROVE NoFalseFence
  <2> SUFFICES ASSUME damage = {}, NEW p \in Procs
               PROVE  /\ err[p] \notin Alarms
                      /\ err[p] = "identityMissing" =>
                            Procs # {p} /\ ledger.live /\ identity = ledger.uid /\ identity # 0
    BY DEF NoFalseFence
  <2>1. err[p] \notin Alarms /\ (err[p] = "identityMissing" => Procs # {p} /\ identity # 0)
    BY <1>2 DEF RInv, Unalarmed, MissedInv
  <2>2. /\ ledger.uid \in Nat /\ identity \in Nat /\ identity <= ledger.uid
        /\ ledger.uid <= 1 /\ (ledger.uid # 0 => ledger.live)
    BY <1>2 DEF IInv, TypeOK, LedgerType, ObjectsInv, RInv, FirstLedgerInv
  <2> QED
    BY <2>1, <2>2
<1> QED
  BY <1>1, <1>2, MissedNext, Invariant, Recorded, PTL DEF Spec
=============================================================================
