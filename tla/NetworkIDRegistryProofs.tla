---------------------- MODULE NetworkIDRegistryProofs ----------------------
(***************************************************************************)
(* For any number of allocators, keys, shards, aborts and destroyed        *)
(* objects: the registry never reuses an ID, answers the same key with the *)
(* same ID, stays in range and raises no false alarm.                      *)
(***************************************************************************)
EXTENDS NetworkIDRegistry, FiniteSetTheorems, TLAPS

\* The allocators that passed the identity check.
Cleared == {"allocate", "reserve", "publish", "return"}
\* The allocators that hold a copy of the sequence.
Holding == Cleared \union {"check", "createAnchor"}

\* An incarnation number never runs ahead of the sequence's own.
UIDInv ==
    /\ seq.next # 0 => seq.uid # 0
    /\ seq.next <= MaxID + 1
    /\ anchor <= seq.uid
    /\ ~(Sequence \in damage /\ Anchor \in damage)
    /\ \A p \in Procs :
        /\ view[p].anchor <= seq.uid
        /\ view[p].seq.uid <= seq.uid
        /\ view[p].seq.next <= MaxID + 1
        /\ pc[p] \in Holding => view[p].seq.uid # 0 /\ view[p].seq.next # 0

\* While the sequence survives it is ahead of every ID ever issued.
SequenceInv ==
    Sequence \notin damage =>
        /\ seq.uid <= 1
        /\ seq.next = 0 => seq.uid = 0
        /\ \A k \in Keys : \A i \in issued[k] : i < seq.next
        /\ \A p \in Procs : pc[p] = "check" =>
              \A k \in Keys : view[p].shards.ids[k] < view[p].seq.next

\* While the anchor survives only the incarnation it names can issue IDs.
AnchorInv ==
    Anchor \notin damage =>
        /\ anchor = 0 => /\ \A k \in Keys : issued[k] = {}
                         /\ \A p \in Procs : pc[p] \notin Cleared
        /\ \A p \in Procs : view[p].anchor # 0 => view[p].anchor = anchor
        /\ \A p \in Procs : pc[p] \in Cleared => view[p].seq.uid = anchor
        /\ seq.uid = anchor /\ seq.next # 0 =>
              \A k \in Keys : \A i \in issued[k] : i < seq.next

\* Issued IDs are in range and belong to one key.
IssuedInv ==
    /\ \A k \in Keys : issued[k] \subseteq IDs
    /\ \A k, l \in Keys : \A i \in issued[k] : i \in issued[l] => k = l

\* Whatever an allocator holds, a shard retains or a caller got was issued.
OriginInv ==
    /\ \A k \in Keys : shards.ids[k] # 0 => shards.ids[k] \in issued[k]
    /\ \A k \in Keys : answers[k] \subseteq issued[k]
    /\ \A p \in Procs, k \in Keys :
          view[p].shards.ids[k] # 0 => view[p].shards.ids[k] \in issued[k]
    /\ \A p \in Procs, k \in Keys :
          result[p][k] # 0 => result[p][k] \in issued[k]
    /\ \A p \in Procs : pc[p] = "publish" =>
          \A k \in Missing(p) : result[p][k] # 0
    /\ \A p \in Procs : pc[p] = "return" => Missing(p) = {}
    /\ \A p \in Procs : pc[p] = "reserve" =>
          view[p].seq.next + Cardinality(Missing(p)) <= MaxID + 1

\* A claim somebody has seen is still there unless its shard was destroyed.
RetentionInv ==
    \A k \in Keys : ShardOf[k] \notin gone =>
        /\ \A i \in answers[k] : shards.ids[k] = i
        /\ \A p \in Procs : view[p].shards.ids[k] # 0 =>
              view[p].shards.ids[k] = shards.ids[k]

IInv ==
    /\ TypeOK
    /\ UIDInv
    /\ SequenceInv
    /\ AnchorInv
    /\ IssuedInv
    /\ OriginInv
    /\ RetentionInv
    /\ NoFalseAlarm

-----------------------------------------------------------------------------

ViewType == [seq : SequenceType, anchor : Nat, shards : ShardsType]

\* The empty view and the empty claim map a call starts from (networkid.go:55-64)
\* have the types of a view and of a shard's claims.
LEMMA NoViewType == NoView \in ViewType /\ NoClaims \in [Keys -> Nat]
  BY BoundAssumption DEF NoView, ViewType, NoSequence, NoShards, NoClaims, SequenceType, ShardsType

\* The empty registry satisfies the inductive invariant.
LEMMA InitInv == Init => IInv
<1> SUFFICES ASSUME Init PROVE IInv
  OBVIOUS
<1> USE DEF Init, NoView, NoSequence, NoShards, NoClaims
<1>1. TypeOK
  BY NoViewType DEF TypeOK, SequenceType, ShardsType, ViewType, Labels, Errors
<1>2. UIDInv /\ SequenceInv /\ AnchorInv
  BY BoundAssumption DEF UIDInv, SequenceInv, AnchorInv, Holding, Cleared, Sequence, Anchor
<1>3. IssuedInv /\ OriginInv /\ RetentionInv /\ NoFalseAlarm
  BY DEF IssuedInv, OriginInv, RetentionInv, NoFalseAlarm, Missing
<1> QED
  BY <1>1, <1>2, <1>3 DEF IInv

\* The errors that would be false alarms in an undamaged registry.
Alarms == {"invalidClaims", "invalidSequence", "missingSequence",
           "regressed", "identityChanged"}

\* A step of p leaves what the other allocators hold alone.
Others(p) ==
    \A q \in Procs \ {p} :
        /\ view'[q] = view[q]
        /\ result'[q] = result[q]
        /\ req'[q] = req[q]
        /\ pc'[q] = pc[q]

\* The keys a call still has to fill are a subset of the keys it asked for.
LEMMA MissingOthers ==
  ASSUME NEW p \in Procs, Others(p)
  PROVE  \A q \in Procs \ {p} : Missing(q)' = Missing(q)
  BY DEF Others, Missing

\* They are finitely many, so the width of a reservation (networkid.go:124) is a
\* natural number.
LEMMA MissingFinite ==
  ASSUME TypeOK, NEW p \in Procs
  PROVE  /\ IsFiniteSet(Missing(p))
         /\ Cardinality(Missing(p)) \in Nat
<1>1. req[p] = {} \/ req[p] \in Requests
  BY DEF TypeOK
<1>2. IsFiniteSet(req[p])
  BY <1>1, RequestAssumption, FS_EmptySet
<1>3. Missing(p) \subseteq req[p]
  BY DEF Missing
<1>4. IsFiniteSet(Missing(p))
  BY <1>2, <1>3, FS_Subset
<1> QED
  BY <1>4, FS_CardinalityType

\* A call that ends, with the IDs and the registry as they are, preserves the
\* invariant: Fail, and Abort at any point of the call.
LEMMA LeaveStep ==
  ASSUME IInv, NEW p \in Procs, NEW why \in Errors, Leave(p, why),
         UNCHANGED <<registry, issued, answers, damage, gone>>,
         aborts' \in Nat, losses' \in Nat,
         why \in Alarms => damage # {} \/ gone # {}
  PROVE  IInv'
<1> USE DEF Leave, registry
<1>1. TypeOK'
  BY NoViewType DEF IInv, TypeOK, ViewType, Labels
<1>2. /\ view'[p] = NoView
      /\ result'[p] = NoClaims
      /\ pc'[p] = "idle"
  BY DEF IInv, TypeOK
<1>3. Others(p)
  BY DEF IInv, TypeOK, Others
<1>4. UIDInv'
  BY <1>2, <1>3, BoundAssumption
  DEF IInv, UIDInv, Holding, Cleared, NoView, NoSequence, TypeOK, SequenceType, Others
<1>5. SequenceInv' /\ AnchorInv'
  BY <1>2, <1>3 DEF IInv, SequenceInv, AnchorInv, Cleared, NoView, NoSequence, Others
<1>6. IssuedInv' /\ RetentionInv'
  BY <1>2, <1>3 DEF IInv, IssuedInv, RetentionInv, NoView, NoShards, NoClaims, Others
<1>7. OriginInv'
  BY <1>2, <1>3, MissingOthers DEF IInv, OriginInv, NoView, NoShards, NoClaims, Others
<1>8. NoFalseAlarm'
  BY DEF IInv, NoFalseAlarm, Alarms, TypeOK
<1> QED
  BY <1>1, <1>4, <1>5, <1>6, <1>7, <1>8 DEF IInv

\* An error return ends the call and changes no stored object.
LEMMA FailStep ==
  ASSUME IInv, NEW p \in Procs, NEW why \in Errors, Fail(p, why),
         why \in Alarms => damage # {} \/ gone # {}
  PROVE  IInv'
<1>1. /\ Leave(p, why)
      /\ UNCHANGED <<registry, issued, answers, damage, gone>>
      /\ aborts' \in Nat /\ losses' \in Nat
  BY DEF Fail, history, registry, IInv, TypeOK
<1> QED
  BY <1>1, LeaveStep

\* The scan copies the claims; its integrity check cannot fail.
LEMMA ScanStep ==
  ASSUME IInv, NEW p \in Procs, NEW K \in Requests, Scan(p, K)
  PROVE  IInv'
<1>1. ValidClaims(shards.ids)
  BY BoundAssumption DEF IInv, OriginInv, IssuedInv, ValidClaims, IDs, TypeOK, ShardsType
<1>2. /\ pc[p] = "idle"
      /\ pc' = [pc EXCEPT ![p] = "anchor"]
      /\ req' = [req EXCEPT ![p] = K]
      /\ view' = [view EXCEPT ![p].shards = shards]
      /\ err' = [err EXCEPT ![p] = "none"]
      /\ UNCHANGED <<result, seq, anchor, shards, issued, answers, damage, gone, aborts, losses>>
  BY <1>1 DEF Scan, registry, history
<1>3. TypeOK'
  BY <1>2 DEF IInv, TypeOK, Labels, Errors
<1>4. /\ view'[p].shards = shards
      /\ view'[p].seq = view[p].seq
      /\ view'[p].anchor = view[p].anchor
      /\ pc'[p] = "anchor"
  BY <1>2 DEF IInv, TypeOK
<1>5. Others(p)
  BY <1>2 DEF IInv, TypeOK, Others
<1>6. UIDInv'
  BY <1>2, <1>4, <1>5 DEF IInv, UIDInv, Holding, Cleared, Others
<1>7. SequenceInv' /\ AnchorInv'
  BY <1>2, <1>4, <1>5 DEF IInv, SequenceInv, AnchorInv, Cleared, Others
<1>8. IssuedInv' /\ RetentionInv'
  BY <1>2, <1>4, <1>5 DEF IInv, IssuedInv, RetentionInv, Others
<1>9. OriginInv'
  BY <1>2, <1>4, <1>5, MissingOthers DEF IInv, OriginInv, Others
<1>10. NoFalseAlarm'
  BY <1>2 DEF IInv, NoFalseAlarm, TypeOK
<1> QED
  BY <1>3, <1>6, <1>7, <1>8, <1>9, <1>10 DEF IInv

\* Moving on without changing anything that is held: Allocate, CheckSequence,
\* and ReadSequence of a missing sequence.
LEMMA GotoStep ==
  ASSUME IInv, NEW p \in Procs, NEW label \in Labels, Goto(p, label),
         UNCHANGED <<view, registry, history>>,
         label \notin {"publish", "check"},
         label \in Holding => pc[p] \in Holding,
         label \in Cleared /\ Anchor \notin damage =>
            anchor # 0 /\ view[p].seq.uid = anchor,
         label = "return" => Missing(p) = {},
         label = "reserve" =>
            view[p].seq.next + Cardinality(Missing(p)) <= MaxID + 1
  PROVE  IInv'
<1> USE DEF Goto, registry, history
<1>1. TypeOK'
  BY DEF IInv, TypeOK
<1>2. pc'[p] = label /\ UNCHANGED <<view, result, req>>
  BY DEF IInv, TypeOK
<1>3. Others(p)
  BY DEF IInv, TypeOK, Others
<1>4. UIDInv'
  BY <1>2, <1>3 DEF IInv, UIDInv, Others
<1>5. SequenceInv' /\ AnchorInv'
  BY <1>2, <1>3 DEF IInv, SequenceInv, AnchorInv, Others
<1>6. IssuedInv' /\ RetentionInv' /\ NoFalseAlarm'
  BY <1>2 DEF IInv, IssuedInv, RetentionInv, NoFalseAlarm
<1>7. Missing(p)' = Missing(p)
  BY <1>2 DEF Missing
<1>8. OriginInv'
  BY <1>2, <1>3, <1>7, MissingOthers DEF IInv, OriginInv, Others
<1> QED
  BY <1>1, <1>4, <1>5, <1>6, <1>8 DEF IInv

\* Reading the anchor (networkid.go:77) takes a witness that stays behind the
\* sequence.
LEMMA ReadAnchorStep ==
  ASSUME IInv, NEW p \in Procs, ReadAnchor(p)
  PROVE  IInv'
<1> USE DEF ReadAnchor, Goto, registry, history
<1>1. TypeOK'
  BY DEF IInv, TypeOK, Labels
<1>2. /\ view'[p].anchor = anchor
      /\ view'[p].seq = view[p].seq
      /\ view'[p].shards = view[p].shards
      /\ pc'[p] = "sequence"
  BY DEF IInv, TypeOK
<1>3. Others(p)
  BY DEF IInv, TypeOK, Others
<1>4. UIDInv'
  BY <1>2, <1>3 DEF IInv, UIDInv, Others, Holding, Cleared
<1>5. SequenceInv' /\ AnchorInv'
  BY <1>2, <1>3 DEF IInv, SequenceInv, AnchorInv, Others, Cleared
<1>6. IssuedInv' /\ RetentionInv' /\ NoFalseAlarm'
  BY <1>2, <1>3 DEF IInv, IssuedInv, RetentionInv, NoFalseAlarm, Others
<1>7. OriginInv'
  BY <1>2, <1>3, MissingOthers DEF IInv, OriginInv, Others
<1> QED
  BY <1>1, <1>4, <1>5, <1>6, <1>7 DEF IInv

\* In a registry whose sequence survives, claims that were scanned imply the
\* sequence, and so does an anchor that was read.
LEMMA ScannedBehind ==
  ASSUME IInv, NEW p \in Procs, Sequence \notin damage
  PROVE  /\ \A k \in Keys : view[p].shards.ids[k] # 0 =>
                view[p].shards.ids[k] < seq.next
         /\ seq.next = 0 => view[p].anchor = 0 /\ Claimed(p) = {}
  BY DEF IInv, TypeOK, SequenceType, ShardsType, UIDInv, SequenceInv, OriginInv, Claimed

\* Reading the sequence takes a copy that is never ahead of the stored one.
LEMMA ReadSequenceStep ==
  ASSUME IInv, NEW p \in Procs, ReadSequence(p)
  PROVE  IInv'
<1> USE DEF registry, history
<1>1. CASE seq.next # 0
  <2>1. /\ view' = [view EXCEPT ![p].seq = seq]
        /\ Goto(p, "check")
        /\ UNCHANGED <<registry, history>>
    BY <1>1 DEF ReadSequence
  <2>2. TypeOK'
    BY <2>1 DEF Goto, IInv, TypeOK, Labels
  <2>3. /\ view'[p].anchor = view[p].anchor
        /\ view'[p].seq = seq
        /\ view'[p].shards = view[p].shards
        /\ pc'[p] = "check"
    BY <2>1 DEF Goto, IInv, TypeOK
  <2>4. Others(p)
    BY <2>1 DEF Goto, IInv, TypeOK, Others
  <2>5. UIDInv'
    BY <1>1, <2>1, <2>3, <2>4 DEF IInv, TypeOK, SequenceType, UIDInv, Others, Holding
  <2>6. SequenceInv'
    BY <1>1, <2>1, <2>3, <2>4, ScannedBehind
    DEF IInv, SequenceInv, Others, TypeOK, SequenceType, ShardsType
  <2>7. AnchorInv'
    BY <2>1, <2>3, <2>4 DEF IInv, AnchorInv, Others, Cleared
  <2>8. IssuedInv' /\ RetentionInv' /\ NoFalseAlarm'
    BY <2>1, <2>3, <2>4 DEF Goto, IInv, IssuedInv, RetentionInv, NoFalseAlarm, Others
  <2>9. OriginInv'
    BY <2>1, <2>3, <2>4, MissingOthers DEF Goto, IInv, OriginInv, Others
  <2> QED
    BY <2>2, <2>5, <2>6, <2>7, <2>8, <2>9 DEF IInv
<1>2. CASE seq.next = 0 /\ (view[p].anchor # 0 \/ Claimed(p) # {})
  <2>1. Fail(p, "missingSequence")
    BY <1>2 DEF ReadSequence
  <2>2. damage # {}
    BY <1>2, ScannedBehind
  <2> QED
    BY <2>1, <2>2, FailStep DEF Errors
<1>3. CASE seq.next = 0 /\ ~(view[p].anchor # 0 \/ Claimed(p) # {})
  <2>1. Goto(p, "createSequence") /\ UNCHANGED <<view, registry, history>>
    BY <1>3 DEF ReadSequence
  <2> QED
    BY <2>1, GotoStep DEF Labels, Holding, Cleared
<1> QED
  BY <1>1, <1>2, <1>3

\* A new sequence is a new incarnation: no anchor names it and, unless the
\* old one was destroyed, nothing has been issued.
LEMMA CreateSequenceStep ==
  ASSUME IInv, NEW p \in Procs, CreateSequence(p)
  PROVE  IInv'
<1>1. CASE seq.next # 0
  <2>1. Fail(p, "conflict")
    BY <1>1 DEF CreateSequence
  <2> QED
    BY <2>1, FailStep DEF Errors, Alarms
<1>2. CASE seq.next = 0
  <2>1. /\ pc[p] = "createSequence"
        /\ seq' = [uid |-> seq.uid + 1, next |-> 1]
        /\ view' = [view EXCEPT ![p].seq = seq']
        /\ Goto(p, "check")
        /\ UNCHANGED <<anchor, shards, issued, answers, damage, gone, aborts, losses>>
    BY <1>2 DEF CreateSequence, history
  <2>2. seq' \in SequenceType
    BY <2>1, BoundAssumption DEF IInv, TypeOK, SequenceType
  <2>3. TypeOK'
    BY <2>1, <2>2 DEF Goto, IInv, TypeOK, Labels
  <2>4. /\ view'[p].anchor = view[p].anchor
        /\ view'[p].seq = seq'
        /\ view'[p].shards = view[p].shards
        /\ pc'[p] = "check"
    BY <2>1 DEF Goto, IInv, TypeOK
  <2>5. Others(p)
    BY <2>1 DEF Goto, IInv, TypeOK, Others
  <2>6. seq'.uid = seq.uid + 1 /\ seq'.next = 1 /\ seq.uid \in Nat
    BY <2>1 DEF IInv, TypeOK, SequenceType
  <2>7. UIDInv'
    BY <2>1, <2>4, <2>5, <2>6, BoundAssumption
    DEF IInv, TypeOK, SequenceType, UIDInv, Others, Holding
  <2>8. SequenceInv'
    <3> SUFFICES ASSUME Sequence \notin damage
                 PROVE  SequenceInv'
      BY <2>1 DEF SequenceInv
    <3>1. seq.uid = 0 /\ \A k \in Keys : issued[k] = {}
      BY <1>2 DEF IInv, SequenceInv, TypeOK
    <3>2. \A k \in Keys : view[p].shards.ids[k] = 0
      BY <1>2, ScannedBehind DEF IInv, TypeOK, ShardsType
    <3> QED
      BY <2>1, <2>4, <2>5, <2>6, <3>1, <3>2 DEF IInv, SequenceInv, Others
  <2>9. AnchorInv'
    BY <2>1, <2>4, <2>5, <2>6 DEF IInv, TypeOK, UIDInv, AnchorInv, Others, Cleared
  <2>10. IssuedInv' /\ RetentionInv' /\ NoFalseAlarm'
    BY <2>1, <2>4, <2>5 DEF Goto, IInv, IssuedInv, RetentionInv, NoFalseAlarm, Others
  <2>11. OriginInv'
    BY <2>1, <2>4, <2>5, MissingOthers DEF Goto, IInv, OriginInv, Others
  <2> QED
    BY <2>3, <2>7, <2>8, <2>9, <2>10, <2>11 DEF IInv
<1> QED
  BY <1>1, <1>2

\* In an undamaged registry no check of the sequence fails but the race of
\* two bootstraps ("unanchored").
LEMMA NoFalseDiagnosis ==
  ASSUME IInv, NEW p \in Procs, pc[p] = "check", damage = {}
  PROVE  Diagnosis(p) \in {"none", "unanchored"}
<1>1. view[p].seq.next <= MaxID + 1 /\ view[p].seq.next \in Nat /\ MaxID \in Nat
  BY BoundAssumption DEF IInv, UIDInv, TypeOK, SequenceType
<1>2. ~ \E i \in Claimed(p) : view[p].seq.next <= i
  BY <1>1 DEF IInv, SequenceInv, Claimed, TypeOK, ShardsType
<1>a. /\ seq.uid \in Nat /\ seq.uid <= 1
      /\ view[p].seq.uid \in Nat
      /\ view[p].anchor \in Nat
  BY DEF IInv, SequenceInv, TypeOK, SequenceType
<1>3. view[p].seq.uid = 1
  BY <1>a DEF IInv, UIDInv, Holding
<1>4. view[p].anchor \in {0, 1}
  BY <1>a DEF IInv, UIDInv
<1> QED
  BY <1>1, <1>2, <1>3, <1>4 DEF Diagnosis

\* The damage check between sequence, anchor and shards preserves the invariant:
\* by NoFalseDiagnosis it fails a call only when something was destroyed.
LEMMA CheckSequenceStep ==
  ASSUME IInv, NEW p \in Procs, CheckSequence(p)
  PROVE  IInv'
<1>1. Diagnosis(p) \in Errors
  BY DEF Diagnosis, Errors
<1>2. CASE Diagnosis(p) # "none"
  <2>1. Fail(p, Diagnosis(p))
    BY <1>2 DEF CheckSequence
  <2>2. Diagnosis(p) \in Alarms => damage # {}
    BY NoFalseDiagnosis DEF CheckSequence, Alarms
  <2> QED
    BY <1>1, <2>1, <2>2, FailStep
<1>3. CASE Diagnosis(p) = "none" /\ view[p].anchor = 0
  <2>1. Goto(p, "createAnchor") /\ UNCHANGED <<view, registry, history>> /\ pc[p] = "check"
    BY <1>3 DEF CheckSequence
  <2> QED
    BY <2>1, GotoStep DEF Labels, Holding, Cleared
<1>4. CASE Diagnosis(p) = "none" /\ view[p].anchor # 0
  <2>1. Goto(p, "allocate") /\ UNCHANGED <<view, registry, history>> /\ pc[p] = "check"
    BY <1>4 DEF CheckSequence
  <2>2. view[p].anchor = view[p].seq.uid
    BY <1>4 DEF Diagnosis
  <2>3. Anchor \notin damage => anchor # 0 /\ view[p].seq.uid = anchor
    BY <1>4, <2>2 DEF IInv, AnchorInv
  <2> QED
    BY <2>1, <2>3, GotoStep DEF Labels, Holding, Cleared
<1> QED
  BY <1>2, <1>3, <1>4

\* The anchor is created once; before it nobody was cleared to issue.
LEMMA CreateAnchorStep ==
  ASSUME IInv, NEW p \in Procs, CreateAnchor(p)
  PROVE  IInv'
<1>1. CASE anchor # 0
  <2>1. Fail(p, "conflict")
    BY <1>1 DEF CreateAnchor
  <2> QED
    BY <2>1, FailStep DEF Errors, Alarms
<1>2. CASE anchor = 0
  <2>1. /\ pc[p] = "createAnchor"
        /\ anchor' = view[p].seq.uid
        /\ view' = [view EXCEPT ![p].anchor = anchor']
        /\ Goto(p, "allocate")
        /\ UNCHANGED <<seq, shards, issued, answers, damage, gone, aborts, losses>>
    BY <1>2 DEF CreateAnchor, history
  <2>2. anchor' \in Nat /\ anchor' # 0
    BY <2>1 DEF IInv, TypeOK, SequenceType, UIDInv, Holding
  <2>3. TypeOK'
    BY <2>1, <2>2 DEF Goto, IInv, TypeOK, Labels
  <2>4. /\ view'[p].anchor = view[p].seq.uid
        /\ view'[p].seq = view[p].seq
        /\ view'[p].shards = view[p].shards
        /\ pc'[p] = "allocate"
    BY <2>1 DEF Goto, IInv, TypeOK
  <2>5. Others(p)
    BY <2>1 DEF Goto, IInv, TypeOK, Others
  <2>6. UIDInv'
    BY <2>1, <2>4, <2>5 DEF IInv, UIDInv, Others, Holding, Cleared
  <2>7. SequenceInv'
    BY <2>1, <2>4, <2>5 DEF IInv, SequenceInv, Others
  <2>8. AnchorInv'
    BY <1>2, <2>1, <2>2, <2>4, <2>5 DEF IInv, AnchorInv, Others
  <2>9. IssuedInv' /\ RetentionInv' /\ NoFalseAlarm'
    BY <2>1, <2>4, <2>5 DEF Goto, IInv, IssuedInv, RetentionInv, NoFalseAlarm, Others
  <2>10. OriginInv'
    BY <2>1, <2>4, <2>5, MissingOthers DEF Goto, IInv, OriginInv, Others
  <2> QED
    BY <2>3, <2>6, <2>7, <2>8, <2>9, <2>10 DEF IInv
<1> QED
  BY <1>1, <1>2

\* Choosing the width of the reservation leaves the stored objects alone.
LEMMA AllocateStep ==
  ASSUME IInv, NEW p \in Procs, Allocate(p)
  PROVE  IInv'
<1>1. /\ pc[p] = "allocate"
      /\ pc[p] \in Cleared
      /\ pc[p] \in Holding
      /\ Anchor \notin damage => anchor # 0 /\ view[p].seq.uid = anchor
  BY DEF Allocate, IInv, AnchorInv, Cleared, Holding
<1>2. CASE Missing(p) = {}
  <2>1. Goto(p, "return") /\ UNCHANGED <<view, registry, history>>
    BY <1>2 DEF Allocate
  <2> QED
    BY <1>1, <1>2, <2>1, GotoStep DEF Labels
<1>3. CASE Missing(p) # {} /\ view[p].seq.next + Cardinality(Missing(p)) > MaxID + 1
  <2>1. Fail(p, "exhausted")
    BY <1>3 DEF Allocate
  <2> QED
    BY <2>1, FailStep DEF Errors, Alarms
<1>4. CASE Missing(p) # {} /\ ~(view[p].seq.next + Cardinality(Missing(p)) > MaxID + 1)
  <2>1. Goto(p, "reserve") /\ UNCHANGED <<view, registry, history>>
    BY <1>4 DEF Allocate
  <2>2. view[p].seq.next + Cardinality(Missing(p)) <= MaxID + 1
    BY <1>4, MissingFinite, BoundAssumption DEF IInv, TypeOK, SequenceType
  <2> QED
    BY <1>1, <2>1, <2>2, GotoStep DEF Labels
<1> QED
  BY <1>2, <1>3, <1>4

\* Creating a missing shard adds no claims.
LEMMA CreateShardStep ==
  ASSUME IInv, NEW p \in Procs, NEW s \in Shards, CreateShard(p, s)
  PROVE  IInv'
<1>1. CASE s \in shards.live
  <2>1. Fail(p, "conflict")
    BY <1>1 DEF CreateShard
  <2> QED
    BY <2>1, FailStep DEF Errors, Alarms
<1>2. CASE s \notin shards.live
  <2>1. /\ pc[p] = "reserve"
        /\ shards' = WithShard(shards, s, shards.uid[s] + 1)
        /\ view' = [view EXCEPT ![p].shards = WithShard(@, s, shards.uid[s] + 1)]
        /\ Goto(p, "reserve")
        /\ UNCHANGED <<seq, anchor, issued, answers, damage, gone, aborts, losses>>
    BY <1>2 DEF CreateShard, history
  <2>2. shards' \in ShardsType /\ shards'.ids = shards.ids
    BY <2>1 DEF IInv, TypeOK, ShardsType, WithShard
  <2>3. view' \in [Procs -> [seq : SequenceType, anchor : Nat, shards : ShardsType]]
    <3>1. WithShard(view[p].shards, s, shards.uid[s] + 1) \in ShardsType
      BY DEF IInv, TypeOK, ShardsType, WithShard
    <3> QED
      BY <2>1, <3>1 DEF IInv, TypeOK
  <2>4. /\ view'[p].anchor = view[p].anchor
        /\ view'[p].seq = view[p].seq
        /\ view'[p].shards.ids = view[p].shards.ids
        /\ pc'[p] = pc[p]
    BY <2>1 DEF Goto, IInv, TypeOK, ShardsType, WithShard
  <2>5. Others(p)
    BY <2>1 DEF Goto, IInv, TypeOK, Others
  <2>6. TypeOK'
    BY <2>1, <2>2, <2>3 DEF Goto, IInv, TypeOK
  <2>7. UIDInv' /\ SequenceInv'
    BY <2>1, <2>4, <2>5 DEF IInv, UIDInv, SequenceInv, Others
  <2>8. AnchorInv'
    BY <2>1, <2>4, <2>5 DEF IInv, AnchorInv, Others
  <2>9. IssuedInv' /\ RetentionInv' /\ NoFalseAlarm'
    BY <2>1, <2>2, <2>4, <2>5 DEF Goto, IInv, IssuedInv, RetentionInv, NoFalseAlarm, Others
  <2>10. Missing(p)' = Missing(p)
    BY <2>1, <2>4 DEF Goto, Missing
  <2>11. OriginInv'
    BY <2>1, <2>2, <2>4, <2>5, <2>10, MissingOthers DEF Goto, IInv, OriginInv, Others
  <2> QED
    BY <2>6, <2>7, <2>8, <2>9, <2>11 DEF IInv
<1> QED
  BY <1>1, <1>2

\* Every ID issued so far is below the sequence that a reservation moves.
LEMMA ReserveAhead ==
  ASSUME IInv, NEW p \in Procs, pc[p] = "reserve", SequenceUnchanged(p)
  PROVE  \A k \in Keys : \A i \in issued[k] : i < seq.next
<1>1. pc[p] \in Cleared /\ pc[p] \in Holding
  BY DEF Cleared, Holding
<1>2. seq.next # 0
  BY <1>1 DEF IInv, UIDInv, SequenceUnchanged
<1>3. CASE Sequence \notin damage
  BY <1>3 DEF IInv, SequenceInv
<1>4. CASE Anchor \notin damage
  BY <1>1, <1>2, <1>4 DEF IInv, AnchorInv, SequenceUnchanged
<1> QED
  BY <1>3, <1>4 DEF IInv, UIDInv

\* The conditional update of the sequence is where IDs are issued: they lie above
\* every ID issued before.
LEMMA ReserveStep ==
  ASSUME IInv, NEW p \in Procs, Reserve(p)
  PROVE  IInv'
<1>1. CASE ~SequenceUnchanged(p)
  <2>1. Fail(p, "conflict")
    BY <1>1 DEF Reserve
  <2> QED
    BY <2>1, FailStep DEF Errors, Alarms
<1>2. CASE SequenceUnchanged(p)
  <2> DEFINE n == Cardinality(Missing(p))
  <2>1. /\ n \in Nat
        /\ seq.next \in Nat /\ seq.next # 0 /\ seq.uid \in Nat
        /\ view[p].seq = seq
        /\ seq.next + n <= MaxID + 1
        /\ pc[p] = "reserve"
        /\ MaxID \in Nat
    <3>1. pc[p] = "reserve"
      BY DEF Reserve
    <3>2. view[p].seq = seq
      BY <1>2 DEF SequenceUnchanged
    <3>3. seq.next # 0
      BY <3>1, <3>2 DEF IInv, UIDInv, Holding, Cleared
    <3>4. n \in Nat
      BY MissingFinite DEF IInv
    <3>5. seq.next + n <= MaxID + 1
      BY <3>1, <3>2 DEF IInv, OriginInv
    <3> QED
      BY <3>1, <3>2, <3>3, <3>4, <3>5, BoundAssumption DEF IInv, TypeOK, SequenceType
  <2>2. PICK f \in Assignments(p) :
            /\ seq' = [seq EXCEPT !.next = @ + n]
            /\ result' = [result EXCEPT ![p] =
                             [k \in Keys |-> IF k \in Missing(p) THEN f[k] ELSE 0]]
            /\ issued' = [k \in Keys |->
                             IF k \in Missing(p) THEN issued[k] \union {f[k]}
                                                 ELSE issued[k]]
            /\ pc' = [pc EXCEPT ![p] = "publish"]
            /\ UNCHANGED <<anchor, shards, req, view, err,
                           answers, damage, gone, aborts, losses>>
    BY <1>2 DEF Reserve
  <2> HIDE DEF n
  <2>3. /\ seq'.next = seq.next + n
        /\ seq'.uid = seq.uid
        /\ seq' \in SequenceType
    BY <2>1, <2>2 DEF IInv, TypeOK, SequenceType
  <2>4. \A k \in Missing(p) : f[k] \in Nat /\ f[k] >= seq.next /\ f[k] < seq.next + n
    BY <2>1, <2>2 DEF Assignments, n
  <2>5. \A k, l \in Missing(p) : f[k] = f[l] => k = l
    BY <2>2 DEF Assignments
  <2>6. \A k \in Keys : \A i \in issued[k] : i < seq.next /\ i \in Nat
    BY <1>2, <2>1, ReserveAhead DEF IInv, TypeOK
  <2>7. \A k \in Keys : \A i \in issued'[k] :
            i \in issued[k] \/ (k \in Missing(p) /\ i = f[k])
    BY <2>2
  <2>8. \A k \in Keys : issued[k] \subseteq issued'[k]
    BY <2>2
  <2>9. /\ pc'[p] = "publish"
        /\ \A k \in Missing(p) \intersect Keys :
              result'[p][k] = f[k] /\ f[k] # 0 /\ f[k] \in issued'[k]
        /\ \A k \in Keys \ Missing(p) : result'[p][k] = 0
    BY <2>1, <2>2, <2>4 DEF IInv, TypeOK
  <2>10. Others(p)
    BY <2>2 DEF IInv, TypeOK, Others
  <2>11. Missing(p)' = Missing(p) /\ Missing(p) \subseteq Keys
    BY <2>2, RequestAssumption DEF Missing, IInv, TypeOK
  <2>12. TypeOK'
    <3>1. issued' \in [Keys -> SUBSET Nat]
      BY <2>2, <2>4 DEF IInv, TypeOK
    <3>2. result' \in [Procs -> [Keys -> Nat]]
      BY <2>2, <2>4 DEF IInv, TypeOK
    <3> QED
      BY <2>2, <2>3, <3>1, <3>2 DEF IInv, TypeOK, Labels
  <2>13. UIDInv'
    BY <2>1, <2>2, <2>3, <2>9, <2>10 DEF IInv, UIDInv, Others, Holding, Cleared
  <2>14. \A k \in Keys : \A i \in issued'[k] : i < seq'.next
    BY <2>1, <2>3, <2>4, <2>6, <2>7
  <2>15. SequenceInv'
    BY <2>1, <2>2, <2>3, <2>9, <2>10, <2>14 DEF IInv, SequenceInv, Others
  <2>16. AnchorInv'
    BY <2>1, <2>2, <2>3, <2>9, <2>10, <2>14 DEF IInv, AnchorInv, Others, Cleared
  <2>17. IssuedInv'
    <3>1. \A k \in Keys : issued'[k] \subseteq IDs
      BY <2>1, <2>4, <2>7 DEF IInv, IssuedInv, IDs
    <3>2. ASSUME NEW k \in Keys, NEW l \in Keys, NEW i \in issued'[k], i \in issued'[l]
          PROVE  k = l
      <4>1. CASE i \in issued[k] /\ i \in issued[l]
        BY <4>1 DEF IInv, IssuedInv
      <4>2. CASE i \in issued[k] /\ i \notin issued[l]
        BY <2>1, <2>4, <2>6, <2>7, <3>2, <4>2
      <4>3. CASE i \notin issued[k] /\ i \in issued[l]
        BY <2>1, <2>4, <2>6, <2>7, <3>2, <4>3
      <4>4. CASE i \notin issued[k] /\ i \notin issued[l]
        BY <2>5, <2>7, <3>2, <4>4
      <4> QED
        BY <4>1, <4>2, <4>3, <4>4
    <3> QED
      BY <3>1, <3>2 DEF IssuedInv
  <2>18. OriginInv'
    BY <2>2, <2>8, <2>9, <2>10, <2>11, MissingOthers DEF IInv, OriginInv, Others
  <2>19. RetentionInv' /\ NoFalseAlarm'
    BY <2>2 DEF IInv, RetentionInv, NoFalseAlarm
  <2> QED
    BY <2>12, <2>13, <2>15, <2>16, <2>17, <2>18, <2>19 DEF IInv
<1> QED
  BY <1>1, <1>2

\* A conditional update adds claims only where nobody has seen any.
LEMMA PublishStep ==
  ASSUME IInv, NEW p \in Procs, NEW s \in Shards, Publish(p, s)
  PROVE  IInv'
<1>1. CASE ~FitsShard(p, s)
  <2>1. Fail(p, "capacity")
    BY <1>1 DEF Publish
  <2> QED
    BY <2>1, FailStep DEF Errors, Alarms
<1>2. CASE FitsShard(p, s) /\ ~ShardUnchanged(p, s)
  <2>1. Fail(p, "conflict")
    BY <1>2 DEF Publish
  <2> QED
    BY <2>1, FailStep DEF Errors, Alarms
<1>3. CASE FitsShard(p, s) /\ ShardUnchanged(p, s)
  <2>1. /\ pc[p] = "publish"
        /\ shards' = WithResult(shards, p, s)
        /\ view' = [view EXCEPT ![p].shards = WithResult(@, p, s)]
        /\ Goto(p, "publish")
        /\ UNCHANGED <<seq, anchor, issued, answers, damage, gone, aborts, losses>>
    BY <1>3 DEF Publish, history
  <2>2. shards' \in ShardsType
    BY <2>1 DEF IInv, TypeOK, ShardsType, WithResult
  <2>3. /\ WithResult(view[p].shards, p, s) \in ShardsType
        /\ view'[p].anchor = view[p].anchor
        /\ view'[p].seq = view[p].seq
        /\ view'[p].shards = WithResult(view[p].shards, p, s)
        /\ pc'[p] = pc[p]
        /\ result' = result
        /\ req' = req
    BY <2>1 DEF Goto, IInv, TypeOK, ShardsType, WithResult
  <2>4. TypeOK'
    BY <2>1, <2>2, <2>3 DEF Goto, IInv, TypeOK
  <2>5. Others(p)
    BY <2>1 DEF Goto, IInv, TypeOK, Others
  <2>6. ASSUME NEW k \in Keys
        PROVE  /\ ShardOf[k] = s /\ k \in Missing(p) =>
                    /\ shards.ids[k] = 0
                    /\ view[p].shards.ids[k] = 0
                    /\ shards'.ids[k] = result[p][k]
                    /\ view'[p].shards.ids[k] = result[p][k]
                    /\ result[p][k] # 0
                    /\ result[p][k] \in issued[k]
               /\ ~(ShardOf[k] = s /\ k \in Missing(p)) =>
                    /\ shards'.ids[k] = shards.ids[k]
                    /\ view'[p].shards.ids[k] = view[p].shards.ids[k]
    <3>1. /\ shards'.ids[k] = IF ShardOf[k] = s /\ k \in Missing(p)
                              THEN result[p][k] ELSE shards.ids[k]
          /\ view'[p].shards.ids[k] = IF ShardOf[k] = s /\ k \in Missing(p)
                              THEN result[p][k] ELSE view[p].shards.ids[k]
      BY <2>1, <2>3 DEF WithResult
    <3>2. k \in Missing(p) => result[p][k] # 0 /\ result[p][k] \in issued[k]
      BY <2>1 DEF IInv, OriginInv
    <3>3. k \in Missing(p) => view[p].shards.ids[k] = 0
      BY DEF Missing
    <3>4. ShardOf[k] = s => shards.ids[k] = view[p].shards.ids[k]
      BY <1>3 DEF ShardUnchanged, KeysOf
    <3> QED
      BY <3>1, <3>2, <3>3, <3>4
  <2>7. UIDInv' /\ AnchorInv' /\ IssuedInv'
    BY <2>1, <2>3, <2>5 DEF IInv, UIDInv, AnchorInv, IssuedInv, Others
  <2>8. SequenceInv'
    BY <2>1, <2>3, <2>5 DEF IInv, SequenceInv, Others
  <2>9. Missing(p)' \subseteq Missing(p)
    BY <2>3, <2>6, RequestAssumption DEF Missing, IInv, TypeOK
  <2>10. OriginInv'
    BY <2>1, <2>3, <2>5, <2>6, <2>9, MissingOthers DEF IInv, OriginInv, Others
  <2>11. ASSUME NEW k \in Keys, ShardOf[k] \notin gone,
                ShardOf[k] = s, k \in Missing(p)
         PROVE  answers[k] = {} /\ \A q \in Procs : view[q].shards.ids[k] = 0
    <3>1. shards.ids[k] = 0
      BY <2>6, <2>11
    <3>2. answers[k] = {}
      BY <2>11, <3>1 DEF IInv, RetentionInv, OriginInv, IssuedInv, IDs
    <3> QED
      BY <2>11, <3>1, <3>2 DEF IInv, RetentionInv
  <2>12. RetentionInv'
    <3> SUFFICES ASSUME NEW k \in Keys, ShardOf[k] \notin gone
                 PROVE  /\ \A i \in answers[k] : shards'.ids[k] = i
                        /\ \A q \in Procs : view'[q].shards.ids[k] # 0 =>
                              view'[q].shards.ids[k] = shards'.ids[k]
      BY <2>1 DEF RetentionInv
    <3>1. CASE ShardOf[k] = s /\ k \in Missing(p)
      BY <2>5, <2>6, <2>11, <3>1 DEF Others
    <3>2. CASE ~(ShardOf[k] = s /\ k \in Missing(p))
      BY <2>5, <2>6, <3>2 DEF IInv, RetentionInv, Others
    <3> QED
      BY <3>1, <3>2
  <2>13. NoFalseAlarm'
    BY <2>1 DEF Goto, IInv, NoFalseAlarm
  <2> QED
    BY <2>4, <2>7, <2>8, <2>10, <2>12, <2>13 DEF IInv
<1> QED
  BY <1>1, <1>2, <1>3

\* What a call returns is retained in the shards it named.
LEMMA ReturnStep ==
  ASSUME IInv, NEW p \in Procs, Return(p)
  PROVE  IInv'
<1>1. Missing(p) = {}
  BY DEF Return, IInv, OriginInv, Unpublished
<1>2. req[p] \subseteq Keys
  BY RequestAssumption DEF IInv, TypeOK
<1>3. \A k \in req[p] : view[p].shards.ids[k] # 0
  BY <1>1 DEF Missing
<1>4. /\ answers' = [k \in Keys |->
                     IF k \in req[p] THEN answers[k] \union {view[p].shards.ids[k]}
                                     ELSE answers[k]]
      /\ Leave(p, "none")
      /\ UNCHANGED <<seq, anchor, shards, issued, damage, gone, aborts, losses>>
  BY DEF Return, registry
<1>5. \A k \in Keys : \A i \in answers'[k] :
          i \in answers[k] \/ (i = view[p].shards.ids[k] /\ i # 0)
  BY <1>3, <1>4
<1> USE DEF Leave
<1>6. TypeOK'
  <2>1. answers' \in [Keys -> SUBSET Nat]
    BY <1>4, <1>5 DEF IInv, TypeOK, ShardsType
  <2> QED
    BY <1>4, <2>1, NoViewType DEF IInv, TypeOK, ViewType, Labels, Errors
<1>7. /\ view'[p] = NoView
      /\ result'[p] = NoClaims
      /\ pc'[p] = "idle"
  BY <1>4 DEF IInv, TypeOK
<1>8. Others(p)
  BY <1>4 DEF IInv, TypeOK, Others
<1>9. UIDInv'
  BY <1>4, <1>7, <1>8, BoundAssumption
  DEF IInv, UIDInv, Holding, Cleared, NoView, NoSequence, TypeOK, SequenceType, Others
<1>10. SequenceInv' /\ AnchorInv' /\ IssuedInv'
  BY <1>4, <1>7, <1>8
  DEF IInv, SequenceInv, AnchorInv, IssuedInv, Cleared, NoView, NoSequence, Others
<1>11. RetentionInv'
  BY <1>4, <1>5, <1>7, <1>8 DEF IInv, RetentionInv, NoView, NoShards, NoClaims, Others
<1>12. OriginInv'
  BY <1>4, <1>5, <1>7, <1>8, MissingOthers
  DEF IInv, OriginInv, NoView, NoShards, NoClaims, Others
<1>13. NoFalseAlarm'
  BY <1>4 DEF IInv, NoFalseAlarm, TypeOK
<1> QED
  BY <1>6, <1>9, <1>10, <1>11, <1>12, <1>13 DEF IInv

\* Destroying an object weakens what the surviving witnesses must carry.
LEMMA EnvironmentStep ==
  ASSUME IInv, Environment
  PROVE  IInv'
<1>1. ASSUME NEW p \in Procs, Abort(p) PROVE IInv'
  <2>1. /\ Leave(p, "aborted")
        /\ UNCHANGED <<registry, issued, answers, damage, gone>>
        /\ aborts' \in Nat /\ losses' \in Nat
    BY <1>1 DEF Abort, registry, IInv, TypeOK
  <2> QED
    BY <2>1, LeaveStep DEF Errors, Alarms
<1>2. ASSUME LoseSequence PROVE IInv'
  <2>1. /\ seq' \in SequenceType /\ seq'.next = 0 /\ seq'.uid = seq.uid
        /\ damage' = damage \union {Sequence} /\ Anchor \notin damage
        /\ losses' \in Nat
        /\ UNCHANGED <<anchor, shards, pc, req, view, result, err,
                       issued, answers, gone, aborts>>
    BY BoundAssumption, <1>2 DEF LoseSequence, local, IInv, TypeOK, SequenceType
  <2>2. TypeOK'
    BY <2>1 DEF IInv, TypeOK
  <2>3. UIDInv'
    BY <2>1, BoundAssumption DEF IInv, UIDInv, Sequence, Anchor
  <2>4. SequenceInv' /\ AnchorInv'
    BY <2>1 DEF IInv, SequenceInv, AnchorInv
  <2>6. \A p \in Procs : Missing(p)' = Missing(p)
    BY <2>1 DEF Missing
  <2>7. IssuedInv' /\ OriginInv' /\ RetentionInv' /\ NoFalseAlarm'
    BY <2>1, <2>6 DEF IInv, IssuedInv, OriginInv, RetentionInv, NoFalseAlarm
  <2> QED
    BY <2>2, <2>3, <2>4, <2>7 DEF IInv
<1>3. ASSUME LoseAnchor PROVE IInv'
  <2>1. /\ anchor' = 0
        /\ damage' = damage \union {Anchor} /\ Sequence \notin damage
        /\ losses' \in Nat
        /\ UNCHANGED <<seq, shards, pc, req, view, result, err,
                       issued, answers, gone, aborts>>
    BY <1>3 DEF LoseAnchor, local, IInv, TypeOK
  <2>2. TypeOK'
    BY <2>1 DEF IInv, TypeOK
  <2>3. UIDInv'
    BY <2>1 DEF IInv, UIDInv, Sequence, Anchor, TypeOK, SequenceType
  <2>4. SequenceInv' /\ AnchorInv'
    BY <2>1 DEF IInv, SequenceInv, AnchorInv
  <2>5. \A p \in Procs : Missing(p)' = Missing(p)
    BY <2>1 DEF Missing
  <2>6. IssuedInv' /\ OriginInv' /\ RetentionInv' /\ NoFalseAlarm'
    BY <2>1, <2>5 DEF IInv, IssuedInv, OriginInv, RetentionInv, NoFalseAlarm
  <2> QED
    BY <2>2, <2>3, <2>4, <2>6 DEF IInv
<1>4. ASSUME NEW s \in Shards, LoseShard(s) PROVE IInv'
  <2>1. /\ shards' \in ShardsType
        /\ \A k \in Keys : shards'.ids[k] = IF ShardOf[k] = s THEN 0 ELSE shards.ids[k]
        /\ gone' = gone \union {s}
        /\ losses' \in Nat
        /\ UNCHANGED <<seq, anchor, pc, req, view, result, err,
                       issued, answers, damage, aborts>>
    BY <1>4 DEF LoseShard, local, IInv, TypeOK, ShardsType
  <2>2. TypeOK'
    BY <2>1 DEF IInv, TypeOK
  <2>3. UIDInv' /\ SequenceInv' /\ AnchorInv' /\ IssuedInv'
    BY <2>1 DEF IInv, UIDInv, SequenceInv, AnchorInv, IssuedInv
  <2>4. \A p \in Procs : Missing(p)' = Missing(p)
    BY <2>1 DEF Missing
  <2>5. OriginInv' /\ RetentionInv' /\ NoFalseAlarm'
    BY <2>1, <2>4 DEF IInv, OriginInv, RetentionInv, NoFalseAlarm
  <2> QED
    BY <2>2, <2>3, <2>5 DEF IInv
<1> QED
  BY <1>1, <1>2, <1>3, <1>4 DEF Environment

\* A stuttering step preserves the invariant.
LEMMA StutterStep == IInv /\ UNCHANGED vars => IInv'
<1> SUFFICES ASSUME IInv, UNCHANGED vars PROVE IInv'
  OBVIOUS
<1>1. \A p \in Procs : Missing(p)' = Missing(p)
  BY DEF vars, Missing
<1> QED
  BY <1>1 DEF vars, IInv, TypeOK, UIDInv, SequenceInv, AnchorInv, IssuedInv,
              OriginInv, RetentionInv, NoFalseAlarm

\* One case per action of networkIDs and of the environment.
LEMMA NextInv == IInv /\ [Next]_vars => IInv'
<1> SUFFICES ASSUME IInv, [Next]_vars PROVE IInv'
  OBVIOUS
<1>1. ASSUME NEW p \in Procs, Step(p) PROVE IInv'
  BY <1>1, ScanStep, ReadAnchorStep, ReadSequenceStep, CreateSequenceStep,
     CheckSequenceStep, CreateAnchorStep, AllocateStep, CreateShardStep,
     ReserveStep, PublishStep, ReturnStep
  DEF Step
<1> QED
  BY <1>1, EnvironmentStep, StutterStep DEF Next

\* The inductive invariant holds in every reachable state.
THEOREM Invariant == Spec => []IInv
<1> QED
  BY InitInv, NextInv, PTL DEF Spec

\* Type correctness of the registry for any constants.
THEOREM TypeCorrect == Spec => []TypeOK
<1>1. IInv => TypeOK
  BY DEF IInv
<1> QED
  BY Invariant, <1>1, PTL

\* A network ID is never known for two keys (networkid.go:21), for any number
\* of overlapping allocators, aborts and destroyed shards, and with either
\* the sequence or the anchor destroyed at any point.
THEOREM NeverReused == Spec => []NoIDReuse
<1>1. IInv => NoIDReuse
  <2> SUFFICES ASSUME IInv, NEW k \in Keys, NEW l \in Keys, k # l,
                      NEW i \in KnownAs(k), i \in KnownAs(l)
               PROVE  FALSE
    BY DEF NoIDReuse
  <2>1. i \in issued[k] /\ i \in issued[l]
    BY DEF KnownAs, IInv, OriginInv
  <2> QED
    BY <2>1 DEF IInv, IssuedInv
<1> QED
  BY Invariant, <1>1, PTL

\* Overlapping allocators give every caller the same ID for a key as long as
\* the key's shard survives.
THEOREM AnswersAgree == Spec => []StableAnswers
<1>1. IInv => StableAnswers
  BY DEF IInv, RetentionInv, StableAnswers
<1> QED
  BY Invariant, <1>1, PTL

\* Every ID handed out is a valid 24-bit identifier.
THEOREM AnswersInRange == Spec => []InRange
<1>1. IInv => InRange
  BY DEF IInv, OriginInv, IssuedInv, InRange
<1> QED
  BY Invariant, <1>1, PTL

\* An undamaged registry is never diagnosed as damaged (networkid.go:106).
THEOREM AlarmsAreReal == Spec => []NoFalseAlarm
<1>1. IInv => NoFalseAlarm
  BY DEF IInv
<1> QED
  BY Invariant, <1>1, PTL

\* Only the destruction of its shard removes a retained claim: a Publish that
\* would overwrite one conflicts.
THEOREM RetainedForGood == Spec => ClaimsRetained
<1> DEFINE Keeps == \A k \in Keys : shards.ids[k] # 0 /\ ShardOf[k] \notin gone' =>
                        shards'.ids[k] = shards.ids[k]
<1>1. ASSUME IInv, [Next]_vars PROVE [Keeps]_vars
  <2>1. ASSUME UNCHANGED shards PROVE Keeps
    BY <2>1
  <2>2. ASSUME NEW p \in Procs, NEW s \in Shards, CreateShard(p, s) PROVE Keeps
    BY <2>2 DEF CreateShard, WithShard, Fail, registry
  <2>3. ASSUME NEW p \in Procs, NEW s \in Shards, Publish(p, s) PROVE Keeps
    <3>1. CASE shards' = WithResult(shards, p, s) /\ ShardUnchanged(p, s)
      BY <3>1 DEF WithResult, ShardUnchanged, KeysOf, Missing
    <3>2. CASE UNCHANGED shards
      BY <3>2
    <3> QED
      BY <2>3, <3>1, <3>2 DEF Publish, Fail, registry
  <2>4. ASSUME NEW s \in Shards, LoseShard(s) PROVE Keeps
    BY <2>4 DEF LoseShard
  <2>5. ASSUME NEW p \in Procs, Step(p) PROVE Keeps
    <3>1. \/ \E K \in Requests : Scan(p, K)
          \/ ReadAnchor(p) \/ ReadSequence(p) \/ CreateSequence(p)
          \/ CheckSequence(p) \/ CreateAnchor(p) \/ Allocate(p)
          \/ Reserve(p) \/ Return(p)
          => UNCHANGED shards
      BY DEF Scan, ReadAnchor, ReadSequence, CreateSequence, CheckSequence,
             CreateAnchor, Allocate, Reserve, Return, Fail, registry
    <3> QED
      BY <2>1, <2>2, <2>3, <2>5, <3>1 DEF Step
  <2>6. ASSUME Environment PROVE Keeps
    <3>1. (\E p \in Procs : Abort(p)) \/ LoseSequence \/ LoseAnchor => UNCHANGED shards
      BY DEF Abort, LoseSequence, LoseAnchor, registry
    <3> QED
      BY <2>1, <2>4, <2>6, <3>1 DEF Environment
  <2> QED
    BY <1>1, <2>5, <2>6 DEF Next
<1>2. Spec => [][Keeps]_vars
  BY Invariant, <1>1, PTL DEF Spec
<1> QED
  BY <1>2 DEF ClaimsRetained

-----------------------------------------------------------------------------
(* The registry implements its promise.  Only four operations are steps of  *)
(* the abstract directory: a reservation draws, a publication claims, a     *)
(* return tells, and the loss of a shard loses; all others stutter.         *)

\* What the abstract directory cannot see: the steps that leave the issued IDs,
\* the claims, the answers and the lost shards alone.
Hidden == UNCHANGED <<issued, shards.ids, answers, gone>>

\* A hidden step is a stutter of the abstract directory.
LEMMA HiddenStutters == Hidden => UNCHANGED Promise!vars
  BY DEF Hidden, Promise!vars

\* A reservation (networkid.go:124-141) draws one unused ID for every missing
\* key; a conflict draws none.
LEMMA ReserveDraws ==
  ASSUME IInv, NEW p \in Procs, Reserve(p)
  PROVE  Hidden \/ Promise!Draw(Missing(p))
<1>1. CASE ~SequenceUnchanged(p)
  BY <1>1 DEF Reserve, Fail, registry, history, Hidden
<1>2. CASE SequenceUnchanged(p)
  <2>1. PICK f \in Assignments(p) :
          /\ issued' = [k \in Keys |->
                           IF k \in Missing(p) THEN issued[k] \union {f[k]}
                                               ELSE issued[k]]
          /\ UNCHANGED <<shards, answers, gone>>
    BY <1>2 DEF Reserve
  <2>2. pc[p] = "reserve"
    BY DEF Reserve
  <2>3. \A k \in Keys : \A i \in issued[k] : i < seq.next
    BY <1>2, <2>2, ReserveAhead
  <2>4. /\ view[p].seq.next \in Nat \ {0}
        /\ view[p].seq.next = seq.next
        /\ view[p].seq.next + Cardinality(Missing(p)) <= MaxID + 1
    BY <1>2, <2>2 DEF IInv, TypeOK, SequenceType, UIDInv, OriginInv, SequenceUnchanged,
                      Holding, Cleared
  <2>5. Cardinality(Missing(p)) \in Nat
    BY MissingFinite DEF IInv
  <2>6. /\ f \in [Missing(p) -> 1..MaxID]
        /\ \A k \in Missing(p) : f[k] >= seq.next
        /\ \A k, l \in Missing(p) : f[k] = f[l] => k = l
    BY <2>1, <2>4, <2>5, BoundAssumption DEF Assignments
  <2>7. \A k \in Missing(p) : f[k] \notin Promise!Used
    <3> SUFFICES ASSUME NEW k \in Missing(p), NEW l \in Keys, f[k] \in issued[l]
                 PROVE  FALSE
      BY DEF Promise!Used
    <3> QED
      BY <2>3, <2>4, <2>6 DEF IInv, TypeOK
  <2>8. /\ \A k \in Missing(p) : /\ f[k] \notin Promise!Used
                                 /\ \A l \in Missing(p) : f[k] = f[l] => k = l
        /\ issued' = [k \in Keys |-> IF k \in Missing(p) THEN issued[k] \union {f[k]}
                                                         ELSE issued[k]]
    BY <2>1, <2>6, <2>7
  <2> QED
    BY <2>1, <2>6, <2>8 DEF Promise!Draw
<1> QED
  BY <1>1, <1>2

\* Publishing one shard (networkid.go:186-216) claims for the missing keys of the
\* shard, none of which anybody has claimed, an ID that was drawn for them.
LEMMA PublishClaims ==
  ASSUME IInv, NEW p \in Procs, NEW s \in Shards, Publish(p, s)
  PROVE  Hidden \/ \E K \in SUBSET Keys : Promise!Claim(K)
<1>1. CASE Fail(p, "capacity") \/ Fail(p, "conflict")
  BY <1>1 DEF Fail, registry, history, Hidden
<1>2. CASE ~(Fail(p, "capacity") \/ Fail(p, "conflict"))
  <2> DEFINE K == {k \in Keys : ShardOf[k] = s /\ k \in Missing(p)}
  <2>1. /\ pc[p] = "publish"
        /\ ShardUnchanged(p, s)
        /\ shards' = WithResult(shards, p, s)
        /\ UNCHANGED <<issued, answers, gone>>
    BY <1>2 DEF Publish, history
  <2>2. shards'.ids = [k \in Keys |-> IF k \in K THEN result[p][k] ELSE shards.ids[k]]
    BY <2>1 DEF WithResult
  <2>3. ASSUME NEW k \in K
        PROVE  shards.ids[k] = 0 /\ result[p][k] \in issued[k]
    BY <2>1, <2>3 DEF ShardUnchanged, KeysOf, Missing, IInv, OriginInv
  <2>4. \A k \in Keys : IF k \in K THEN shards.ids[k] = 0 /\ shards'.ids[k] \in issued[k]
                                   ELSE shards'.ids[k] = shards.ids[k]
    BY <2>2, <2>3
  <2>5. shards'.ids \in [Keys -> 0..MaxID]
    <3>1. \A k \in Keys : issued[k] \subseteq 0..MaxID
      BY BoundAssumption DEF IInv, IssuedInv, IDs
    <3>2. \A k \in Keys : shards.ids[k] \in 0..MaxID
      BY <3>1, BoundAssumption DEF IInv, OriginInv
    <3> QED
      BY <2>2, <2>3, <3>1, <3>2
  <2>6. Promise!Claim(K)
    BY <2>1, <2>4, <2>5 DEF Promise!Claim
  <2> QED
    BY <2>6
<1> QED
  BY <1>1, <1>2

\* A return tells the caller, for every requested key, its claim; a key whose shard
\* was destroyed under the call is answered with an ID once drawn for it.
LEMMA ReturnTells ==
  ASSUME IInv, NEW p \in Procs, Return(p)
  PROVE  \E K \in SUBSET Keys : Promise!Tell(K)
<1> DEFINE K == req[p]
           lost == {k \in Keys : ShardOf[k] \in gone}
<1>1. K \in SUBSET Keys
  BY RequestAssumption DEF IInv, TypeOK
<1>2. Missing(p) = {}
  <2>1. CASE pc[p] = "return"
    BY <2>1 DEF IInv, OriginInv
  <2>2. CASE Unpublished(p) = {}
    <3>1. \A k \in Missing(p) : ShardOf[k] \in Unpublished(p)
      BY DEF Unpublished
    <3> QED
      BY <2>2, <3>1
  <2> QED
    BY <2>1, <2>2 DEF Return
<1>3. \A k \in K : view[p].shards.ids[k] # 0 /\ view[p].shards.ids[k] \in issued[k]
  BY <1>1, <1>2 DEF Missing, IInv, OriginInv
<1>4. \A k \in K : k \notin lost => view[p].shards.ids[k] = shards.ids[k]
  BY <1>1, <1>3 DEF IInv, RetentionInv
<1>5. /\ answers' = [k \in Keys |-> IF k \in K THEN answers[k] \union {view[p].shards.ids[k]}
                                               ELSE answers[k]]
      /\ UNCHANGED <<issued, shards, gone>>
  BY DEF Return, registry
<1>6. \A k \in Keys : \E i \in issued[k] \union {0} :
        /\ i # 0 <=> k \in K
        /\ k \in K /\ k \notin lost => i = shards.ids[k]
        /\ answers'[k] = IF k \in K THEN answers[k] \union {i} ELSE answers[k]
  <2> SUFFICES ASSUME NEW k \in Keys
               PROVE  \E i \in issued[k] \union {0} :
                        /\ i # 0 <=> k \in K
                        /\ k \in K /\ k \notin lost => i = shards.ids[k]
                        /\ answers'[k] = IF k \in K THEN answers[k] \union {i} ELSE answers[k]
    OBVIOUS
  <2>1. CASE k \in K
    <3>1. view[p].shards.ids[k] \in issued[k] \union {0}
      BY <2>1, <1>3
    <3> WITNESS view[p].shards.ids[k] \in issued[k] \union {0}
    <3> QED
      BY <2>1, <1>3, <1>4, <1>5
  <2>2. CASE k \notin K
    <3> WITNESS 0 \in issued[k] \union {0}
    <3> QED
      BY <2>2, <1>5
  <2> QED
    BY <2>1, <2>2
<1>7. answers' \in [Keys -> SUBSET (1..MaxID)]
  <2>1. \A k \in Keys : answers[k] \subseteq 1..MaxID /\ issued[k] \subseteq 1..MaxID
    BY DEF IInv, OriginInv, IssuedInv, IDs
  <2> QED
    BY <1>1, <1>3, <1>5, <2>1
<1>8. Promise!Tell(K)
  BY <1>5, <1>6, <1>7 DEF Promise!Tell
<1> QED
  BY <1>1, <1>8

\* The loss of a shard loses the claims of its keys.
LEMMA LoseShardLoses ==
  ASSUME NEW s \in Shards, LoseShard(s), TypeOK
  PROVE  \E K \in SUBSET Keys : Promise!Lose(K)
<1>1. shards'.ids = [k \in Keys |-> IF k \in KeysOf(s) THEN 0 ELSE shards.ids[k]]
  BY DEF LoseShard, KeysOf
<1>2. {k \in Keys : ShardOf[k] \in gone'} = {k \in Keys : ShardOf[k] \in gone} \union KeysOf(s)
  BY DEF LoseShard, KeysOf
<1>3. Promise!Lose(KeysOf(s))
  BY <1>1, <1>2 DEF LoseShard, Promise!Lose
<1> QED
  BY <1>3 DEF KeysOf

\* Every step of the registry is a step of its promise or a stutter of it.
LEMMA StepImplements ==
  ASSUME IInv, [Next]_vars
  PROVE  [Promise!Next]_(Promise!vars)
<1>1. CASE Hidden
  BY <1>1, HiddenStutters
<1>2. ASSUME NEW p \in Procs, Step(p) PROVE Hidden \/ Promise!Next
  <2>1. \/ \E K \in Requests : Scan(p, K)
        \/ ReadAnchor(p) \/ ReadSequence(p) \/ CreateSequence(p)
        \/ CheckSequence(p) \/ CreateAnchor(p) \/ Allocate(p)
        => Hidden
    BY DEF Scan, ReadAnchor, ReadSequence, CreateSequence, CheckSequence, CreateAnchor,
           Allocate, Fail, Goto, registry, history, Hidden
  <2>2. (\E s \in Shards : CreateShard(p, s)) => Hidden
    BY DEF CreateShard, WithShard, Fail, registry, history, Hidden
  <2>3. Missing(p) \in SUBSET Keys
    BY RequestAssumption DEF Missing, IInv, TypeOK
  <2>4. CASE Reserve(p)
    BY <2>3, <2>4, ReserveDraws DEF Promise!Next
  <2>5. CASE \E s \in Shards : Publish(p, s)
    BY <2>5, PublishClaims DEF Promise!Next
  <2>6. CASE Return(p)
    BY <2>6, ReturnTells DEF Promise!Next
  <2> QED
    BY <1>2, <2>1, <2>2, <2>4, <2>5, <2>6 DEF Step
<1>3. ASSUME Environment PROVE Hidden \/ Promise!Next
  <2>1. (\E p \in Procs : Abort(p)) \/ LoseSequence \/ LoseAnchor => Hidden
    BY DEF Abort, LoseSequence, LoseAnchor, registry, Hidden
  <2>2. CASE \E s \in Shards : LoseShard(s)
    BY <2>2, LoseShardLoses DEF Promise!Next, IInv
  <2> QED
    BY <1>3, <2>1, <2>2 DEF Environment
<1>4. UNCHANGED vars => Hidden
  BY DEF vars, Hidden
<1> QED
  BY <1>1, <1>2, <1>3, <1>4 DEF Next

\* The registry keeps its promise (NetworkIDs): whatever allocators overlap, abort or
\* conflict and whatever is destroyed, every behaviour is one of the abstract
\* directory that draws, claims, tells and loses in single steps.
THEOREM KeepsItsPromise == Spec => Implements
<1>1. Init => Promise!Init
  BY DEF Init, NoShards, NoClaims, Promise!Init
<1>2. IInv /\ [Next]_vars => [Promise!Next]_(Promise!vars)
  BY StepImplements
<1>3. Spec => Promise!Spec
  BY Invariant, <1>1, <1>2, PTL DEF Spec, Promise!Spec
<1> QED
  BY <1>3 DEF Implements

=============================================================================
