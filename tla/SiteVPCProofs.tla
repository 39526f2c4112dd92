--------------------------- MODULE SiteVPCProofs ---------------------------
(***************************************************************************)
(* The legacy site controller, for any gateway members and any number of   *)
(* crashes, losses and guests: no object of its own is ever rejected,      *)
(* default routes are monitored, the gateway goes before its network, and  *)
(* nothing survives the finalizer.                                         *)
(***************************************************************************)
EXTENDS SiteVPC, Integers, TLAPS

\* The labels of a pass that makes, and of one that removes.
Making == {"conflicts", "ensure", "record", "ready", "rows", "gateway", "receipt", "fields"}
Closing == {"unbfd", "delete", "absent"}
Removing == {"drain", "ungate", "withdraw"} \cup Closing
Labels == {"idle", "observe"} \cup Making \cup Removing

Object == [uid : Nat, dying : BOOLEAN]
Hop == [ref : Nat, fields : BOOLEAN, there : BOOLEAN]
SvpcType == [stage : {"live", "deleting", "gone"}, fin : BOOLEAN, accepted : BOOLEAN,
             op : {"", "DeleteGateway", "DeleteResources"}, recs : [Parts -> Nat],
             gate : [Pieces -> Nat], rows : [Gates -> Nat]]
WorkType == [at : Labels, del : BOOLEAN, k : 1..3, uid : Nat, hold : SUBSET Gates]

Shapes ==
    /\ svpc \in SvpcType
    /\ kube \in [Parts -> Object]
    /\ intent \in [Gates -> Nat]
    /\ topo \in SUBSET (Parts \cup {"port"})
    /\ hops \in [Gates -> Hop]
    /\ bfd \in [Gates -> Nat]
    /\ gate \in [Pieces -> Object]
    /\ issued \in Nat
    /\ late \in SUBSET Pieces
    /\ work \in WorkType
    /\ site \in SiteType

\* A pass that removes began after the deletion, and nothing goes on after it.
PassInv ==
    /\ work.at \in Making => ~work.del
    /\ work.at \in Removing => work.del
    /\ work.del => svpc.stage # "live"
    /\ svpc.stage = "gone" => work.at = "idle"

\* A recorded resource, gateway object or row is the one that exists, or is
\* missing; a create that may still take effect is of an object that neither
\* exists nor is recorded.
RecordInv ==
    /\ \A k \in Parts : svpc.recs[k] # 0 => kube[k].uid \in {0, svpc.recs[k]}
    /\ work.at = "record" => kube[Sequence[work.k]].uid \in {0, work.uid}
    /\ \A o \in Pieces : svpc.gate[o] # 0 => gate[o].uid \in {0, svpc.gate[o]}
    /\ \A o \in late : gate[o].uid = 0 /\ svpc.gate[o] = 0
    /\ \A m \in Gates : svpc.rows[m] # 0 => bfd[m] \in {0, svpc.rows[m]}
    /\ \A m \in Gates \ Members : bfd[m] = 0 /\ svpc.rows[m] = 0

\* The records are up to date until the removal begins.
Current == svpc.stage = "live" \/ (work.at # "idle" /\ ~work.del)

\* Unless a row is destroyed, routes exist or are asked for only with their row.
RouteInv ==
    /\ ~site.hurt => \A m \in Members :
        /\ intent[m] # 0 => bfd[m] = intent[m]
        /\ svpc.rows[m] # 0 /\ Current => bfd[m] = svpc.rows[m]
    /\ work.at \in Closing => \A m \in Gates : intent[m] = 0

\* The transit network is there when the gateway is created, and the Pod is gone
\* when the removal of the network begins.  A pass that found the whole gateway
\* gone meets its ConfigMap again only if a late request brings it up: while the
\* transit network is still there, so that a later pass sees it, or as a stray.
NetworkInv ==
    /\ work.at \in {"rows", "gateway"} => Up("Transit")
    /\ work.at \in Closing => gate["Pod"].uid = 0 \/ site.stray
    /\ \/ work.at \in Closing \cup {"withdraw"}
       \/ work.at = "drain" /\ svpc.op = "DeleteResources"
       => gate["ConfigMap"].uid = 0 \/ site.stray \/ Up("Transit")

\* What the removal has been through is gone.
CleanInv ==
    /\ work.at \in {"delete", "absent"} => \A m \in Gates : bfd[m] = 0
    /\ work.at = "delete" /\ work.k > 1 => kube["Subnet"].uid = 0
    /\ work.at = "delete" /\ work.k > 2 => kube["Transit"].uid = 0
    /\ work.at = "absent" => \A k \in Parts : kube[k].uid = 0

IInv == /\ Shapes /\ PassInv /\ RecordInv /\ RouteInv /\ NetworkInv /\ CleanInv
        /\ Monitored /\ GatewayFirst /\ SiteGoneClean

-----------------------------------------------------------------------------
(* The place in a pass.                                                    *)

\* The next step of the same pass.
LEMMA ToFields ==
  ASSUME work \in WorkType, NEW l \in Labels, To(l)
  PROVE  /\ work' \in WorkType
         /\ work'.at = l /\ work'.k = 1
         /\ work'.del = work.del
<1>1. work' = [work EXCEPT !.at = l, !.k = 1]
  BY DEF To
<1>2. work'.at = l /\ work'.k = 1
  BY <1>1 DEF WorkType
<1>3. work'.del = work.del
  BY <1>1 DEF WorkType
<1>4. work' \in WorkType
  <2>1. work' = [at |-> l, del |-> work.del, k |-> 1, uid |-> work.uid, hold |-> work.hold]
    BY <1>1 DEF WorkType
  <2>2. work.del \in BOOLEAN /\ work.uid \in Nat /\ work.hold \in SUBSET Gates /\ 1 \in 1..3
    BY DEF WorkType
  <2> QED
    BY <2>1, <2>2 DEF WorkType
<1> QED
  BY <1>2, <1>3, <1>4

\* Between two passes.
LEMMA Blank == NoWork \in WorkType /\ NoWork.at = "idle" /\ ~NoWork.del
<1>1. NoWork.at = "idle" /\ ~NoWork.del
  BY DEF NoWork
<1>2. NoWork \in WorkType
  BY DEF NoWork, WorkType, Labels
<1> QED
  BY <1>1, <1>2

\* The end of a pass.
LEMMA DoneFields ==
  ASSUME Done
  PROVE  work' \in WorkType /\ work'.at = "idle" /\ ~work'.del
  BY Blank DEF Done

\* The first state.
LEMMA InitInv ==
  ASSUME SiteInit
  PROVE  IInv
<1>1. /\ svpc.stage \in {"live", "gone"}
      /\ \A k \in Parts : svpc.recs[k] = 0
      /\ \A o \in Pieces : svpc.gate[o] = 0
      /\ \A m \in Gates : svpc.rows[m] = 0
      /\ svpc \in SvpcType
  BY DEF SiteInit, SvpcType, NoReceipts
<1>2. work \in WorkType /\ work.at = "idle" /\ ~work.del
  BY Blank DEF SiteInit
<1>3. /\ Nothing \in Object /\ Nothing.uid = 0 /\ NoHop \in Hop /\ ~NoHop.there
  BY DEF Nothing, Object, NoHop, Hop
<1>4. site \in SiteType /\ ~site.hurt /\ ~site.stray
  BY AttachmentAssumption DEF SiteInit
<1>5. Shapes /\ \A o \in Pieces : gate[o].uid = 0
  BY <1>1, <1>2, <1>3, <1>4 DEF SiteInit, Shapes
<1>6. PassInv /\ RecordInv
  BY <1>1, <1>2, <1>3, <1>5 DEF SiteInit, PassInv, RecordInv, Making, Removing, Closing
<1>7. RouteInv /\ NetworkInv /\ CleanInv
  BY <1>1, <1>2, <1>3 DEF SiteInit, RouteInv, NetworkInv, CleanInv, Closing
<1>8. Monitored /\ GatewayFirst /\ SiteGoneClean
  BY <1>2, <1>3, <1>4, <1>5
  DEF SiteInit, Monitored, GatewayFirst, SiteGoneClean, SiteType, Members, Pieces, Inventory, NoReceipts
<1> QED
  BY <1>5, <1>6, <1>7, <1>8 DEF IInv

-----------------------------------------------------------------------------
(* What steps have in common.                                              *)

world == <<svpc, kube, intent, topo, hops, bfd, gate, issued, late, site>>

\* What exists of the gateway, by kind.
LEMMA InventoryFits ==
  ASSUME IInv
  PROVE  /\ Inventory \in [Pieces -> Nat]
         /\ \A o \in Pieces : Inventory[o] = gate[o].uid
  BY DEF IInv, Shapes, Object, Inventory

\* A pass that ends without touching anything.
LEMMA DoneStep ==
  ASSUME IInv, Done, UNCHANGED world
  PROVE  IInv'
<1>1. work' \in WorkType /\ work'.at = "idle" /\ ~work'.del
  BY DoneFields
<1>2. Shapes' /\ PassInv'
  BY <1>1 DEF IInv, Shapes, PassInv, Making, Removing, Closing, world
<1>3. RecordInv' /\ NetworkInv' /\ CleanInv'
  BY <1>1 DEF IInv, RecordInv, NetworkInv, CleanInv, Closing, Members, world
<1>4. RouteInv'
  BY <1>1 DEF IInv, RouteInv, Current, Closing, Members, world
<1>5. Monitored' /\ GatewayFirst' /\ SiteGoneClean'
  BY DEF IInv, Monitored, GatewayFirst, SiteGoneClean, Inventory, Up, Members, world
<1> QED
  BY <1>2, <1>3, <1>4, <1>5 DEF IInv

\* A pass that goes on to the next label without touching anything.
LEMMA MoveStep ==
  ASSUME IInv, UNCHANGED world, work' \in WorkType, work.at # "idle",
         work'.del = work.del, PassInv',
         work'.at = "record" => kube[Sequence[work'.k]].uid \in {0, work'.uid},
         work'.at \in Closing => \A m \in Gates : intent[m] = 0,
         NetworkInv', CleanInv'
  PROVE  IInv'
<1>1. Shapes'
  BY DEF IInv, Shapes, world
<1>2. RecordInv'
  BY DEF IInv, RecordInv, Members, world
<1>3. RouteInv'
  BY DEF IInv, RouteInv, Current, Members, world
<1>4. Monitored' /\ GatewayFirst' /\ SiteGoneClean'
  BY DEF IInv, Monitored, GatewayFirst, SiteGoneClean, Inventory, Up, Members, world
<1> QED
  BY <1>1, <1>2, <1>3, <1>4 DEF IInv

\* A stored status is of the object the pass has read.
LEMMA StoreFields ==
  ASSUME IInv, NEW new, NEW l \in Labels, Store(new, l)
  PROVE  \/ Done /\ UNCHANGED svpc
         \/ /\ svpc' = new /\ To(l) /\ svpc.stage = "deleting" <=> work.del
  BY DEF Store, Stale

\* Reconcile reads the SiteVpc.
LEMMA StartStep ==
  ASSUME IInv, Start
  PROVE  IInv'
<1>0. work.at = "idle" /\ UNCHANGED <<kube, intent, topo, hops, bfd, gate, issued, late, site>>
  BY DEF Start, Is
<1>1. /\ svpc' \in SvpcType
      /\ svpc'.stage = svpc.stage /\ svpc.stage \in {"live", "deleting"}
      /\ svpc'.recs = svpc.recs /\ svpc'.gate = svpc.gate /\ svpc'.rows = svpc.rows
  BY DEF Start, IInv, Shapes, SvpcType
<1>2. \/ work' = work
      \/ work' = [NoWork EXCEPT !.at = "observe", !.del = (svpc.stage = "deleting")]
  BY DEF Start
<1>3. CASE work' = work
  <2>1. Shapes' /\ PassInv'
    BY <1>0, <1>1, <1>3 DEF IInv, Shapes, PassInv, Making, Removing, Closing
  <2>2. RecordInv' /\ NetworkInv' /\ CleanInv'
    BY <1>0, <1>1, <1>3 DEF IInv, RecordInv, NetworkInv, CleanInv, Closing, Members
  <2>3. RouteInv'
    BY <1>0, <1>1, <1>3 DEF IInv, RouteInv, Current, Closing, Members
  <2>4. Monitored' /\ GatewayFirst' /\ SiteGoneClean'
    BY <1>0, <1>1 DEF IInv, Monitored, GatewayFirst, SiteGoneClean, Inventory, Up, Members
  <2> QED
    BY <2>1, <2>2, <2>3, <2>4 DEF IInv
<1>4. CASE work' = [NoWork EXCEPT !.at = "observe", !.del = (svpc.stage = "deleting")]
  <2>0. NoWork \in WorkType
    BY Blank
  <2>1. work'.at = "observe"
    BY <1>4, <2>0 DEF WorkType
  <2>2. work'.del = (svpc.stage = "deleting")
    BY <1>4, <2>0 DEF WorkType
  <2>3. work' \in WorkType
    BY <1>4, <2>0 DEF WorkType, Labels
  <2>4. Shapes' /\ PassInv'
    BY <1>0, <1>1, <2>1, <2>2, <2>3 DEF IInv, Shapes, PassInv, Making, Removing, Closing
  <2>5. RecordInv' /\ NetworkInv' /\ CleanInv'
    BY <1>0, <1>1, <2>1 DEF IInv, RecordInv, NetworkInv, CleanInv, Closing, Members
  <2>6. RouteInv'
    BY <1>0, <1>1, <2>1, <2>2 DEF IInv, RouteInv, Current, Closing, Members
  <2>7. Monitored' /\ GatewayFirst' /\ SiteGoneClean'
    BY <1>0, <1>1 DEF IInv, Monitored, GatewayFirst, SiteGoneClean, Inventory, Up, Members
  <2> QED
    BY <2>4, <2>5, <2>6, <2>7 DEF IInv
<1> QED
  BY <1>2, <1>3, <1>4

\* A status update changes records to what was just seen, and ends the pass or
\* goes on with it.
LEMMA SaveStep ==
  ASSUME IInv, UNCHANGED <<kube, intent, topo, hops, bfd, gate, issued, late, site>>,
         svpc' \in SvpcType, svpc'.stage = svpc.stage,
         work' \in WorkType, work'.del = work.del,
         \/ work'.at = "idle"
         \/ work.at \in Making /\ work'.at \in {"ensure", "ready", "fields"},
         \A k \in Parts : svpc'.recs[k] # 0 => kube[k].uid \in {0, svpc'.recs[k]},
         svpc'.gate \in {svpc.gate, Inventory},
         \A m \in Gates : svpc'.rows[m] \in {svpc.rows[m], bfd[m], 0}
  PROVE  IInv'
<1>1. Shapes'
  BY DEF IInv, Shapes
<1>2. PassInv'
  BY DEF IInv, PassInv, Making, Removing, Closing
<1>3. RecordInv'
  <2>1. late \subseteq Pieces /\ \A o \in Pieces : svpc'.gate[o] \in {svpc.gate[o], gate[o].uid}
    BY InventoryFits DEF IInv, Shapes
  <2> QED
    BY <2>1 DEF IInv, RecordInv, Members
<1>4. RouteInv'
  <2>1. Current' => Current
    BY DEF IInv, PassInv, Current, Making
  <2>2. ASSUME NEW m \in Members, ~site.hurt, svpc'.rows[m] # 0, Current'
        PROVE  bfd[m] = svpc'.rows[m]
    BY <2>1, <2>2 DEF IInv, Shapes, SiteType, RouteInv, Members
  <2> QED
    BY <2>2 DEF IInv, RouteInv, Closing, Members
<1>5. NetworkInv' /\ CleanInv'
  BY DEF NetworkInv, CleanInv, Closing
<1>6. Monitored' /\ GatewayFirst' /\ SiteGoneClean'
  BY DEF IInv, Monitored, GatewayFirst, SiteGoneClean, Inventory, Up, Members
<1> QED
  BY <1>1, <1>2, <1>3, <1>4, <1>5, <1>6 DEF IInv

\* The same, as Store does it.
LEMMA StoreStep ==
  ASSUME IInv, UNCHANGED <<kube, intent, topo, hops, bfd, gate, issued, late, site>>,
         NEW new \in SvpcType, NEW l \in {"idle", "fields"}, Store(new, l),
         l = "idle" \/ work.at \in Making,
         new.stage = svpc.stage,
         \A k \in Parts : new.recs[k] # 0 => kube[k].uid \in {0, new.recs[k]},
         new.gate \in {svpc.gate, Inventory},
         \A m \in Gates : new.rows[m] \in {svpc.rows[m], bfd[m], 0}
  PROVE  IInv'
<1>1. CASE Done /\ UNCHANGED svpc
  BY <1>1, DoneStep DEF world
<1>2. CASE svpc' = new /\ To(l)
  <2>1. work' \in WorkType /\ work'.at = l /\ work'.del = work.del
    BY <1>2, ToFields DEF IInv, Shapes, Labels, Making
  <2> QED
    BY <1>2, <2>1, SaveStep
<1> QED
  BY <1>1, <1>2 DEF Store

\* The records as they are fit what exists.
LEMMA RecordsFit ==
  ASSUME IInv
  PROVE  /\ svpc \in SvpcType
         /\ \A k \in Parts : svpc.recs[k] # 0 => kube[k].uid \in {0, svpc.recs[k]}
  BY DEF IInv, Shapes, RecordInv

\* Moving on within a pass, to a label that claims nothing.
LEMMA ToStep ==
  ASSUME IInv, UNCHANGED world, work.at # "idle", NEW l \in Labels, To(l),
         l \notin Closing \cup {"record", "rows", "gateway"},
         l \in {"drain", "withdraw"} => NetworkInv',
         l \in Making => ~work.del, l \in Removing => work.del
  PROVE  IInv'
<1>1. work' \in WorkType /\ work'.at = l /\ work'.del = work.del
  BY ToFields DEF IInv, Shapes
<1>2. PassInv'
  BY <1>1 DEF IInv, PassInv, world
<1>3. NetworkInv' /\ CleanInv'
  BY <1>1 DEF NetworkInv, CleanInv, Closing
<1> QED
  BY <1>1, <1>2, <1>3, MoveStep DEF world

\* Verified observations become records.
LEMMA ObserveStep ==
  ASSUME IInv, Observe
  PROVE  IInv'
<1> USE DEF Observe, Is
<1>0. /\ work.at = "observe"
      /\ UNCHANGED <<kube, intent, topo, hops, bfd, gate, issued, late, site>>
  OBVIOUS
<1>1. CASE Done /\ UNCHANGED svpc
  BY <1>0, <1>1, DoneStep DEF world
<1>2. CASE Store([svpc EXCEPT !.rows = Rows], "idle")
  <2> DEFINE new == [svpc EXCEPT !.rows = Rows]
  <2>1. Rows \in [Gates -> Nat] /\ \A m \in Gates : Rows[m] \in {bfd[m], 0}
    BY DEF IInv, Shapes, Rows
  <2>2. /\ new \in SvpcType /\ new.stage = svpc.stage /\ new.recs = svpc.recs
        /\ new.gate = svpc.gate /\ new.rows = Rows
    BY <2>1, RecordsFit DEF SvpcType
  <2> HIDE DEF new
  <2>3. Store(new, "idle")
    BY <1>2 DEF new
  <2> QED
    BY <1>0, <2>1, <2>2, <2>3, RecordsFit, StoreStep
<1>3. CASE Store([svpc EXCEPT !.gate = Inventory, !.op = "DeleteGateway"], "idle")
  <2> DEFINE new == [svpc EXCEPT !.gate = Inventory, !.op = "DeleteGateway"]
  <2>1. Inventory \in [Pieces -> Nat]
    BY InventoryFits
  <2>2. /\ new \in SvpcType /\ new.stage = svpc.stage /\ new.recs = svpc.recs
        /\ new.gate = Inventory /\ new.rows = svpc.rows
    BY <2>1, RecordsFit DEF SvpcType
  <2> HIDE DEF new
  <2>3. Store(new, "idle")
    BY <1>3 DEF new
  <2> QED
    BY <1>0, <2>2, <2>3, RecordsFit, StoreStep
<1>4. CASE /\ work.del /\ To("drain") /\ UNCHANGED svpc
           /\ svpc.op = "DeleteResources" => Inventory = NoReceipts
  <2>1. work'.at = "drain"
    BY <1>4, ToFields DEF IInv, Shapes, Labels, Removing
  <2>2. NetworkInv'
    BY <1>0, <1>4, <2>1, InventoryFits DEF NetworkInv, NoReceipts, Closing, Pieces
  <2> QED
    BY <1>0, <1>4, <2>2, ToStep DEF Labels, Making, Removing, Closing, world
<1>5. CASE Store([svpc EXCEPT !.gate = Inventory], "idle")
  <2> DEFINE new == [svpc EXCEPT !.gate = Inventory]
  <2>1. Inventory \in [Pieces -> Nat]
    BY InventoryFits
  <2>2. /\ new \in SvpcType /\ new.stage = svpc.stage /\ new.recs = svpc.recs
        /\ new.gate = Inventory /\ new.rows = svpc.rows
    BY <2>1, RecordsFit DEF SvpcType
  <2> HIDE DEF new
  <2>3. Store(new, "idle")
    BY <1>5 DEF new
  <2> QED
    BY <1>0, <2>2, <2>3, RecordsFit, StoreStep
<1>6. CASE ~work.del /\ To("conflicts") /\ UNCHANGED svpc
  BY <1>0, <1>6, ToStep DEF Labels, Making, Removing, Closing, world
<1> QED
  BY <1>1, <1>2, <1>3, <1>4, <1>5, <1>6

\* The conflicting routes are noted.
LEMMA ConflictsStep ==
  ASSUME IInv, Conflicts
  PROVE  IInv'
<1> DEFINE h == {m \in Members : RouteConflict(m)}
<1>1. /\ work.at = "conflicts" /\ ~work.del /\ UNCHANGED world
      /\ work' = [work EXCEPT !.at = "ensure", !.hold = h]
  BY DEF Conflicts, Is, IInv, PassInv, Making, world
<1>2. h \in SUBSET Gates
  BY DEF IInv, Shapes, SiteType, Members
<1> HIDE DEF h
<1>3. work'.at = "ensure"
  BY <1>1 DEF IInv, Shapes, WorkType
<1>4. work'.del = work.del
  BY <1>1 DEF IInv, Shapes, WorkType
<1>5. work' \in WorkType
  BY <1>1, <1>2 DEF IInv, Shapes, WorkType, Labels, Making
<1>6. PassInv' /\ NetworkInv' /\ CleanInv'
  BY <1>1, <1>3, <1>4 DEF IInv, PassInv, NetworkInv, CleanInv, Making, Removing, Closing, world
<1> QED
  BY <1>1, <1>3, <1>4, <1>5, <1>6, MoveStep DEF Closing

\* The loops over the resources.
LEMMA PartOf ==
  ASSUME IInv
  PROVE  Sequence[work.k] \in Parts /\ Removal[work.k] \in Parts
<1>1. work.k = 1 \/ work.k = 2 \/ work.k = 3
  BY DEF IInv, Shapes, WorkType
<1> QED
  BY <1>1 DEF Sequence, Removal, Parts

\* The pass moves on to the next part, or past the last one.
LEMMA NextPartFields ==
  ASSUME IInv, NextPart
  PROVE  work' \in WorkType /\ work'.at \in {"ensure", "ready"} /\ work'.del = work.del
<1>1. CASE work.k = 3
  BY <1>1, ToFields DEF NextPart, IInv, Shapes, Labels, Making
<1>2. CASE work.k # 3
  <2>1. work' = [work EXCEPT !.at = "ensure", !.k = @ + 1]
    BY <1>2 DEF NextPart
  <2>2. work.k + 1 \in 1..3
    BY <1>2 DEF IInv, Shapes, WorkType
  <2>3. work'.at = "ensure"
    BY <2>1 DEF IInv, Shapes, WorkType
  <2>4. work'.del = work.del
    BY <2>1 DEF IInv, Shapes, WorkType
  <2>5. work' \in WorkType
    <3>1. /\ work.del \in BOOLEAN /\ work.uid \in Nat /\ work.hold \in SUBSET Gates
          /\ "ensure" \in Labels
      BY DEF IInv, Shapes, WorkType, Labels, Making
    <3>2. work' = [at |-> "ensure", del |-> work.del, k |-> work.k + 1, uid |-> work.uid,
                   hold |-> work.hold]
      BY <2>1 DEF IInv, Shapes, WorkType
    <3> QED
      BY <2>2, <3>1, <3>2 DEF WorkType
  <2> QED
    BY <2>3, <2>4, <2>5
<1> QED
  BY <1>1, <1>2

\* Creating or repairing a resource, with the routes of the members whose rows
\* are recorded.
LEMMA RenderStep ==
  ASSUME IInv, work.at = "ensure", UNCHANGED <<svpc, topo, hops, bfd, gate, late, site>>,
         intent' \in {intent, Rendered}, issued' \in Nat,
         kube' \in [Parts -> Object], NEW k \in Parts,
         \A j \in Parts \ {k} : kube'[j] = kube[j],
         \/ kube'[k] = kube[k]
         \/ kube[k].uid = 0 /\ svpc.recs[k] = 0 /\ ~kube'[k].dying /\ kube'[k].uid # 0,
         work' \in WorkType, work'.del = work.del,
         \/ work'.at \in {"ensure", "ready"}
         \/ work'.at = "record" /\ Sequence[work'.k] = k /\ work'.uid = kube'[k].uid
  PROVE  IInv'
<1>0. ~work.del /\ Rendered \in [Gates -> Nat]
  BY DEF IInv, PassInv, Making, Shapes, SvpcType, Rendered
<1>1. Shapes'
  BY <1>0 DEF IInv, Shapes
<1>2. PassInv'
  BY <1>0 DEF IInv, PassInv, Making, Removing, Closing
<1>3. RecordInv'
  BY DEF IInv, RecordInv, Members
<1>4. RouteInv'
  <2>1. ASSUME NEW m \in Members, ~site.hurt
        PROVE  /\ intent'[m] # 0 => bfd[m] = intent'[m]
               /\ svpc.rows[m] # 0 => bfd[m] = svpc.rows[m]
    <3>1. /\ svpc.rows[m] # 0 => bfd[m] = svpc.rows[m]
          /\ intent[m] # 0 => bfd[m] = intent[m]
      BY <1>0, <2>1 DEF IInv, RouteInv, Current
    <3>2. m \in Gates
      BY DEF IInv, Shapes, SiteType, Members
    <3>3. Rendered[m] \in {0, svpc.rows[m]}
      BY <3>2 DEF Rendered
    <3> QED
      BY <3>1, <3>3
  <2> QED
    BY <2>1 DEF RouteInv, Closing, Members
<1>5. GatewayFirst'
  BY DEF IInv, GatewayFirst, Up, Parts
<1>6. NetworkInv' /\ CleanInv'
  BY DEF NetworkInv, CleanInv, Closing
<1>7. Monitored' /\ SiteGoneClean'
  BY DEF IInv, PassInv, Monitored, SiteGoneClean, Inventory, Members
<1> QED
  BY <1>1, <1>2, <1>3, <1>4, <1>5, <1>6, <1>7 DEF IInv

\* The fields of a pass that is about to record a UID.
LEMMA RecordFields ==
  ASSUME work \in WorkType, NEW u \in Nat, work' = [work EXCEPT !.at = "record", !.uid = u]
  PROVE  /\ work' \in WorkType
         /\ work'.at = "record" /\ work'.k = work.k /\ work'.uid = u
         /\ work'.del = work.del
<1>1. work'.at = "record" /\ work'.k = work.k /\ work'.uid = u
  BY DEF WorkType
<1>2. work'.del = work.del
  BY DEF WorkType
<1>3. /\ work.del \in BOOLEAN /\ work.k \in 1..3 /\ work.hold \in SUBSET Gates
      /\ "record" \in Labels
  BY DEF WorkType, Labels, Making
<1>4. work' = [at |-> "record", del |-> work.del, k |-> work.k, uid |-> u, hold |-> work.hold]
  BY DEF WorkType
<1>5. work' \in WorkType
  BY <1>3, <1>4 DEF WorkType
<1> QED
  BY <1>1, <1>2, <1>5

\* ResourceStore.Ensure.
LEMMA EnsurePartStep ==
  ASSUME IInv, EnsurePart
  PROVE  IInv'
<1> DEFINE k == Sequence[work.k]
<1>0. /\ work.at = "ensure" /\ k \in Parts /\ work \in WorkType
      /\ UNCHANGED <<topo, hops, bfd, gate, late, site>>
  BY PartOf DEF EnsurePart, Is, IInv, Shapes
<1>1. CASE Gone(k) /\ Store([svpc EXCEPT !.recs[k] = 0], "idle") /\ UNCHANGED <<kube, intent, issued>>
  <2> DEFINE new == [svpc EXCEPT !.recs[k] = 0]
  <2>1. /\ new \in SvpcType /\ new.stage = svpc.stage
        /\ new.gate = svpc.gate /\ new.rows = svpc.rows
        /\ new.recs = [svpc.recs EXCEPT ![k] = 0]
    BY <1>0, RecordsFit DEF SvpcType
  <2>2. \A j \in Parts : new.recs[j] \in {0, svpc.recs[j]}
    BY <1>0, <2>1, RecordsFit DEF SvpcType
  <2>3. Store(new, "idle")
    BY <1>1
  <2> HIDE DEF new
  <2>4. \A j \in Parts : new.recs[j] # 0 => kube[j].uid \in {0, new.recs[j]}
    BY <2>2, RecordsFit
  <2> QED
    BY <1>0, <1>1, <2>1, <2>3, <2>4, StoreStep
<1>2. CASE /\ kube[k].uid = 0 /\ ~Gone(k)
           /\ kube' = [kube EXCEPT ![k] = [uid |-> issued + 1, dying |-> FALSE]]
           /\ issued' = issued + 1
           /\ work' = [work EXCEPT !.at = "record", !.uid = issued + 1]
           /\ intent' = IF k = "Vpc" THEN Rendered ELSE intent
           /\ UNCHANGED svpc
  <2> DEFINE o == [uid |-> issued + 1, dying |-> FALSE]
  <2>1. o \in Object /\ o.uid = issued + 1 /\ ~o.dying /\ issued + 1 \in Nat /\ issued + 1 # 0
    BY DEF IInv, Shapes, Object
  <2> HIDE DEF o
  <2>2. kube' = [kube EXCEPT ![k] = o]
    BY <1>2 DEF o
  <2>3. kube' \in [Parts -> Object] /\ kube'[k] = o /\ \A j \in Parts \ {k} : kube'[j] = kube[j]
    BY <1>0, <2>1, <2>2 DEF IInv, Shapes
  <2>4. /\ work' \in WorkType /\ work'.at = "record" /\ work'.k = work.k
        /\ work'.uid = issued + 1 /\ work'.del = work.del
    BY <1>0, <1>2, <2>1, RecordFields
  <2>5. svpc.recs[k] = 0
    BY <1>2 DEF Gone
  <2>6. intent' \in {intent, Rendered}
    BY <1>2
  <2> HIDE DEF k
  <2>7. Sequence[work'.k] = k
    BY <2>4 DEF k
  <2> QED
    BY <1>0, <1>2, <2>1, <2>3, <2>4, <2>5, <2>6, <2>7, RenderStep
<1>3. CASE Done /\ UNCHANGED <<svpc, kube, intent, issued>>
  BY <1>0, <1>3, DoneStep DEF world
<1>4. CASE /\ kube[k].uid # 0
           /\ intent' = IF k = "Vpc" THEN Rendered ELSE intent
           /\ IF svpc.recs[k] = kube[k].uid THEN NextPart
              ELSE work' = [work EXCEPT !.at = "record", !.uid = kube[k].uid]
           /\ UNCHANGED <<svpc, kube, issued>>
  <2>1. kube[k].uid \in Nat /\ kube \in [Parts -> Object] /\ issued \in Nat
    BY <1>0 DEF IInv, Shapes, Object
  <2>2. /\ work' \in WorkType /\ work'.del = work.del
        /\ \/ work'.at \in {"ensure", "ready"}
           \/ work'.at = "record" /\ work'.k = work.k /\ work'.uid = kube[k].uid
    BY <1>0, <1>4, <2>1, NextPartFields, RecordFields
  <2>3. intent' \in {intent, Rendered}
    BY <1>4
  <2> HIDE DEF k
  <2>4. work'.k = work.k => Sequence[work'.k] = k
    BY DEF k
  <2> QED
    BY <1>0, <1>4, <2>1, <2>2, <2>3, <2>4, RenderStep
<1> QED
  BY <1>1, <1>2, <1>3, <1>4 DEF EnsurePart

\* The UID that was seen is recorded.
LEMMA RecordPartStep ==
  ASSUME IInv, RecordPart
  PROVE  IInv'
<1> DEFINE k == Sequence[work.k]
<1>0. /\ work.at = "record" /\ k \in Parts
      /\ UNCHANGED <<kube, intent, topo, hops, bfd, gate, issued, late, site>>
  BY PartOf DEF RecordPart, Is
<1>1. CASE Done /\ UNCHANGED svpc
  BY <1>0, <1>1, DoneStep DEF world
<1>2. CASE svpc' = [svpc EXCEPT !.recs[k] = work.uid] /\ NextPart
  <2>1. work.uid \in Nat /\ kube[k].uid \in {0, work.uid}
    BY <1>0 DEF IInv, Shapes, WorkType, RecordInv
  <2>2. /\ svpc' \in SvpcType /\ svpc'.stage = svpc.stage
        /\ svpc'.gate = svpc.gate /\ svpc'.rows = svpc.rows
        /\ svpc'.recs = [svpc.recs EXCEPT ![k] = work.uid]
    BY <1>0, <1>2, <2>1, RecordsFit DEF SvpcType
  <2>3. \A j \in Parts : svpc'.recs[j] = IF j = k THEN work.uid ELSE svpc.recs[j]
    BY <1>0, <2>2, RecordsFit DEF SvpcType
  <2>4. \A j \in Parts : svpc'.recs[j] # 0 => kube[j].uid \in {0, svpc'.recs[j]}
    BY <2>1, <2>3, RecordsFit
  <2> HIDE DEF k
  <2> QED
    BY <1>0, <1>2, <2>2, <2>4, NextPartFields, SaveStep DEF Making
<1> QED
  BY <1>1, <1>2 DEF RecordPart

\* The transit Subnet is there when the pass goes on to rows and gateway.
LEMMA SubnetsReadyStep ==
  ASSUME IInv, SubnetsReady
  PROVE  IInv'
<1>0. work.at = "ready" /\ ~work.del /\ UNCHANGED world
  BY DEF SubnetsReady, Is, IInv, PassInv, Making, world
<1>1. CASE Done
  BY <1>0, <1>1, DoneStep
<1>2. CASE Up("Transit") /\ To("rows")
  <2>1. work' \in WorkType /\ work'.at = "rows" /\ work'.del = work.del
    BY <1>2, ToFields DEF IInv, Shapes, Labels, Making
  <2>2. PassInv' /\ NetworkInv' /\ CleanInv'
    BY <1>0, <1>2, <2>1 DEF IInv, PassInv, NetworkInv, CleanInv, Making, Removing, Closing, Up, world
  <2> QED
    BY <1>0, <2>1, <2>2, MoveStep DEF Closing
<1> QED
  BY <1>1, <1>2 DEF SubnetsReady

\* A row is created only where none is recorded.
LEMMA EnsureBFDStep ==
  ASSUME IInv, EnsureBFD
  PROVE  IInv'
<1>0. /\ work.at = "rows" /\ ~work.del /\ Up("Transit")
      /\ UNCHANGED <<kube, intent, topo, hops, gate, late, site>>
  BY DEF EnsureBFD, Is, IInv, PassInv, NetworkInv, Making
<1>1. CASE Done /\ UNCHANGED <<svpc, bfd, issued>>
  BY <1>0, <1>1, DoneStep DEF world
<1>2. ASSUME NEW m \in Unborn, svpc.rows[m] = 0, bfd' = [bfd EXCEPT ![m] = issued + 1],
             issued' = issued + 1, UNCHANGED <<work, svpc>>
      PROVE  IInv'
  <2>1. m \in Members /\ m \in Gates /\ bfd[m] = 0
    BY DEF Unborn, IInv, Shapes, SiteType, Members
  <2>2. /\ bfd' \in [Gates -> Nat] /\ issued' \in Nat /\ bfd'[m] # 0
        /\ \A n \in Gates \ {m} : bfd'[n] = bfd[n]
    BY <1>2, <2>1 DEF IInv, Shapes
  <2>3. Shapes' /\ PassInv'
    BY <1>0, <1>2, <2>2 DEF IInv, Shapes, PassInv
  <2>4. RecordInv'
    BY <1>0, <1>2, <2>1, <2>2 DEF IInv, RecordInv, Members
  <2>5. RouteInv' /\ Monitored'
    <3>1. ASSUME NEW n \in Members, ~site.hurt
          PROVE  /\ intent[n] # 0 => bfd'[n] = intent[n]
                 /\ svpc.rows[n] # 0 => bfd'[n] = svpc.rows[n]
                 /\ hops[n].there => hops[n].ref = bfd'[n] /\ bfd'[n] # 0
      <4>1. n \in Gates
        BY DEF IInv, Shapes, SiteType, Members
      <4>2. /\ intent[n] # 0 => bfd[n] = intent[n]
            /\ svpc.rows[n] # 0 => bfd[n] = svpc.rows[n]
            /\ hops[n].there => hops[n].ref = bfd[n] /\ bfd[n] # 0
        BY <1>0, <3>1 DEF IInv, RouteInv, Current, Monitored
      <4>3. CASE n = m
        BY <1>2, <2>1, <4>2, <4>3
      <4>4. CASE n # m
        BY <2>2, <4>1, <4>2, <4>4
      <4> QED
        BY <4>3, <4>4
    <3>2. RouteInv'
      BY <1>0, <1>2, <3>1 DEF RouteInv, Closing, Members
    <3>3. Monitored'
      BY <1>0, <1>2, <3>1 DEF Monitored, Members
    <3> QED
      BY <3>2, <3>3
  <2>6. NetworkInv' /\ CleanInv' /\ GatewayFirst'
    BY <1>0, <1>2 DEF IInv, NetworkInv, CleanInv, GatewayFirst, Closing, Up
  <2>7. SiteGoneClean'
    BY <1>0, <1>2 DEF IInv, PassInv, SiteGoneClean, Inventory
  <2> QED
    BY <2>3, <2>4, <2>5, <2>6, <2>7 DEF IInv
<1>3. CASE Store([svpc EXCEPT !.rows = Rows], "idle") /\ UNCHANGED <<bfd, issued>>
  <2> DEFINE new == [svpc EXCEPT !.rows = Rows]
  <2>1. Rows \in [Gates -> Nat] /\ \A m \in Gates : Rows[m] \in {bfd[m], 0}
    BY DEF IInv, Shapes, Rows
  <2>2. /\ new \in SvpcType /\ new.stage = svpc.stage /\ new.recs = svpc.recs
        /\ new.gate = svpc.gate /\ new.rows = Rows
    BY <2>1, RecordsFit DEF SvpcType
  <2>3. Store(new, "idle")
    BY <1>3
  <2> HIDE DEF new
  <2> QED
    BY <1>0, <1>3, <2>1, <2>2, <2>3, RecordsFit, StoreStep
<1>4. CASE To("gateway") /\ UNCHANGED <<svpc, bfd, issued>>
  <2>1. work' \in WorkType /\ work'.at = "gateway" /\ work'.del = work.del
    BY <1>4, ToFields DEF IInv, Shapes, Labels, Making
  <2>2. PassInv' /\ NetworkInv' /\ CleanInv'
    BY <1>0, <1>4, <2>1 DEF IInv, PassInv, NetworkInv, CleanInv, Making, Removing, Closing, Up
  <2> QED
    BY <1>0, <1>4, <2>1, <2>2, MoveStep DEF Closing, world
<1> QED
  BY <1>1, <1>2, <1>3, <1>4 DEF EnsureBFD

\* A step of the gateway's life, which may end the pass.
LEMMA GateStep ==
  ASSUME IInv, UNCHANGED <<svpc, kube, intent, topo, hops, bfd>>,
         gate' \in [Pieces -> Object], issued' \in Nat, late' \in SUBSET Pieces,
         site' \in SiteType, site'.members = site.members, site'.hurt = site.hurt,
         work' \in WorkType,
         \/ work' = work
         \/ work'.at = "idle" /\ ~work'.del
         \/ work.at = "gateway" /\ work'.at = "receipt" /\ work'.del = work.del,
         \A o \in Pieces : svpc.gate[o] # 0 => gate'[o].uid \in {0, svpc.gate[o]},
         \A o \in late' : gate'[o].uid = 0 /\ svpc.gate[o] = 0,
         svpc.stage = "gone" => \A o \in Pieces : gate'[o].uid = 0 \/ site'.stray,
         NetworkInv', GatewayFirst'
  PROVE  IInv'
<1>1. Shapes'
  BY DEF IInv, Shapes
<1>2. PassInv'
  BY DEF IInv, PassInv, Making, Removing, Closing
<1>3. RecordInv'
  BY DEF IInv, RecordInv, Members
<1>4. RouteInv'
  BY DEF IInv, RouteInv, Current, Closing, Members
<1>5. CleanInv' /\ Monitored'
  BY DEF IInv, CleanInv, Monitored, Members
<1>6. SiteGoneClean'
  BY DEF IInv, SiteGoneClean, Inventory, NoReceipts
<1> QED
  BY <1>1, <1>2, <1>3, <1>4, <1>5, <1>6 DEF IInv

\* Budgets are all that some faults change of the site.
LEMMA Budgets ==
  ASSUME site \in SiteType, NEW a \in Int,
         \/ site' = site
         \/ site' = [site EXCEPT !.crashes = a]
         \/ site' = [site EXCEPT !.losses = a]
         \/ site' = [site EXCEPT !.joins = a]
  PROVE  /\ site' \in SiteType
         /\ site'.members = site.members
         /\ site'.hurt = site.hurt /\ site'.stray = site.stray
<1>1. site' \in SiteType
  BY DEF SiteType
<1>2. site'.members = site.members
  BY DEF SiteType
<1>3. site'.hurt = site.hurt /\ site'.stray = site.stray
  BY DEF SiteType
<1> QED
  BY <1>1, <1>2, <1>3

\* A pass that ends with one crash less to come.
LEMMA CrashStep ==
  ASSUME IInv, Done, UNCHANGED <<svpc, kube, intent, topo, hops, bfd, gate, issued>>,
         site' = [site EXCEPT !.crashes = @ - 1], late' = late
  PROVE  IInv'
<1>1. /\ site' \in SiteType /\ site'.members = site.members
      /\ site'.hurt = site.hurt /\ site'.stray = site.stray
  <2>1. site \in SiteType /\ site.crashes - 1 \in Int
    BY DEF IInv, Shapes, SiteType
  <2> QED
    BY <2>1, Budgets
<1>2. work' \in WorkType /\ work'.at = "idle" /\ ~work'.del
  BY DoneFields
<1>3. Shapes' /\ PassInv'
  BY <1>1, <1>2 DEF IInv, Shapes, PassInv, Making, Removing, Closing
<1>4. RecordInv' /\ NetworkInv' /\ CleanInv'
  BY <1>1, <1>2 DEF IInv, RecordInv, NetworkInv, CleanInv, Closing, Members
<1>5. RouteInv'
  BY <1>1, <1>2 DEF IInv, RouteInv, Current, Closing, Members
<1>6. Monitored' /\ GatewayFirst' /\ SiteGoneClean'
  BY <1>1 DEF IInv, Monitored, GatewayFirst, SiteGoneClean, Inventory, Up, Members
<1> QED
  BY <1>3, <1>4, <1>5, <1>6 DEF IInv

\* What a create changes: only objects that are lacking.
LEMMA CreateFields ==
  ASSUME IInv, NEW O \in SUBSET Pieces, Create(O)
  PROVE  /\ gate' \in [Pieces -> Object] /\ issued' \in Nat
         /\ \A o \in Pieces : gate'[o] = gate[o] \/ (o \in O /\ gate[o].uid = 0)
<1>1. /\ issued \in Nat /\ gate \in [Pieces -> Object]
      /\ [uid |-> issued + 1, dying |-> FALSE] \in Object
  BY DEF IInv, Shapes, Object
<1>2. issued' \in Nat
  BY <1>1 DEF Create
<1> DEFINE new == [uid |-> issued + 1, dying |-> FALSE]
<1>3. gate' = [o \in Pieces |-> IF o \in O \cap Lacking THEN new ELSE gate[o]]
  BY DEF Create
<1> HIDE DEF new
<1>4. new \in Object
  BY <1>1 DEF new
<1> QED
  BY <1>1, <1>2, <1>3, <1>4 DEF Lacking

\* The gateway is created in its network; of a request that is cut off, what is
\* still to come is neither there nor recorded.
LEMMA EnsureGatewayStep ==
  ASSUME IInv, EnsureGateway
  PROVE  IInv'
<1>0. /\ work.at = "gateway" /\ ~work.del /\ Up("Transit") /\ svpc.stage # "gone"
      /\ UNCHANGED <<svpc, kube, intent, topo, hops, bfd>>
  BY DEF EnsureGateway, Is, IInv, PassInv, NetworkInv, Making
<1>1. CASE Done /\ UNCHANGED <<gate, issued, late, site>>
  BY <1>0, <1>1, DoneStep DEF world
<1>2. ASSUME EnsureAccepted, NEW O \in SUBSET Pieces, Create(O),
             late' \in SUBSET Pieces, late' \cap O = {}, late' \subseteq Lacking,
             \/ To("receipt") /\ UNCHANGED site
             \/ Done /\ site' = [site EXCEPT !.crashes = @ - 1]
      PROVE  IInv'
  <2>1. /\ gate' \in [Pieces -> Object] /\ issued' \in Nat
        /\ \A o \in Pieces : gate'[o] = gate[o] \/ (o \in O /\ gate[o].uid = 0)
    BY <1>2, CreateFields
  <2>2. /\ work' \in WorkType
        /\ \/ work'.at = "receipt" /\ work'.del = work.del
           \/ work'.at = "idle" /\ ~work'.del
    BY <1>2, ToFields, DoneFields DEF IInv, Shapes, Labels, Making
  <2>3. /\ site' \in SiteType /\ site'.members = site.members
        /\ site'.hurt = site.hurt /\ site'.stray = site.stray
    <3>1. site \in SiteType /\ site.crashes - 1 \in Int
      BY DEF IInv, Shapes, SiteType
    <3> QED
      BY <1>2, <3>1, Budgets
  <2>4. \A o \in Pieces : svpc.gate[o] # 0 => gate'[o].uid \in {0, svpc.gate[o]}
    BY <1>2, <2>1 DEF IInv, RecordInv, EnsureAccepted, Lacking
  <2>5. \A o \in late' : gate'[o].uid = 0 /\ svpc.gate[o] = 0
    BY <1>2, <2>1 DEF EnsureAccepted, Lacking
  <2>6. NetworkInv' /\ GatewayFirst'
    BY <1>0, <2>2 DEF NetworkInv, GatewayFirst, Closing, Up
  <2> QED
    BY <1>0, <1>2, <2>1, <2>2, <2>3, <2>4, <2>5, <2>6, GateStep
<1>3. CASE EnsureAccepted /\ To("receipt") /\ Create(Pieces) /\ late' = {} /\ UNCHANGED site
  BY <1>2, <1>3
<1>4. CASE /\ EnsureAccepted /\ Done /\ site' = [site EXCEPT !.crashes = @ - 1]
           /\ "ConfigMap" \in Lacking /\ Create({}) /\ late' = late \cup {"ConfigMap"}
  <2>1. late' \in SUBSET Pieces /\ late' \subseteq Lacking
    BY <1>4 DEF IInv, Shapes, RecordInv, Lacking
  <2> QED
    BY <1>2, <1>4, <2>1
<1>5. CASE /\ EnsureAccepted /\ Done /\ site' = [site EXCEPT !.crashes = @ - 1]
           /\ "Pod" \in Lacking /\ Create({"ConfigMap"}) /\ late' = {"Pod"}
  <2>1. late' \in SUBSET Pieces /\ {"ConfigMap"} \in SUBSET Pieces
    BY <1>5 DEF Pieces
  <2> QED
    BY <1>2, <1>5, <2>1
<1> QED
  BY <1>1, <1>3, <1>4, <1>5 DEF EnsureGateway

\* The gateway that exists now is recorded.
LEMMA SaveGatewayStep ==
  ASSUME IInv, SaveGateway
  PROVE  IInv'
<1>0. /\ work.at = "receipt" /\ ~work.del
      /\ UNCHANGED <<kube, intent, topo, hops, bfd, gate, issued, late, site>>
  BY DEF SaveGateway, Is, IInv, PassInv, Making
<1>1. CASE To("fields") /\ UNCHANGED svpc
  BY <1>0, <1>1, ToStep DEF Labels, Making, Removing, Closing, world
<1>2. CASE Store([svpc EXCEPT !.gate = Inventory], "fields")
  <2> DEFINE new == [svpc EXCEPT !.gate = Inventory]
  <2>1. Inventory \in [Pieces -> Nat]
    BY InventoryFits
  <2>2. /\ new \in SvpcType /\ new.stage = svpc.stage /\ new.recs = svpc.recs
        /\ new.gate = Inventory /\ new.rows = svpc.rows
    BY <2>1, RecordsFit DEF SvpcType
  <2>3. Store(new, "fields")
    BY <1>2
  <2> HIDE DEF new
  <2> QED
    BY <1>0, <2>2, <2>3, RecordsFit, StoreStep DEF Making
<1> QED
  BY <1>1, <1>2 DEF SaveGateway

\* A step that changes routes in the router, and at most ends the pass.
LEMMA HopStep ==
  ASSUME IInv, UNCHANGED <<svpc, kube, intent, topo, bfd, gate, issued, late, site>>,
         UNCHANGED work \/ Done, hops' \in [Gates -> Hop], Monitored'
  PROVE  IInv'
<1>1. work' = work \/ (work' \in WorkType /\ work'.at = "idle" /\ ~work'.del)
  BY DoneFields
<1>2. Shapes' /\ PassInv'
  BY <1>1 DEF IInv, Shapes, PassInv, Making, Removing, Closing
<1>3. RecordInv' /\ NetworkInv' /\ CleanInv'
  BY <1>1 DEF IInv, RecordInv, NetworkInv, CleanInv, Closing, Members, Up
<1>4. RouteInv'
  BY <1>1 DEF IInv, RouteInv, Current, Closing, Members
<1>5. GatewayFirst' /\ SiteGoneClean'
  BY DEF IInv, GatewayFirst, SiteGoneClean, Inventory, Up
<1> QED
  BY <1>2, <1>3, <1>4, <1>5 DEF IInv

\* Flow hashing changes neither a route's presence nor its reference.
LEMMA EnsureECMPFieldsStep ==
  ASSUME IInv, EnsureECMPFields
  PROVE  IInv'
<1>1. ASSUME NEW m \in Gates
      PROVE  /\ hops'[m] \in Hop /\ hops'[m].ref = hops[m].ref
             /\ hops'[m].there => hops[m].there
  <2>1. hops[m] \in Hop
    BY DEF IInv, Shapes
  <2>2. hops'[m] = hops[m] \/ hops'[m] = [hops[m] EXCEPT !.fields = TRUE]
    BY DEF EnsureECMPFields
  <2> QED
    BY <2>1, <2>2 DEF Hop
<1>2. hops' \in [Gates -> Hop]
  BY <1>1 DEF EnsureECMPFields
<1>3. Monitored'
  <2>1. Members \subseteq Gates
    BY DEF IInv, Shapes, SiteType, Members
  <2> QED
    BY <1>1, <2>1 DEF IInv, Monitored, Members, EnsureECMPFields
<1> QED
  BY <1>2, <1>3, HopStep DEF EnsureECMPFields

-----------------------------------------------------------------------------
(* remove.                                                                 *)

\* The durable operation.
LEMMA DrainCheckStep ==
  ASSUME IInv, DrainCheck
  PROVE  IInv'
<1>0. /\ work.at = "drain" /\ work.del
      /\ UNCHANGED <<kube, intent, topo, hops, bfd, gate, issued, late, site>>
  BY DEF DrainCheck, Is, IInv, PassInv, Removing
<1>1. CASE Done /\ UNCHANGED svpc
  BY <1>0, <1>1, DoneStep DEF world
<1>2. CASE Store([svpc EXCEPT !.op = "DeleteGateway"], "idle")
  <2> DEFINE new == [svpc EXCEPT !.op = "DeleteGateway"]
  <2>1. /\ new \in SvpcType /\ new.stage = svpc.stage /\ new.recs = svpc.recs
        /\ new.gate = svpc.gate /\ new.rows = svpc.rows
    BY RecordsFit DEF SvpcType
  <2>2. Store(new, "idle")
    BY <1>2
  <2> HIDE DEF new
  <2> QED
    BY <1>0, <2>1, <2>2, RecordsFit, StoreStep
<1>3. CASE To("ungate") /\ UNCHANGED svpc
  BY <1>0, <1>3, ToStep DEF Labels, Making, Removing, Closing, world
<1>4. CASE svpc.op = "DeleteResources" /\ To("withdraw") /\ UNCHANGED svpc
  <2>1. work'.at = "withdraw"
    BY <1>4, ToFields DEF IInv, Shapes, Labels, Removing
  <2>2. NetworkInv'
    BY <1>0, <1>4, <2>1 DEF IInv, NetworkInv, Closing, Up
  <2> QED
    BY <1>0, <1>4, <2>2, ToStep DEF Labels, Making, Removing, Closing, world
<1>5. svpc.op \in {"", "DeleteGateway", "DeleteResources"}
  BY DEF IInv, Shapes, SvpcType
<1> QED
  BY <1>1, <1>2, <1>3, <1>4, <1>5 DEF DrainCheck

\* The gateway is asked to go, and seen to be gone.
LEMMA DeleteGatewayStep ==
  ASSUME IInv, DeleteGateway
  PROVE  IInv'
<1>0. /\ work.at = "ungate" /\ work.del
      /\ UNCHANGED <<kube, intent, topo, hops, bfd, issued, late>>
  BY DEF DeleteGateway, Is, IInv, PassInv, Removing
<1>1. CASE Done /\ UNCHANGED <<svpc, gate, site>>
  BY <1>0, <1>1, DoneStep DEF world
<1>2. CASE /\ Inventory = NoReceipts /\ UNCHANGED <<gate, site>>
           /\ Store([svpc EXCEPT !.gate = NoReceipts, !.op = "DeleteResources"], "idle")
  <2> DEFINE new == [svpc EXCEPT !.gate = NoReceipts, !.op = "DeleteResources"]
  <2>1. NoReceipts \in [Pieces -> Nat]
    BY <1>2, InventoryFits
  <2>2. /\ new \in SvpcType /\ new.stage = svpc.stage /\ new.recs = svpc.recs
        /\ new.gate = Inventory /\ new.rows = svpc.rows
    BY <1>2, <2>1, RecordsFit DEF SvpcType
  <2>3. Store(new, "idle")
    BY <1>2
  <2> HIDE DEF new
  <2> QED
    BY <1>0, <1>2, <2>2, <2>3, RecordsFit, StoreStep
<1>3. ASSUME gate' \in [Pieces -> Object],
             \A o \in Pieces : gate'[o].uid \in {0, gate[o].uid},
             Done, UNCHANGED svpc, site' = site \/ site' = [site EXCEPT !.crashes = @ - 1]
      PROVE  IInv'
  <2>1. /\ site' \in SiteType /\ site'.members = site.members
        /\ site'.hurt = site.hurt /\ site'.stray = site.stray
    <3>1. site \in SiteType /\ site.crashes - 1 \in Int
      BY DEF IInv, Shapes, SiteType
    <3> QED
      BY <1>3, <3>1, Budgets
  <2>2. work' \in WorkType /\ work'.at = "idle" /\ ~work'.del
    BY <1>3, DoneFields
  <2>3. /\ issued' \in Nat /\ late' \in SUBSET Pieces /\ svpc.stage # "gone"
        /\ \A o \in Pieces : svpc.gate[o] # 0 => gate'[o].uid \in {0, svpc.gate[o]}
        /\ \A o \in late' : gate'[o].uid = 0 /\ svpc.gate[o] = 0
    BY <1>0, <1>3 DEF IInv, Shapes, PassInv, RecordInv
  <2>4. NetworkInv' /\ GatewayFirst'
    BY <1>0, <1>3, <2>1, <2>2 DEF IInv, NetworkInv, GatewayFirst, Closing, Up, Pieces
  <2> QED
    BY <1>0, <1>3, <2>1, <2>2, <2>3, <2>4, GateStep
<1>4. CASE /\ Done /\ UNCHANGED svpc /\ (DeletePieces(Pieces) \/ DeletePieces({"Pod"}))
           /\ site' = site \/ site' = [site EXCEPT !.crashes = @ - 1]
  <2>1. PICK O \in SUBSET Pieces : DeletePieces(O)
    BY <1>4 DEF Pieces
  <2>2. Nothing \in Object /\ Nothing.uid = 0 /\ gate \in [Pieces -> Object]
    BY DEF Nothing, IInv, Shapes, Object
  <2>3. ASSUME NEW o \in Pieces
        PROVE  gate'[o] \in Object /\ gate'[o].uid \in {0, gate[o].uid}
    <3> DEFINE dying == [gate[o] EXCEPT !.dying = gate[o].uid # 0]
    <3>1. dying \in Object /\ dying.uid = gate[o].uid
      BY <2>2 DEF Object
    <3>2. gate'[o] \in {gate[o], dying, Nothing}
      BY <2>1 DEF DeletePieces
    <3> QED
      BY <2>2, <3>1, <3>2
  <2>4. gate' \in [Pieces -> Object]
    BY <2>1, <2>3 DEF DeletePieces
  <2> QED
    BY <1>3, <1>4, <2>3, <2>4
<1> QED
  BY <1>1, <1>2, <1>4 DEF DeleteGateway

\* The routes go out of the spec once the gateway is gone.
LEMMA SiteWithdrawStep ==
  ASSUME IInv, SiteWithdraw
  PROVE  IInv'
<1>0. /\ work.at = "withdraw" /\ work.del
      /\ UNCHANGED <<svpc, kube, topo, hops, bfd, gate, issued, late, site>>
  BY DEF SiteWithdraw, Is, IInv, PassInv, Removing, Closing
<1>1. CASE Done /\ UNCHANGED intent
  BY <1>0, <1>1, DoneStep DEF world
<1>2. CASE gate["Pod"].uid = 0 /\ intent' = [m \in Gates |-> 0] /\ To("unbfd")
  <2>1. work' \in WorkType /\ work'.at = "unbfd" /\ work'.del = work.del
    BY <1>2, ToFields DEF IInv, Shapes, Labels, Removing, Closing
  <2>2. intent' \in [Gates -> Nat] /\ \A m \in Gates : intent'[m] = 0
    BY <1>2
  <2>3. Shapes' /\ PassInv'
    BY <1>0, <2>1, <2>2 DEF IInv, Shapes, PassInv, Making, Removing, Closing
  <2>4. RecordInv' /\ NetworkInv' /\ CleanInv'
    BY <1>0, <1>2, <2>1 DEF IInv, RecordInv, NetworkInv, Up, CleanInv, Members
  <2>5. RouteInv'
    BY <1>0, <2>1, <2>2 DEF IInv, Shapes, SiteType, PassInv, RouteInv, Current, Members
  <2>6. Monitored' /\ GatewayFirst' /\ SiteGoneClean'
    BY <1>0 DEF IInv, Monitored, GatewayFirst, SiteGoneClean, Inventory, Up, Members
  <2> QED
    BY <2>3, <2>4, <2>5, <2>6 DEF IInv
<1> QED
  BY <1>1, <1>2 DEF SiteWithdraw, TransitFree

\* Rows are deleted together, and only when no route refers to one of them: as
\* routes are monitored, no route is left.
LEMMA DeleteBFDStep ==
  ASSUME IInv, DeleteBFD
  PROVE  IInv'
<1>0. /\ work.at = "unbfd" /\ work.del /\ svpc.stage # "live"
      /\ \A m \in Gates : intent[m] = 0
      /\ gate["Pod"].uid = 0 \/ site.stray
      /\ UNCHANGED <<kube, intent, topo, hops, gate, issued, late, site>>
  BY DEF DeleteBFD, Is, IInv, PassInv, RouteInv, NetworkInv, Removing, Closing
<1>1. CASE Done /\ UNCHANGED <<svpc, bfd>>
  BY <1>0, <1>1, DoneStep DEF world
<1>2. CASE /\ \A m \in {n \in Members : bfd[n] # 0} : Unreferenced(m)
           /\ bfd' = [m \in Gates |-> 0] /\ Done /\ UNCHANGED svpc
  <2>1. work' \in WorkType /\ work'.at = "idle" /\ ~work'.del
    BY <1>2, DoneFields
  <2>2. bfd' \in [Gates -> Nat] /\ \A m \in Gates : bfd'[m] = 0
    BY <1>2
  <2>3. Members \subseteq Gates
    BY DEF IInv, Shapes, SiteType, Members
  <2>4. Shapes' /\ PassInv'
    BY <1>0, <1>2, <2>1, <2>2 DEF IInv, Shapes, PassInv, Making, Removing, Closing
  <2>5. RecordInv' /\ NetworkInv' /\ CleanInv'
    BY <1>0, <1>2, <2>1, <2>2 DEF IInv, RecordInv, NetworkInv, CleanInv, Closing, Members
  <2>6. RouteInv'
    BY <1>0, <1>2, <2>1, <2>3 DEF RouteInv, Current, Closing, Members
  <2>7. Monitored'
    <3>1. ASSUME NEW m \in Members, ~site.hurt PROVE ~hops[m].there
      BY <1>2, <3>1 DEF IInv, Monitored, Unreferenced
    <3> QED
      BY <1>0, <3>1 DEF Monitored, Members
  <2>8. GatewayFirst' /\ SiteGoneClean'
    BY <1>0, <1>2, <2>2 DEF IInv, GatewayFirst, SiteGoneClean, Inventory, Up
  <2> QED
    BY <2>4, <2>5, <2>6, <2>7, <2>8 DEF IInv
<1>3. CASE /\ Store([svpc EXCEPT !.rows = [m \in Gates |-> 0]], "idle")
           /\ UNCHANGED bfd
  <2> DEFINE none == [m \in Gates |-> 0]
  <2> DEFINE new == [svpc EXCEPT !.rows = none]
  <2>1. none \in [Gates -> Nat] /\ \A m \in Gates : none[m] = 0
    OBVIOUS
  <2>2. Store(new, "idle")
    BY <1>3
  <2> HIDE DEF none
  <2>3. /\ new \in SvpcType /\ new.stage = svpc.stage /\ new.recs = svpc.recs
        /\ new.gate = svpc.gate /\ new.rows = none
    BY <2>1, RecordsFit DEF SvpcType
  <2> HIDE DEF new
  <2> QED
    BY <1>0, <1>3, <2>1, <2>2, <2>3, RecordsFit, StoreStep
<1>4. CASE /\ {m \in Members : bfd[m] # 0} = {}
           /\ To("delete") /\ UNCHANGED <<svpc, bfd>>
  <2>1. work' \in WorkType /\ work'.at = "delete" /\ work'.del = work.del /\ work'.k = 1
    BY <1>4, ToFields DEF IInv, Shapes, Labels, Removing, Closing
  <2>2. \A m \in Gates : bfd[m] = 0
    BY <1>4 DEF IInv, RecordInv
  <2>3. PassInv' /\ NetworkInv' /\ CleanInv'
    BY <1>0, <1>4, <2>1, <2>2 DEF IInv, PassInv, NetworkInv, Up, CleanInv, Making, Removing, Closing
  <2> QED
    BY <1>0, <1>4, <2>1, <2>3, MoveStep DEF world
<1> QED
  BY <1>1, <1>2, <1>3, <1>4 DEF DeleteBFD

\* Each resource is gone before the next is deleted, the Subnets before the Vpc.
LEMMA DeletePartStep ==
  ASSUME IInv, DeletePart
  PROVE  IInv'
<1> DEFINE k == Removal[work.k]
<1>0. /\ work.at = "delete" /\ work.del /\ k \in Parts /\ work.k \in 1..3
      /\ gate["Pod"].uid = 0 \/ site.stray
      /\ \A m \in Gates : bfd[m] = 0 /\ intent[m] = 0
      /\ UNCHANGED <<svpc, intent, topo, hops, bfd, gate, issued, late, site>>
  BY PartOf DEF DeletePart, Is, IInv, Shapes, WorkType, PassInv, RouteInv, NetworkInv, CleanInv,
     Removing, Closing
<1>1. CASE kube' = [kube EXCEPT ![k].dying = TRUE] /\ Done
  <2>1. work' \in WorkType /\ work'.at = "idle" /\ ~work'.del
    BY <1>1, DoneFields
  <2>2. /\ kube' \in [Parts -> Object]
        /\ \A j \in Parts : kube'[j].uid = kube[j].uid
    <3>1. kube \in [Parts -> Object]
      BY DEF IInv, Shapes
    <3> QED
      BY <1>0, <1>1, <3>1 DEF Object
  <2>3. Shapes' /\ PassInv'
    BY <1>0, <2>1, <2>2 DEF IInv, Shapes, PassInv, Making, Removing, Closing
  <2>4. RecordInv' /\ NetworkInv' /\ CleanInv'
    BY <1>0, <2>1, <2>2 DEF IInv, RecordInv, NetworkInv, CleanInv, Closing, Members
  <2>5. RouteInv'
    BY <1>0, <2>1 DEF IInv, RouteInv, Current, Closing, Members
  <2>6. GatewayFirst'
    BY <1>0 DEF GatewayFirst
  <2>7. Monitored' /\ SiteGoneClean'
    BY <1>0, <2>2 DEF IInv, PassInv, Monitored, SiteGoneClean, Inventory, Members
  <2> QED
    BY <2>3, <2>4, <2>5, <2>6, <2>7 DEF IInv
<1>2. CASE kube[k].uid = 0 /\ UNCHANGED kube /\ work.k = 3 /\ To("absent")
  <2>1. work' \in WorkType /\ work'.at = "absent" /\ work'.del = work.del
    BY <1>2, ToFields DEF IInv, Shapes, Labels, Removing, Closing
  <2>2. k = "Vpc"
    BY <1>2 DEF Removal
  <2>3. \A j \in Parts : kube[j].uid = 0
    BY <1>0, <1>2, <2>2 DEF IInv, CleanInv, Parts
  <2>4. PassInv' /\ NetworkInv' /\ CleanInv'
    BY <1>0, <1>2, <2>1, <2>3 DEF IInv, PassInv, NetworkInv, Up, CleanInv, Making, Removing, Closing
  <2> QED
    BY <1>0, <1>2, <2>1, <2>4, MoveStep DEF world
<1>3. CASE kube[k].uid = 0 /\ UNCHANGED kube /\ work.k # 3 /\ work' = [work EXCEPT !.k = @ + 1]
  <2>1. work'.at = "delete" /\ work'.k = work.k + 1
    BY <1>0, <1>3 DEF IInv, Shapes, WorkType
  <2>2. work'.del = work.del
    BY <1>3 DEF IInv, Shapes, WorkType
  <2>3. work.k + 1 \in 1..3
    BY <1>0, <1>3
  <2>4. work' \in WorkType
    <3>1. /\ work.del \in BOOLEAN /\ work.uid \in Nat /\ work.hold \in SUBSET Gates
          /\ work.at \in Labels
      BY DEF IInv, Shapes, WorkType
    <3>2. work' = [at |-> work.at, del |-> work.del, k |-> work.k + 1, uid |-> work.uid,
                   hold |-> work.hold]
      BY <1>3 DEF IInv, Shapes, WorkType
    <3> QED
      BY <2>3, <3>1, <3>2 DEF WorkType
  <2>5. (work.k = 1 => k = "Subnet") /\ (work.k = 2 => k = "Transit")
    BY DEF Removal
  <2>6. CleanInv'
    BY <1>0, <1>3, <2>1, <2>5 DEF IInv, CleanInv
  <2>7. PassInv' /\ NetworkInv'
    BY <1>0, <1>3, <2>1, <2>2 DEF IInv, PassInv, NetworkInv, Up, Making, Removing, Closing
  <2> QED
    BY <1>0, <1>3, <2>1, <2>2, <2>4, <2>6, <2>7, MoveStep DEF world
<1> QED
  BY <1>1, <1>2, <1>3 DEF DeletePart

\* The finalizer goes after everything else.
LEMMA FinalizeStep ==
  ASSUME IInv, Finalize
  PROVE  IInv'
<1>0. /\ work.at = "absent" /\ Done
      /\ UNCHANGED <<kube, intent, topo, hops, bfd, gate, issued, late, site>>
  BY DEF Finalize, Is
<1>1. CASE UNCHANGED svpc
  BY <1>0, <1>1, DoneStep DEF world
<1>2. CASE OVNAbsent /\ svpc' = [svpc EXCEPT !.stage = "gone"]
  <2>1. /\ svpc' \in SvpcType /\ svpc'.stage = "gone" /\ svpc'.recs = svpc.recs
        /\ svpc'.gate = svpc.gate /\ svpc'.rows = svpc.rows
    BY <1>2 DEF IInv, Shapes, SvpcType
  <2>2. work' \in WorkType /\ work'.at = "idle" /\ ~work'.del
    BY <1>0, DoneFields
  <2>3. Shapes' /\ PassInv'
    BY <1>0, <2>1, <2>2 DEF IInv, Shapes, PassInv, Making, Removing, Closing
  <2>4. RecordInv' /\ NetworkInv' /\ CleanInv'
    BY <1>0, <2>1, <2>2 DEF IInv, RecordInv, NetworkInv, CleanInv, Closing, Members
  <2>5. RouteInv'
    BY <1>0, <2>1, <2>2 DEF IInv, RouteInv, Current, Closing, Members
  <2>6. Monitored' /\ GatewayFirst'
    BY <1>0 DEF IInv, Monitored, GatewayFirst, Up, Members
  <2>7. \A o \in Pieces : gate[o].uid = 0 \/ site.stray
    BY <1>0 DEF IInv, NetworkInv, CleanInv, Closing, Up, Parts, Pieces
  <2>8. SiteGoneClean'
    BY <1>0, <1>2, <2>7 DEF IInv, CleanInv, SiteGoneClean, OVNAbsent, Inventory, NoReceipts
  <2> QED
    BY <2>3, <2>4, <2>5, <2>6, <2>8 DEF IInv
<1> QED
  BY <1>1, <1>2 DEF Finalize

\* Every step of a pass.
LEMMA WorkStep ==
  ASSUME IInv, Work
  PROVE  IInv'
  BY StartStep, ObserveStep, ConflictsStep, EnsurePartStep, RecordPartStep, SubnetsReadyStep,
     EnsureBFDStep, EnsureGatewayStep, SaveGatewayStep, EnsureECMPFieldsStep, DrainCheckStep,
     DeleteGatewayStep, SiteWithdrawStep, DeleteBFDStep, DeletePartStep, FinalizeStep DEF Work

-----------------------------------------------------------------------------
(* Kube-OVN, the kubelet, users and faults.                                *)

\* A route is added with the row the spec names, which exists.
LEMMA KubeRoutesStep ==
  ASSUME IInv, KubeRoutes
  PROVE  IInv'
<1>1. PICK m \in Members :
        \/ /\ intent[m] # 0
           /\ hops' = [hops EXCEPT ![m] = [ref |-> IF bfd[m] = intent[m] THEN intent[m] ELSE 0,
                                           fields |-> FALSE, there |-> TRUE]]
        \/ hops' = [hops EXCEPT ![m] = NoHop]
  BY DEF KubeRoutes
<1> DEFINE r == IF bfd[m] = intent[m] THEN intent[m] ELSE 0
<1> DEFINE h == [ref |-> r, fields |-> FALSE, there |-> TRUE]
<1>2. Members \subseteq Gates /\ m \in Gates
  BY DEF IInv, Shapes, SiteType, Members
<1>3. r \in Nat
  BY <1>2 DEF IInv, Shapes
<1> HIDE DEF r
<1>4. h \in Hop /\ h.ref = r /\ NoHop \in Hop /\ ~NoHop.there
  BY <1>3 DEF Hop, NoHop
<1> HIDE DEF h
<1>5. (intent[m] # 0 /\ hops' = [hops EXCEPT ![m] = h]) \/ hops' = [hops EXCEPT ![m] = NoHop]
  BY <1>1 DEF h, r
<1>6. /\ hops' \in [Gates -> Hop]
      /\ \A n \in Gates \ {m} : hops'[n] = hops[n]
      /\ (intent[m] # 0 /\ hops'[m] = h) \/ hops'[m] = NoHop
  BY <1>2, <1>4, <1>5 DEF IInv, Shapes
<1>7. UNCHANGED <<svpc, kube, intent, topo, bfd, gate, issued, late, site, work>>
  BY DEF KubeRoutes
<1>8. Monitored'
  <2>1. ~site.hurt /\ intent[m] # 0 => r = bfd[m] /\ bfd[m] # 0
    BY DEF r, IInv, RouteInv
  <2>2. ASSUME NEW n \in Members, ~site.hurt, hops'[n].there
        PROVE  hops'[n].ref = bfd[n] /\ bfd[n] # 0
    <3>1. CASE n = m
      BY <1>4, <1>6, <2>1, <2>2, <3>1
    <3>2. CASE n # m
      BY <1>2, <1>6, <2>2, <3>2 DEF IInv, Monitored
    <3> QED
      BY <3>1, <3>2
  <2> QED
    BY <1>7, <2>2 DEF Monitored, Members
<1> QED
  BY <1>6, <1>7, <1>8, HopStep

\* Resources and their OVN objects come and go; only a dying resource goes.
LEMMA PartsStep ==
  ASSUME IInv, UNCHANGED <<svpc, intent, hops, bfd, issued, late, work>>,
         site' \in SiteType, site'.members = site.members,
         site'.hurt = site.hurt, site'.stray = site.stray,
         topo' \in SUBSET (Parts \cup {"port"}),
         \A k \in Parts : k \in topo' => k \in topo \/ kube[k].uid # 0,
         kube' \in [Parts -> Object],
         \A k \in Parts : \/ kube'[k] = kube[k]
                          \/ kube'[k].uid = 0 /\ ~(k = "Transit" /\ Up("Transit")),
         gate' \in [Pieces -> Object],
         \A o \in Pieces : gate'[o] = gate[o] \/ gate'[o].uid = 0
  PROVE  IInv'
<1>1. Shapes' /\ PassInv'
  BY DEF IInv, Shapes, PassInv
<1>2. /\ \A o \in Pieces : gate'[o].uid \in {0, gate[o].uid}
      /\ \A k \in Parts : kube'[k].uid \in {0, kube[k].uid}
  OBVIOUS
<1>3. RecordInv'
  BY <1>2, PartOf DEF IInv, Shapes, RecordInv, Members
<1>4. RouteInv' /\ Monitored'
  BY DEF IInv, RouteInv, Current, Monitored, Closing, Members
<1>5. Up("Transit") => Up("Transit")'
  BY DEF Up, Parts
<1>6. NetworkInv' /\ GatewayFirst'
  BY <1>2, <1>5 DEF IInv, NetworkInv, GatewayFirst, Pieces
<1>7. CleanInv' /\ SiteGoneClean'
  <2>1. CleanInv'
    BY <1>2 DEF IInv, CleanInv, Parts
  <2>2. svpc.stage = "gone" => \A o \in Pieces : gate[o].uid = 0 \/ site.stray
    BY InventoryFits DEF IInv, SiteGoneClean, NoReceipts
  <2>3. SiteGoneClean'
    BY <1>2, <2>2 DEF IInv, SiteGoneClean, Inventory, NoReceipts
  <2> QED
    BY <2>1, <2>3
<1> QED
  BY <1>1, <1>3, <1>4, <1>6, <1>7 DEF IInv

\* Kube-OVN programs and removes the resources of the site.
LEMMA KubePartsStep ==
  ASSUME IInv, KubeParts
  PROVE  IInv'
<1>0. /\ UNCHANGED <<svpc, intent, hops, bfd, gate, issued, late, work, site>>
      /\ site \in SiteType /\ kube \in [Parts -> Object] /\ gate \in [Pieces -> Object]
      /\ topo \in SUBSET (Parts \cup {"port"})
  BY DEF KubeParts, IInv, Shapes
<1>1. CASE UNCHANGED kube /\ \E k \in Parts : Up(k) /\ topo' = topo \cup {k}
  BY <1>0, <1>1, PartsStep DEF Up
<1>2. CASE UNCHANGED kube /\ topo' = topo \cup {"port"}
  BY <1>0, <1>2, PartsStep DEF Parts
<1>3. CASE \E k \in Parts : /\ kube[k].dying /\ kube' = [kube EXCEPT ![k] = Nothing]
                            /\ UNCHANGED topo
  <2>1. PICK k \in Parts : kube[k].dying /\ kube' = [kube EXCEPT ![k] = Nothing]
    BY <1>3
  <2>2. Nothing \in Object /\ Nothing.uid = 0
    BY DEF Nothing, Object
  <2>3. /\ kube' \in [Parts -> Object] /\ kube'[k].uid = 0
        /\ \A j \in Parts \ {k} : kube'[j] = kube[j]
    BY <1>0, <2>1, <2>2
  <2>4. ~(k = "Transit" /\ Up("Transit"))
    BY <2>1 DEF Up
  <2> QED
    BY <1>0, <1>3, <2>3, <2>4, PartsStep
<1>4. CASE UNCHANGED kube /\ topo' \subseteq topo
  BY <1>0, <1>4, PartsStep
<1> QED
  BY <1>1, <1>2, <1>3, <1>4 DEF KubeParts

\* The gateway's Pods are gone.
LEMMA GatewayGoneStep ==
  ASSUME IInv, GatewayGone
  PROVE  IInv'
<1>1. Nothing \in Object /\ Nothing.uid = 0
  BY DEF Nothing, Object
<1>2. gate' = [gate EXCEPT !["Pod"] = Nothing]
  BY DEF GatewayGone
<1>3. /\ gate' \in [Pieces -> Object]
      /\ \A o \in Pieces : gate'[o] = gate[o] \/ gate'[o].uid = 0
  BY <1>1, <1>2 DEF IInv, Shapes
<1> QED
  BY <1>3, PartsStep DEF GatewayGone, IInv, Shapes

\* A late request that takes effect once the removal of the network has begun is
\* a stray one.
LEMMA LateGatewayStep ==
  ASSUME IInv, LateGateway
  PROVE  IInv'
<1>0. PICK o \in late :
        /\ late' = late \ {o}
        /\ \/ /\ Create({o})
              /\ site' = [site EXCEPT !.stray = \/ svpc.stage = "gone" \/ ~Up("Transit")
                                                 \/ work.at \in {"unbfd", "delete", "absent"}]
           \/ UNCHANGED <<gate, issued, site>>
        /\ UNCHANGED <<svpc, kube, intent, topo, hops, bfd, work>>
  BY DEF LateGateway
<1>1. /\ o \in Pieces /\ late' \in SUBSET Pieces /\ svpc.gate[o] = 0
      /\ work \in WorkType /\ site \in SiteType
      /\ gate \in [Pieces -> Object] /\ issued \in Nat
  BY <1>0 DEF IInv, RecordInv, Shapes
<1>2. CASE /\ Create({o})
           /\ site' = [site EXCEPT !.stray = \/ svpc.stage = "gone" \/ ~Up("Transit")
                                              \/ work.at \in {"unbfd", "delete", "absent"}]
  <2> DEFINE s == \/ svpc.stage = "gone" \/ ~Up("Transit")
                  \/ work.at \in {"unbfd", "delete", "absent"}
  <2>1. /\ gate' \in [Pieces -> Object] /\ issued' \in Nat
        /\ \A q \in Pieces \ {o} : gate'[q] = gate[q]
    BY <1>1, <1>2, CreateFields
  <2>2. site' = [site EXCEPT !.stray = s] /\ s \in BOOLEAN
    BY <1>2
  <2>3. s <=> svpc.stage = "gone" \/ ~Up("Transit") \/ work.at \in Closing
    BY DEF Closing
  <2> HIDE DEF s
  <2>4. site'.members = site.members
    BY <1>1, <2>2 DEF SiteType
  <2>5. site'.hurt = site.hurt
    BY <1>1, <2>2 DEF SiteType
  <2>6. site'.stray = s
    BY <1>1, <2>2 DEF SiteType
  <2>7. site' \in SiteType
    BY <1>1, <2>2 DEF SiteType
  <2>8. /\ \A q \in Pieces : svpc.gate[q] # 0 => gate'[q].uid \in {0, svpc.gate[q]}
        /\ \A q \in late' : gate'[q].uid = 0 /\ svpc.gate[q] = 0
    BY <1>0, <1>1, <2>1 DEF IInv, RecordInv, Shapes
  <2>9. NetworkInv' /\ GatewayFirst'
    BY <1>0, <2>3, <2>6 DEF IInv, NetworkInv, GatewayFirst, Closing, Up
  <2> QED
    BY <1>0, <1>1, <2>1, <2>3, <2>4, <2>5, <2>6, <2>7, <2>8, <2>9, GateStep
<1>3. CASE UNCHANGED <<gate, issued, site>>
  <2>1. NetworkInv' /\ GatewayFirst'
    BY <1>0, <1>3 DEF IInv, NetworkInv, GatewayFirst, Up
  <2>2. svpc.stage = "gone" => \A q \in Pieces : gate'[q].uid = 0 \/ site'.stray
    BY <1>3, InventoryFits DEF IInv, SiteGoneClean, NoReceipts
  <2>3. /\ \A q \in Pieces : svpc.gate[q] # 0 => gate'[q].uid \in {0, svpc.gate[q]}
        /\ \A q \in late' : gate'[q].uid = 0 /\ svpc.gate[q] = 0
    BY <1>0, <1>3 DEF IInv, RecordInv
  <2> QED
    BY <1>0, <1>1, <1>3, <2>1, <2>2, <2>3, GateStep
<1> QED
  BY <1>0, <1>2, <1>3

\* The SiteVpc is deleted; a pass that began before goes on.
LEMMA RemoveSiteStep ==
  ASSUME IInv, RemoveSite
  PROVE  IInv'
<1>0. /\ svpc.stage = "live" /\ svpc' = [svpc EXCEPT !.stage = "deleting"]
      /\ UNCHANGED <<kube, intent, topo, hops, bfd, gate, issued, late, work, site>>
  BY DEF RemoveSite
<1>1. /\ svpc' \in SvpcType /\ svpc'.stage = "deleting" /\ svpc'.recs = svpc.recs
      /\ svpc'.gate = svpc.gate /\ svpc'.rows = svpc.rows
  BY <1>0 DEF IInv, Shapes, SvpcType
<1>2. Shapes' /\ PassInv'
  BY <1>0, <1>1 DEF IInv, Shapes, PassInv
<1>3. RecordInv' /\ NetworkInv' /\ CleanInv'
  BY <1>0, <1>1 DEF IInv, RecordInv, NetworkInv, CleanInv, Up, Members
<1>4. RouteInv'
  BY <1>0, <1>1 DEF IInv, RouteInv, Current, Members
<1>5. Monitored' /\ GatewayFirst' /\ SiteGoneClean'
  BY <1>0, <1>1 DEF IInv, Monitored, GatewayFirst, SiteGoneClean, Inventory, Up, Members
<1> QED
  BY <1>2, <1>3, <1>4, <1>5 DEF IInv

\* Guests only matter to the passes that look for them.
LEMMA GuestsStep ==
  ASSUME IInv, Attach \/ Detach
  PROVE  IInv'
<1>1. /\ UNCHANGED <<svpc, kube, intent, topo, hops, bfd, gate, issued, late, work>>
      /\ site' = site \/ site' = [site EXCEPT !.joins = @ - 1]
  BY DEF Attach, Detach
<1>2. site \in SiteType /\ site.joins - 1 \in Int
  BY DEF IInv, Shapes, SiteType
<1>3. /\ site' \in SiteType /\ site'.members = site.members
      /\ site'.hurt = site.hurt /\ site'.stray = site.stray
  BY <1>1, <1>2, Budgets
<1> QED
  BY <1>1, <1>3, PartsStep DEF IInv, Shapes

\* A destroyed row: from then on routes may be unmonitored.
LEMMA DestroyRowStep ==
  ASSUME IInv, DestroyRow
  PROVE  IInv'
<1>1. PICK m \in Members :
        /\ bfd' = [bfd EXCEPT ![m] = 0]
        /\ hops' = [hops EXCEPT ![m].ref = 0]
        /\ site' = [site EXCEPT !.losses = @ - 1, !.hurt = TRUE]
        /\ UNCHANGED <<svpc, kube, intent, topo, gate, issued, late, work>>
  BY DEF DestroyRow
<1>2. m \in Gates /\ site \in SiteType /\ site.losses - 1 \in Int
  BY DEF IInv, Shapes, SiteType, Members
<1>3. site'.members = site.members
  BY <1>1, <1>2 DEF SiteType
<1>4. site'.hurt
  BY <1>1, <1>2 DEF SiteType
<1>5. site'.stray = site.stray
  BY <1>1, <1>2 DEF SiteType
<1>6. site' \in SiteType
  BY <1>1, <1>2 DEF SiteType
<1>7. bfd' \in [Gates -> Nat] /\ \A n \in Gates : bfd'[n] \in {0, bfd[n]}
  BY <1>1, <1>2 DEF IInv, Shapes
<1>8. hops' \in [Gates -> Hop]
  BY <1>1, <1>2 DEF IInv, Shapes, Hop
<1>9. Shapes' /\ PassInv'
  BY <1>1, <1>6, <1>7, <1>8 DEF IInv, Shapes, PassInv
<1>10. RecordInv'
  BY <1>1, <1>3, <1>7 DEF IInv, RecordInv, Members
<1>11. RouteInv' /\ Monitored'
  BY <1>1, <1>4 DEF IInv, RouteInv, Monitored
<1>12. NetworkInv' /\ CleanInv' /\ GatewayFirst'
  BY <1>1, <1>5, <1>7 DEF IInv, NetworkInv, CleanInv, GatewayFirst, Up
<1>13. SiteGoneClean'
  BY <1>1, <1>5, <1>7 DEF IInv, SiteGoneClean, Inventory
<1> QED
  BY <1>9, <1>10, <1>11, <1>12, <1>13 DEF IInv

\* A destroyed Subnet or gateway.
LEMMA DestroyObjectStep ==
  ASSUME IInv, DestroyObject
  PROVE  IInv'
<1>1. /\ UNCHANGED <<svpc, intent, topo, hops, bfd, issued, late, work>>
      /\ site' = [site EXCEPT !.losses = @ - 1]
      /\ \/ kube' = [kube EXCEPT !["Subnet"] = Nothing] /\ gate' = gate
         \/ (\E o \in Pieces : gate' = [gate EXCEPT ![o] = Nothing]) /\ kube' = kube
  BY DEF DestroyObject
<1>2. site \in SiteType /\ site.losses - 1 \in Int
  BY DEF IInv, Shapes, SiteType
<1>3. /\ site' \in SiteType /\ site'.members = site.members
      /\ site'.hurt = site.hurt /\ site'.stray = site.stray
  BY <1>1, <1>2, Budgets
<1>4. Nothing \in Object /\ Nothing.uid = 0
  BY DEF Nothing, Object
<1>5. /\ kube' \in [Parts -> Object]
      /\ \A k \in Parts : kube'[k] = kube[k] \/ (k # "Transit" /\ kube'[k].uid = 0)
  BY <1>1, <1>4 DEF IInv, Shapes, Parts
<1>6. /\ gate' \in [Pieces -> Object]
      /\ \A o \in Pieces : gate'[o] = gate[o] \/ gate'[o].uid = 0
  BY <1>1, <1>4 DEF IInv, Shapes
<1> QED
  BY <1>1, <1>3, <1>5, <1>6, PartsStep DEF IInv, Shapes

\* Every step preserves the inductive invariant.
LEMMA NextInv == IInv /\ [SiteNext]_siteVars => IInv'
<1> SUFFICES ASSUME IInv, [SiteNext]_siteVars PROVE IInv'
  OBVIOUS
<1>1. CASE Restart
  BY <1>1, CrashStep DEF Restart
<1>2. CASE UNCHANGED siteVars
  BY <1>2, PartsStep DEF siteVars, IInv, Shapes
<1> QED
  BY <1>1, <1>2, WorkStep, KubeRoutesStep, KubePartsStep, GatewayGoneStep, LateGatewayStep,
     RemoveSiteStep, GuestsStep, DestroyRowStep, DestroyObjectStep DEF SiteNext

-----------------------------------------------------------------------------
(* The theorems.                                                           *)

\* The inductive invariant of the site controller (internal/sitecontroller).
THEOREM Invariant == SiteSpec => []IInv
<1>1. SiteInit => IInv
  BY InitInv
<1> QED
  BY <1>1, NextInv, PTL DEF SiteSpec

\* A default route is monitored by the live row of its member for as long as
\* nobody destroys a row, through every withdrawal and crash.
THEOREM RoutesMonitored == SiteSpec => []Monitored
<1>1. IInv => Monitored
  BY DEF IInv
<1> QED
  BY <1>1, Invariant, PTL

\* The gateway has its transit network until it is gone, except for a request
\* that takes effect after the removal of the network began.
THEOREM GatewayBeforeNetwork == SiteSpec => []GatewayFirst
<1>1. IInv => GatewayFirst
  BY DEF IInv
<1> QED
  BY <1>1, Invariant, PTL

\* No lost object, lost response or crash makes the controller take its own
\* resource, gateway or BFD row for somebody else's; and when the finalizer goes,
\* resources, OVN objects and BFD rows are gone, and so is the gateway unless a
\* late request brings one up.
THEOREM OwnAndClean == SiteSpec => []SiteIntact
<1>1. IInv => NoSelfConflict
  <2> SUFFICES ASSUME IInv PROVE NoSelfConflict
    OBVIOUS
  <2>1. Members \subseteq Gates
    BY DEF IInv, Shapes, SiteType, Members
  <2> QED
    BY <2>1 DEF IInv, RecordInv, NoSelfConflict, KubeConflict, GateConflict, RowConflict, Other
<1>2. IInv => SiteGoneClean
  BY DEF IInv
<1>3. IInv => SiteIntact
  BY <1>1, <1>2 DEF SiteIntact
<1> QED
  BY <1>3, Invariant, PTL
=============================================================================
