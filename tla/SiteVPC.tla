------------------------------ MODULE SiteVPC ------------------------------
(***************************************************************************)
(* The legacy site controller: one process that keeps one SiteVpc, its     *)
(* three Kube-OVN resources, its gateway (run by an external command) and, *)
(* with several gateway members, one OVN BFD row per member.               *)
(*                                                                         *)
(* Kube-OVN writes the default routes.  It does not look at the BFD row of *)
(* a route that it already has, and a BFD row that is destroyed leaves its *)
(* routes in place without a reference: traffic then follows a next hop    *)
(* that nobody monitors.                                                   *)
(*                                                                         *)
(* A gateway that exists counts as ready: readiness of Pods and of BFD     *)
(* sessions only delays the last step of a pass.                           *)
(***************************************************************************)
EXTENDS Integers, FiniteSets

CONSTANTS
    Gates,       \* gateway members of the registration
    Attachments  \* the worlds to start in: see site

SiteType == [members : SUBSET Gates, hurt : BOOLEAN, present : BOOLEAN, stray : BOOLEAN,
             crashes : Int, losses : Int, joins : Int]
ASSUME AttachmentAssumption ==
    /\ Attachments \subseteq SiteType
    /\ \A s \in Attachments : ~s.hurt /\ ~s.stray

VARIABLES
    svpc,        \* the SiteVpc object
    kube,        \* the Kube-OVN resources, by kind
    intent,      \* the default routes of the Vpc's spec: member to BFD row (0: none)
    topo,        \* router, switches and BFD port in the local NB database
    hops,        \* the default routes there: member to [ref, fields]
    bfd,         \* the owned BFD rows, by member (0: none)
    gate,        \* the gateway's objects, all members' of a kind as one
    issued,      \* UIDs handed out so far
    guests,      \* workload endpoints are attached
    late,        \* what gateway requests with an unknown outcome may still create
    work,        \* where the process is
    site         \* [members: those with a BFD row (none: a single gateway); hurt: a BFD
                 \*  row was destroyed; present; stray: the late request came after its network;
                 \*  and the budgets crashes, losses, joins]

siteVars == <<svpc, kube, intent, topo, hops, bfd, gate, issued, guests, late, work, site>>

Parts == {"Vpc", "Subnet", "Transit"}
Pieces == {"ConfigMap", "Pod"}
Sequence == <<"Vpc", "Subnet", "Transit">>
Nothing == [uid |-> 0, dying |-> FALSE]
NoHop == [ref |-> 0, fields |-> FALSE, there |-> FALSE]
NoReceipts == [o \in Pieces |-> 0]
NoWork == [at |-> "idle", del |-> FALSE, k |-> 1, uid |-> 0, hold |-> {}]
Members == site.members

SiteInit ==
    /\ site \in Attachments
    /\ svpc = [stage |-> IF site.present THEN "live" ELSE "gone", fin |-> FALSE, accepted |-> FALSE, op |-> "",
               recs |-> [k \in Parts |-> 0], gate |-> NoReceipts, rows |-> [m \in Gates |-> 0]]
    /\ kube = [k \in Parts |-> Nothing] /\ intent = [m \in Gates |-> 0] /\ topo = {}
    /\ hops = [m \in Gates |-> NoHop] /\ bfd = [m \in Gates |-> 0] /\ gate = [o \in Pieces |-> Nothing]
    /\ issued = 0 /\ guests = FALSE /\ late = {} /\ work = NoWork

-----------------------------------------------------------------------------
To(label) == work' = [work EXCEPT !.at = label, !.k = 1]
Done == work' = NoWork
Is(label) == work.at = label

\* The status update is refused when the object changed since the pass read it.
Stale == (svpc.stage = "deleting") # work.del
Store(new, label) == IF Stale THEN Done /\ UNCHANGED svpc ELSE svpc' = new /\ To(label)

Other(uid, rec) == uid # 0 /\ rec # 0 /\ uid # rec
KubeConflict == \E k \in Parts : Other(kube[k].uid, svpc.recs[k])
\* The backend's inventory, and its guard: no object but the recorded one.
Inventory == [o \in Pieces |-> gate[o].uid]
GateConflict == \E o \in Pieces : Other(gate[o].uid, svpc.gate[o])
\* GetBFD: the rows of the members, as records.
Rows == [m \in Gates |-> IF m \in Members THEN bfd[m] ELSE 0]
RowConflict == \E m \in Members : Other(bfd[m], svpc.rows[m])

\* Reconcile up to the accepted plan hash.
Start ==
    /\ Is("idle") /\ svpc.stage \in {"live", "deleting"}
    /\ \/ ~svpc.fin /\ svpc' = [svpc EXCEPT !.fin = TRUE] /\ UNCHANGED work
       \/ /\ svpc.fin /\ svpc' = [svpc EXCEPT !.accepted = TRUE]
          /\ work' = [NoWork EXCEPT !.at = "observe", !.del = (svpc.stage = "deleting")]
    /\ UNCHANGED <<kube, intent, topo, hops, bfd, gate, issued, guests, late, site>>

\* Ownership of every local object first; verified observations are saved before
\* anything else is written.
Observe ==
    /\ Is("observe")
    /\ IF KubeConflict \/ GateConflict \/ RowConflict THEN Done /\ UNCHANGED svpc
       ELSE IF Rows # svpc.rows THEN Store([svpc EXCEPT !.rows = Rows], "idle")
       ELSE IF work.del /\ svpc.op = "DeleteResources" /\ Inventory # NoReceipts  \* a delayed write
            THEN Store([svpc EXCEPT !.gate = Inventory, !.op = "DeleteGateway"], "idle")
       ELSE IF work.del THEN To("drain") /\ UNCHANGED svpc
       ELSE IF Inventory # svpc.gate THEN Store([svpc EXCEPT !.gate = Inventory], "idle")
       ELSE To("conflicts") /\ UNCHANGED svpc
    /\ UNCHANGED <<kube, intent, topo, hops, bfd, gate, issued, guests, late, site>>

\* Mutant: a route with a stale BFD reference is kept in the spec.
NoRouteConflict(m) == FALSE

\* BFDRouteConflicts: the router has a route of this member without the recorded reference.
RouteConflict(m) == hops[m].there /\ (hops[m].ref # svpc.rows[m] \/ svpc.rows[m] = 0)

\* The routes that setGatewayRoutes leaves out, as of now.
Conflicts ==
    /\ Is("conflicts")
    /\ work' = [work EXCEPT !.at = "ensure", !.hold = {m \in Members : RouteConflict(m)}]
    /\ UNCHANGED <<svpc, kube, intent, topo, hops, bfd, gate, issued, guests, late, site>>

NextPart == IF work.k = 3 THEN To("ready") ELSE work' = [work EXCEPT !.at = "ensure", !.k = @ + 1]

\* setGatewayRoutes: the members whose row is recorded and whose route has no conflict.
Rendered == [m \in Gates |-> IF m \in work.hold THEN 0 ELSE svpc.rows[m]]

\* Mutant: a recorded object that is missing is created again at once.
NeverGone(k) == FALSE

\* ErrRecordedResourceMissing
Gone(k) == kube[k].uid = 0 /\ svpc.recs[k] # 0

\* ResourceStore.Ensure; the Vpc carries the rendered routes.
EnsurePart ==
    /\ Is("ensure")
    /\ LET k == Sequence[work.k]  have == kube[k]  rec == svpc.recs[k]
           render == intent' = IF k = "Vpc" THEN Rendered ELSE intent
       IN  \/ /\ Gone(k) /\ Store([svpc EXCEPT !.recs[k] = 0], "idle")
              /\ UNCHANGED <<kube, intent, issued>>
           \/ /\ have.uid = 0 /\ ~Gone(k)
              /\ kube' = [kube EXCEPT ![k] = [uid |-> issued + 1, dying |-> FALSE]] /\ issued' = issued + 1
              /\ work' = [work EXCEPT !.at = "record", !.uid = issued + 1] /\ render /\ UNCHANGED svpc
           \/ /\ have.uid # 0 /\ (have.dying \/ Other(have.uid, rec)) /\ Done
              /\ UNCHANGED <<svpc, kube, intent, issued>>
           \/ /\ have.uid # 0 /\ ~have.dying /\ ~Other(have.uid, rec) /\ render
              /\ IF rec = have.uid THEN NextPart ELSE work' = [work EXCEPT !.at = "record", !.uid = have.uid]
              /\ UNCHANGED <<svpc, kube, issued>>
    /\ UNCHANGED <<topo, hops, bfd, gate, guests, late, site>>

RecordPart ==
    /\ Is("record")
    /\ IF Stale THEN Done /\ UNCHANGED svpc
       ELSE svpc' = [svpc EXCEPT !.recs[Sequence[work.k]] = work.uid] /\ NextPart
    /\ UNCHANGED <<kube, intent, topo, hops, bfd, gate, issued, guests, late, site>>

\* ResourceStore.Ready, without the switch
Up(k) == kube[k].uid # 0 /\ ~kube[k].dying

\* bfdPortReady
TransitPortReady == "port" \in topo

\* Both Subnets are ready; with members, the BFD port too.
SubnetsReady ==
    /\ Is("ready")
    /\ IF /\ \A k \in {"Subnet", "Transit"} : Up(k) /\ k \in topo
          /\ Members = {} \/ TransitPortReady
       THEN To("rows") ELSE Done
    /\ UNCHANGED <<svpc, kube, intent, topo, hops, bfd, gate, issued, guests, late, site>>

Unborn == {m \in Members : bfd[m] = 0}

\* EnsureBFD: one row per member, then a fresh observation that is saved first.
EnsureBFD ==
    /\ Is("rows")
    /\ \/ \E m \in Unborn :
            /\ IF RowConflict \/ svpc.rows[m] # 0 THEN Done /\ UNCHANGED <<bfd, issued>>
               ELSE bfd' = [bfd EXCEPT ![m] = issued + 1] /\ issued' = issued + 1 /\ UNCHANGED work
            /\ UNCHANGED svpc
       \/ /\ Unborn = {} /\ UNCHANGED <<bfd, issued>>
          /\ IF RowConflict THEN Done /\ UNCHANGED svpc
             ELSE IF Rows # svpc.rows THEN Store([svpc EXCEPT !.rows = Rows], "idle")
             ELSE To("gateway") /\ UNCHANGED svpc
    /\ UNCHANGED <<kube, intent, topo, hops, gate, guests, late, site>>

Lacking == {o \in Pieces : gate[o].uid = 0}

\* The backend's preflight of Ensure: no recorded object is missing.
EnsureAccepted == ~GateConflict /\ \A o \in Lacking : svpc.gate[o] = 0

\* The backend creates those of O that are lacking.
Create(O) ==
    /\ gate' = [o \in Pieces |-> IF o \in O \cap Lacking
                                 THEN [uid |-> issued + 1, dying |-> FALSE] ELSE gate[o]]
    /\ issued' = IF O \cap Lacking = {} THEN issued ELSE issued + 1

\* Gateway.Ensure: the ConfigMap first, then the Pod.  Of a request that is cut
\* off the create that was under way may still take effect, until a retry creates
\* the same name.
EnsureGateway ==
    /\ Is("gateway")
    /\ \/ ~EnsureAccepted /\ Done /\ UNCHANGED <<gate, issued, late, site>>
       \/ EnsureAccepted /\ To("receipt") /\ Create(Pieces) /\ late' = {} /\ UNCHANGED site
       \/ /\ EnsureAccepted /\ site.crashes > 0 /\ Done
          /\ site' = [site EXCEPT !.crashes = @ - 1]
          /\ \/ "ConfigMap" \in Lacking /\ Create({}) /\ late' = late \cup {"ConfigMap"}
             \/ "Pod" \in Lacking /\ Create({"ConfigMap"}) /\ late' = {"Pod"}
    /\ UNCHANGED <<svpc, kube, intent, topo, hops, bfd, guests>>

SaveGateway ==
    /\ Is("receipt")
    /\ IF Inventory = svpc.gate THEN To("fields") /\ UNCHANGED svpc
       ELSE Store([svpc EXCEPT !.gate = Inventory], "fields")
    /\ UNCHANGED <<kube, intent, topo, hops, bfd, gate, issued, guests, late, site>>

Tracked(m) == hops[m].there /\ hops[m].ref = svpc.rows[m] /\ hops[m].ref # 0

\* RoutesReady, then EnsureECMPFields in a guarded transaction.
EnsureECMPFields ==
    /\ Is("fields") /\ Done
    /\ hops' = [m \in Gates |-> IF (\A n \in Members : Tracked(n)) /\ m \in Members /\ bfd[m] = hops[m].ref
                                THEN [hops[m] EXCEPT !.fields = TRUE] ELSE hops[m]]
    /\ UNCHANGED <<svpc, kube, intent, topo, bfd, gate, issued, guests, late, site>>

-----------------------------------------------------------------------------
(* remove *)

\* Endpoints on every pass, then the durable operation.
DrainCheck ==
    /\ Is("drain")
    /\ IF guests THEN Done /\ UNCHANGED svpc                      \* LocalEndpointsPresent
       ELSE IF svpc.op = "" THEN Store([svpc EXCEPT !.op = "DeleteGateway"], "idle")
       ELSE To(IF svpc.op = "DeleteGateway" THEN "ungate" ELSE "withdraw") /\ UNCHANGED svpc
    /\ UNCHANGED <<kube, intent, topo, hops, bfd, gate, issued, guests, late, site>>

\* The backend deletes those of O: a Pod takes its time, a ConfigMap is gone at once.
DeletePieces(O) ==
    gate' = [o \in Pieces |-> IF o \notin O THEN gate[o]
                              ELSE IF o = "Pod" THEN [gate[o] EXCEPT !.dying = gate[o].uid # 0]
                              ELSE Nothing]

\* Gateway.Delete: Pods, then ConfigMaps; a request may be cut off between.
DeleteGateway ==
    /\ Is("ungate")
    /\ \/ (GateConflict \/ guests) /\ Done /\ UNCHANGED <<svpc, gate, site>>
       \/ /\ ~GateConflict /\ ~guests /\ Inventory = NoReceipts
          /\ Store([svpc EXCEPT !.gate = NoReceipts, !.op = "DeleteResources"], "idle")
          /\ UNCHANGED <<gate, site>>
       \/ /\ ~GateConflict /\ ~guests /\ Inventory # NoReceipts /\ Done /\ UNCHANGED svpc
          /\ \/ DeletePieces(Pieces) /\ UNCHANGED site
             \/ /\ site.crashes > 0 /\ site' = [site EXCEPT !.crashes = @ - 1]
                /\ DeletePieces({"Pod"})
    /\ UNCHANGED <<kube, intent, topo, hops, bfd, issued, guests, late>>

\* Mutant: the check of this pass's first observation is trusted.
TransitAssumedFree == TRUE

\* EndpointsEmpty of the transit switch: the gateway has no port on it any more.
TransitFree == gate["Pod"].uid = 0

\* WithdrawRoutes, unless the gateway still has its transit port.
SiteWithdraw ==
    /\ Is("withdraw")
    /\ IF ~TransitFree THEN Done /\ UNCHANGED intent              \* TransitTeardownPending
       ELSE intent' = [m \in Gates |-> 0] /\ To("unbfd")
    /\ UNCHANGED <<svpc, kube, topo, hops, bfd, gate, issued, guests, late, site>>

\* Mutant: a reference only has to be gone from the spec.
UnreferencedIntent(m) == intent[m] # bfd[m]

\* No route refers to the row, checked in the deleting transaction.
Unreferenced(m) == hops[m].ref # bfd[m]

\* DeleteBFD: all rows at once, and absence is confirmed by a later observation.
DeleteBFD ==
    /\ Is("unbfd")
    /\ LET rows == {m \in Members : bfd[m] # 0} IN
        IF RowConflict THEN Done /\ UNCHANGED <<svpc, bfd>>
        ELSE IF rows # {} THEN
            /\ bfd' = IF \A m \in rows : Unreferenced(m) THEN [m \in Gates |-> 0] ELSE bfd
            /\ Done /\ UNCHANGED svpc                             \* BFDWithdrawalPending
        ELSE IF svpc.rows # [m \in Gates |-> 0] THEN
            Store([svpc EXCEPT !.rows = [m \in Gates |-> 0]], "idle") /\ UNCHANGED bfd
        ELSE To("delete") /\ UNCHANGED <<svpc, bfd>>
    /\ UNCHANGED <<kube, intent, topo, hops, gate, issued, guests, late, site>>

\* Subnet, transit Subnet, Vpc: each gone before the next is deleted.
Removal == <<"Subnet", "Transit", "Vpc">>

DeletePart ==
    /\ Is("delete")
    /\ LET k == Removal[work.k] IN
        IF kube[k].uid # 0 THEN kube' = [kube EXCEPT ![k].dying = TRUE] /\ Done
        ELSE /\ UNCHANGED kube
             /\ IF work.k = 3 THEN To("absent") ELSE work' = [work EXCEPT !.k = @ + 1]
    /\ UNCHANGED <<svpc, intent, topo, hops, bfd, gate, issued, guests, late, site>>

\* LocalAbsent: router and switches, by name.
OVNAbsent == topo \cap Parts = {}

\* LocalAbsent, then the finalizer.
Finalize ==
    /\ Is("absent") /\ Done
    /\ svpc' = IF OVNAbsent THEN [svpc EXCEPT !.stage = "gone"] ELSE svpc
    /\ UNCHANGED <<kube, intent, topo, hops, bfd, gate, issued, guests, late, site>>

Work == \/ Start \/ Observe \/ Conflicts \/ EnsurePart \/ RecordPart \/ SubnetsReady \/ EnsureBFD
        \/ EnsureGateway \/ SaveGateway \/ EnsureECMPFields \/ DrainCheck \/ DeleteGateway
        \/ SiteWithdraw \/ DeleteBFD \/ DeletePart \/ Finalize

-----------------------------------------------------------------------------
(* Kube-OVN, the kubelet, users and faults *)

\* Kube-OVN adds a missing route and removes a surplus one; it never compares rows.
KubeRoutes == \E m \in Members :
    /\ \/ "Vpc" \in topo /\ intent[m] # 0 /\ ~hops[m].there
          /\ hops' = [hops EXCEPT ![m] = [ref |-> IF bfd[m] = intent[m] THEN intent[m] ELSE 0,
                                          fields |-> FALSE, there |-> TRUE]]
       \/ (intent[m] = 0 \/ "Vpc" \notin topo) /\ hops[m].there /\ hops' = [hops EXCEPT ![m] = NoHop]
    /\ UNCHANGED <<svpc, kube, intent, topo, bfd, gate, issued, guests, late, work, site>>

KubeParts ==
    /\ \/ \E k \in Parts \ topo : /\ Up(k) /\ (k = "Vpc" \/ "Vpc" \in topo)
                                  /\ topo' = topo \cup {k} /\ UNCHANGED kube
       \/ Members # {} /\ Up("Vpc") /\ "Vpc" \in topo /\ "port" \notin topo
          /\ topo' = topo \cup {"port"} /\ UNCHANGED kube
       \/ \E k \in Parts : /\ kube[k].dying /\ (k = "Subnet" => ~guests)
                           /\ kube' = [kube EXCEPT ![k] = Nothing] /\ UNCHANGED topo
       \/ \E k \in Parts \cap topo : /\ kube[k].uid = 0 /\ (k = "Vpc" => topo \cap {"Subnet", "Transit"} = {})
                                     /\ topo' = topo \ IF k = "Vpc" THEN {"Vpc", "port"} ELSE {k}
                                     /\ UNCHANGED kube
    /\ UNCHANGED <<svpc, intent, hops, bfd, gate, issued, guests, late, work, site>>

GatewayGone ==
    /\ gate["Pod"].dying /\ gate' = [gate EXCEPT !["Pod"] = Nothing]
    /\ UNCHANGED <<svpc, kube, intent, topo, hops, bfd, issued, guests, late, work, site>>

\* A create with an unknown outcome takes effect, or never does.
LateGateway == \E o \in late :
    /\ late' = late \ {o}
    /\ \/ /\ Create({o})
          /\ site' = [site EXCEPT !.stray = \/ svpc.stage = "gone" \/ ~Up("Transit")
                                             \/ work.at \in {"unbfd", "delete", "absent"}]
       \/ UNCHANGED <<gate, issued, site>>
    /\ UNCHANGED <<svpc, kube, intent, topo, hops, bfd, guests, work>>

RemoveSite ==
    /\ svpc.stage = "live" /\ svpc.fin /\ svpc' = [svpc EXCEPT !.stage = "deleting"]
    /\ UNCHANGED <<kube, intent, topo, hops, bfd, gate, issued, guests, late, work, site>>

Attach ==
    /\ site.joins > 0 /\ ~guests /\ Up("Subnet")
    /\ guests' = TRUE /\ site' = [site EXCEPT !.joins = @ - 1]
    /\ UNCHANGED <<svpc, kube, intent, topo, hops, bfd, gate, issued, late, work>>

Detach ==
    /\ guests /\ guests' = FALSE
    /\ UNCHANGED <<svpc, kube, intent, topo, hops, bfd, gate, issued, late, work, site>>

\* A destroyed row strips the references to it.
DestroyRow == \E m \in Members :
    /\ site.losses > 0 /\ bfd[m] # 0 /\ bfd' = [bfd EXCEPT ![m] = 0]
    /\ hops' = [hops EXCEPT ![m].ref = 0]
    /\ site' = [site EXCEPT !.losses = @ - 1, !.hurt = TRUE]
    /\ UNCHANGED <<svpc, kube, intent, topo, gate, issued, guests, late, work>>

DestroyObject ==
    /\ site.losses > 0
    /\ \/ kube["Subnet"].uid # 0 /\ kube' = [kube EXCEPT !["Subnet"] = Nothing] /\ UNCHANGED gate
       \/ \E o \in Pieces \ Lacking : gate' = [gate EXCEPT ![o] = Nothing] /\ UNCHANGED kube
    /\ site' = [site EXCEPT !.losses = @ - 1]
    /\ UNCHANGED <<svpc, intent, topo, hops, bfd, issued, guests, late, work>>

Restart ==
    /\ site.crashes > 0 /\ ~Is("idle") /\ Done /\ site' = [site EXCEPT !.crashes = @ - 1]
    /\ UNCHANGED <<svpc, kube, intent, topo, hops, bfd, gate, issued, guests, late>>

SiteNext ==
    \/ Work \/ KubeRoutes \/ KubeParts \/ GatewayGone \/ LateGateway \/ RemoveSite \/ Attach \/ Detach
    \/ DestroyRow \/ DestroyObject \/ Restart

SiteSpec == SiteInit /\ [][SiteNext]_siteVars

\* Passes are requeued; Kube-OVN, the kubelet and outstanding requests finish; guests leave.
SiteFairness == /\ WF_siteVars(Work) /\ WF_siteVars(KubeRoutes) /\ WF_siteVars(KubeParts)
                /\ WF_siteVars(GatewayGone) /\ WF_siteVars(LateGateway) /\ WF_siteVars(Detach)

-----------------------------------------------------------------------------
\* Records, routes and the place in a pass have the shape the actions rely on.
SiteTypeOK ==
    /\ work.k \in 1..3 /\ topo \subseteq Parts \cup {"port"}
    /\ \A m \in Gates : bfd[m] <= issued /\ (m \notin Members => hops[m] = NoHop)
    /\ svpc.op \in {"", "DeleteGateway", "DeleteResources"}

(***************************************************************************)
(* setGatewayRoutes, EnsureBFD and DeleteBFD: as long as nobody destroys a *)
(* row, every default route in the router is monitored by the live BFD row *)
(* of its member, also while rows and routes are withdrawn.                *)
(***************************************************************************)
Monitored ==
    ~site.hurt => \A m \in Members : hops[m].there => hops[m].ref = bfd[m] /\ bfd[m] # 0

(***************************************************************************)
(* Observe, EnsurePart, EnsureBFD: lost objects, lost responses and        *)
(* crashes never make the controller reject its own object for its UID.    *)
(***************************************************************************)
NoSelfConflict == ~KubeConflict /\ ~GateConflict /\ ~RowConflict

(***************************************************************************)
(* remove: the gateway keeps its transit network until it is gone; the one *)
(* exception is a request that takes effect once the removal of the        *)
(* network has begun.                                                      *)
(***************************************************************************)
GatewayFirst == gate["Pod"].uid # 0 /\ ~site.stray => Up("Transit")

(***************************************************************************)
(* remove: the finalizer goes last.                                        *)
(***************************************************************************)
SiteGoneClean ==
    svpc.stage = "gone" => /\ \A k \in Parts : kube[k].uid = 0
                           /\ topo \cap Parts = {} /\ \A m \in Gates : bfd[m] = 0
                           /\ Inventory # NoReceipts => site.stray

(***************************************************************************)
(* Observe and remove together: through lost objects and responses, a site *)
(* accepts whatever is its own and leaves nothing of it behind.            *)
(***************************************************************************)
SiteIntact == NoSelfConflict /\ SiteGoneClean

(***************************************************************************)
(* A live site gets back to monitored routes with flow hashing through all *)
(* members and a running gateway, also after a BFD row, a Subnet or the    *)
(* gateway was destroyed; a deleted one goes away.                         *)
(***************************************************************************)
SiteSettles ==
    <>[](IF svpc.stage = "live"
         THEN /\ \A m \in Members : hops[m].ref = bfd[m] /\ hops[m].ref # 0 /\ hops[m].fields
              /\ Lacking = {} /\ Parts \subseteq topo
         ELSE svpc.stage = "gone")
=============================================================================
