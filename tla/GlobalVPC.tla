----------------------------- MODULE GlobalVPC -----------------------------
(***************************************************************************)
(* The legacy GlobalVpc controller: one process (MaxConcurrentReconciles 1,*)
(* uncached reads) that drives every GlobalVpc of one OVN-IC domain.  It   *)
(* reserves prefixes, creates three Kube-OVN resources per cluster, and    *)
(* then changes the interconnect topology behind a barrier: the durable    *)
(* domain lock and the stopped dedicated native IC Deployments.            *)
(*                                                                         *)
(* Native IC is the reason for the barrier.  While it runs in a cluster it *)
(* deletes a marked transit switch that has no Transit_Switch row, and     *)
(* adds a second switch of the same name when a row has no marked switch.  *)
(*                                                                         *)
(* A pass is a sequence of steps; the store, native IC, Kube-OVN, users    *)
(* and faults move between any two of them.  Status conditions and phases  *)
(* are left out: no step reads them back.                                  *)
(***************************************************************************)
EXTENDS Integers, FiniteSets

CONSTANTS
    Vpcs,        \* GlobalVpc objects, by UID
    Free,        \* the holder of a free domain lock
    Domains      \* the worlds to start in: see domain

DomainType == [n : Nat \ {0}, vpcs : SUBSET Vpcs, registration : Int, hurt : SUBSET Vpcs,
               kept : SUBSET Vpcs, crashes : Int, losses : Int, joins : Int, edits : Int]
ASSUME DomainAssumption == Domains \subseteq DomainType /\ Free \notin Vpcs

VARIABLES
    gvpc,        \* the authority's GlobalVpc objects
    lock,        \* the domain lock ConfigMap
    dep,         \* per cluster: the dedicated native IC Deployment down to its Pod
    cr,          \* per cluster and VPC: the Kube-OVN resources
    nb,          \* per cluster and VPC: what the local OVN NB database holds
    row,         \* per VPC: the IC NB Transit_Switch row, by UUID (0: none)
    minted,      \* UUIDs handed out so far, per VPC
    consumers,   \* VPCs with an endpoint on the tenant switch of cluster 1
    pass,        \* where the process is
    domain       \* [n: clusters; vpcs: the GlobalVpcs in play; registration: the
                 \*  administrator's domain configuration; kept: VPCs
                 \*  that nobody deletes; hurt: VPCs whose objects
                 \*  were destroyed; and the budgets crashes, losses, joins, edits]

globalVars == <<gvpc, lock, dep, cr, nb, row, minted, consumers, pass, domain>>

Clusters == 1..domain.n
Kinds == {"Vpc", "Subnet", "Transit"}
Order == <<"Vpc", "Subnet", "Transit">>
NoCR == [uid |-> 0, dying |-> FALSE, routes |-> FALSE]
NoPass == [at |-> "idle", v |-> Free, del |-> FALSE, i |-> 1, k |-> 1, uid |-> 0, quiet |-> TRUE]

\* Build: one prefix claim for the transit network and one per cluster.
Claims == domain.n + 1

GlobalInit ==
    /\ domain \in Domains
    /\ gvpc = [v \in Vpcs |-> [stage |-> IF v \in domain.vpcs THEN "live" ELSE "gone",
                               fin |-> FALSE, hash |-> 0, op |-> "", row |-> 0, receipts |-> 0,
                               recs |-> [c \in Clusters |-> [k \in Kinds |-> 0]]]]
    /\ lock = [holder |-> Free, hash |-> 0]
    /\ dep = [c \in Clusters |-> [want |-> 1, seen |-> TRUE, rs |-> 1, rsseen |-> TRUE, pod |-> "up"]]
    /\ cr = [c \in Clusters |-> [v \in Vpcs |-> [k \in Kinds |-> NoCR]]]
    /\ nb = [c \in Clusters |-> [v \in Vpcs |-> {}]]
    /\ row = [v \in Vpcs |-> 0] /\ minted = [v \in Vpcs |-> 0]
    /\ consumers = {} /\ pass = NoPass

-----------------------------------------------------------------------------
(* The pass *)

V == pass.v
Me == gvpc[V]
Go(label) == pass' = [pass EXCEPT !.at = label, !.i = 1, !.k = 1, !.quiet = TRUE]
Return == pass' = NoPass
At(label) == pass.at = label

\* The store refuses an update of an object that changed since the pass read it.
Conflict == (Me.stage = "deleting") # pass.del
Save(new, label) ==
    IF Conflict THEN Return /\ UNCHANGED gvpc
    ELSE gvpc' = [gvpc EXCEPT ![V] = new] /\ Go(label)

\* The next cluster of a loop, or what follows the loop.
NextCluster(here, after) ==
    IF pass.i = domain.n THEN Go(after) ELSE pass' = [pass EXCEPT !.at = here, !.i = @ + 1]

\* owned, transit: an object recorded under another UID belongs to somebody else.
Foreign(uid, rec) == uid # 0 /\ rec # 0 /\ uid # rec
RowForeign(v) == Foreign(row[v], gvpc[v].row)
CRForeign(v) == \E c \in Clusters, k \in Kinds : Foreign(cr[c][v][k].uid, gvpc[v].recs[c][k])

\* EndpointsEmpty of both switches in every cluster.
Empty == V \notin consumers

\* Reconcile up to the accepted plan hash.
Begin(v) ==
    /\ At("idle") /\ gvpc[v].stage \in {"live", "deleting"}
    /\ LET g == gvpc[v]
           read == [NoPass EXCEPT !.at = "inspect", !.v = v, !.del = (g.stage = "deleting")]
       IN  \/ /\ g.stage = "live" /\ ~g.fin
              /\ gvpc' = [gvpc EXCEPT ![v].fin = TRUE] /\ pass' = NoPass
           \/ /\ g.fin /\ g.hash = 0
              /\ gvpc' = [gvpc EXCEPT ![v].hash = domain.registration] /\ pass' = read
           \/ g.fin /\ g.hash = domain.registration /\ pass' = read /\ UNCHANGED gvpc
    /\ UNCHANGED <<lock, dep, cr, nb, row, minted, consumers, domain>>

\* Lock holder, transit row and resource ownership before the first external write,
\* then the durable operation, the removal or the ordinary pass.
Inspect ==
    /\ At("inspect")
    /\ IF lock.holder \notin {Free, V} \/ RowForeign(V) \/ CRForeign(V) THEN Return
       ELSE IF Me.op \in {"Resume", "DeleteResume"} THEN Go("resume")
       ELSE IF pass.del THEN IF Empty THEN Go("acquire") ELSE Return   \* ConsumersPresent
       ELSE Go("reserve")
    /\ UNCHANGED <<gvpc, lock, dep, cr, nb, row, minted, consumers, domain>>

\* One receipt per claim, the transit prefix and one prefix per cluster, each saved.
Reserve ==
    /\ At("reserve")
    /\ IF Me.receipts = Claims THEN Go("ensure") /\ UNCHANGED gvpc
       ELSE Save([Me EXCEPT !.receipts = @ + 1], "reserve")
    /\ UNCHANGED <<lock, dep, cr, nb, row, minted, consumers, domain>>

NextResource ==
    IF pass.k < 3 THEN pass' = [pass EXCEPT !.at = "ensure", !.k = @ + 1]
    ELSE IF pass.i < domain.n THEN pass' = [pass EXCEPT !.at = "ensure", !.k = 1, !.i = @ + 1]
    ELSE Go("ready")

\* Mutant: a missing recorded resource is created again at once.
NeverMissing(have, rec) == FALSE

\* ErrRecordedResourceMissing
Missing(have, rec) == have.uid = 0 /\ rec # 0

\* ResourceStore.Ensure: create, or repair the owned fields of what exists.
Ensure ==
    /\ At("ensure")
    /\ LET k == Order[pass.k]  c == pass.i  have == cr[c][V][k]  rec == Me.recs[c][k]
           fresh == minted[V] + 1
       IN  \/ /\ Missing(have, rec)                              \* ResourceRecreationPending
              /\ Save([Me EXCEPT !.recs[c][k] = 0], "idle") /\ UNCHANGED <<cr, minted>>
           \/ /\ ~Missing(have, rec) /\ have.uid = 0
              /\ cr' = [cr EXCEPT ![c][V][k] = [uid |-> fresh, dying |-> FALSE, routes |-> k = "Vpc"]]
              /\ minted' = [minted EXCEPT ![V] = fresh]
              /\ pass' = [pass EXCEPT !.at = "record", !.uid = fresh] /\ UNCHANGED gvpc
           \/ /\ have.uid # 0 /\ (have.dying \/ Foreign(have.uid, rec))
              /\ Return /\ UNCHANGED <<gvpc, cr, minted>>
           \/ /\ have.uid # 0 /\ ~have.dying /\ ~Foreign(have.uid, rec)
              /\ cr' = [cr EXCEPT ![c][V][k].routes = (k = "Vpc")]
              /\ IF rec = have.uid THEN NextResource
                 ELSE pass' = [pass EXCEPT !.at = "record", !.uid = have.uid]
              /\ UNCHANGED <<gvpc, minted>>
    /\ UNCHANGED <<lock, dep, nb, row, consumers, domain>>

Record ==
    /\ At("record")
    /\ IF Conflict THEN Return /\ UNCHANGED gvpc
       ELSE /\ gvpc' = [gvpc EXCEPT ![V].recs[pass.i][Order[pass.k]] = pass.uid]
            /\ NextResource
    /\ UNCHANGED <<lock, dep, cr, nb, row, minted, consumers, domain>>

\* ResourceStore.Ready
SubnetReady(c, k) == cr[c][V][k].uid # 0 /\ ~cr[c][V][k].dying /\ k \in nb[c][V]

\* Every Subnet is ready; is a topology change needed?
Ready ==
    /\ At("ready")
    /\ IF \E c \in Clusters : ~SubnetReady(c, "Subnet") \/ ~SubnetReady(c, "Transit")
       THEN Return                                               \* LocalNetworkPending
       ELSE IF Me.row = 0 \/ lock.holder = V \/ row[V] = 0 THEN Go("acquire")
       ELSE IF RowForeign(V) THEN Return ELSE Go("link")
    /\ UNCHANGED <<gvpc, lock, dep, cr, nb, row, minted, consumers, domain>>

\* DomainGate.Acquire
Acquire ==
    /\ At("acquire")
    /\ IF lock.holder \notin {Free, V} \/ (lock.holder = V /\ lock.hash # Me.hash)
       THEN Return /\ UNCHANGED lock
       ELSE lock' = [holder |-> V, hash |-> Me.hash] /\ Go("pause")
    /\ UNCHANGED <<gvpc, dep, cr, nb, row, minted, consumers, domain>>

\* SetPaused: a Deployment is scaled if it has another size.
Scaled(c, n) ==
    IF dep[c].want = n THEN dep ELSE [dep EXCEPT ![c].want = n, ![c].seen = FALSE]

\* Mutant: an owned ReplicaSet that may still make a Pod is overlooked.
IgnoreSets(c) == dep[c].want = 0 /\ dep[c].seen

\* Deployment and ReplicaSet have observed their zero size.
SetsQuiet(c) == dep[c].want = 0 /\ dep[c].seen /\ dep[c].rs = 0 /\ dep[c].rsseen

PauseSets ==
    /\ At("pause")
    /\ dep' = Scaled(pass.i, 0)
    /\ pass' = [pass EXCEPT !.at = "pods", !.quiet = @ /\ SetsQuiet(pass.i)]
    /\ UNCHANGED <<gvpc, lock, cr, nb, row, minted, consumers, domain>>

\* A terminating Pod still writes.
PausePods ==
    /\ At("pods")
    /\ LET quiet == pass.quiet /\ dep[pass.i].pod = "none" IN
        IF pass.i < domain.n THEN pass' = [pass EXCEPT !.at = "pause", !.i = @ + 1, !.quiet = quiet]
        ELSE IF ~quiet THEN Return                               \* QuiescingIC
        ELSE Go(IF pass.del THEN "recheck" ELSE "mark")
    /\ UNCHANGED <<gvpc, lock, dep, cr, nb, row, minted, consumers, domain>>

\* Exec.Mark: exactly one switch of that name.
Markable(c) == "Transit" \in nb[c][V] /\ "dup" \notin nb[c][V]

Mark ==
    /\ At("mark")
    /\ IF Markable(pass.i)
       THEN /\ nb' = [nb EXCEPT ![pass.i][V] = @ \cup {"mark"}]
            /\ NextCluster("mark", "transit")
       ELSE Return /\ UNCHANGED nb
    /\ UNCHANGED <<gvpc, lock, dep, cr, row, minted, consumers, domain>>

\* ErrTransitMissing
RowMissing == row[V] = 0 /\ Me.row # 0

\* EnsureTransit behind the barrier; observed absence is saved before a replacement.
EnsureTransit ==
    /\ At("transit")
    /\ LET fresh == minted[V] + 1 IN
        \/ /\ RowMissing /\ Save([Me EXCEPT !.row = 0], "idle") /\ UNCHANGED <<row, minted>>
        \/ /\ ~RowMissing /\ row[V] = 0
           /\ row' = [row EXCEPT ![V] = fresh] /\ minted' = [minted EXCEPT ![V] = fresh]
           /\ pass' = [pass EXCEPT !.at = "gateways", !.uid = fresh] /\ UNCHANGED gvpc
        \/ /\ row[V] # 0 /\ UNCHANGED <<gvpc, row, minted>>
           /\ IF RowForeign(V) THEN Return
              ELSE pass' = [pass EXCEPT !.at = "gateways", !.uid = row[V]]
    /\ UNCHANGED <<lock, dep, cr, nb, consumers, domain>>

\* Exec.Gateways needs the router port of the transit network.
PortReady(c) == {"Vpc", "Transit"} \subseteq nb[c][V]

Gateways ==
    /\ At("gateways")
    /\ IF PortReady(pass.i)
       THEN /\ nb' = [nb EXCEPT ![pass.i][V] = @ \cup {"gateways"}]
            /\ NextCluster("gateways", "saveresume")
       ELSE Return /\ UNCHANGED nb
    /\ UNCHANGED <<gvpc, lock, dep, cr, row, minted, consumers, domain>>

SaveResume ==
    /\ At("saveresume") /\ Save([Me EXCEPT !.op = "Resume", !.row = pass.uid], "resume")
    /\ UNCHANGED <<lock, dep, cr, nb, row, minted, consumers, domain>>

-----------------------------------------------------------------------------
(* resume: restore native IC, release the lock, finish the operation *)

Resume ==
    /\ At("resume")
    /\ Go(IF lock.holder = Free THEN "finish" ELSE "unpause")
    /\ UNCHANGED <<gvpc, lock, dep, cr, nb, row, minted, consumers, domain>>

Unpause ==
    /\ At("unpause")
    /\ LET c == pass.i
           quiet == pass.quiet /\ dep[c].want = 1 /\ dep[c].seen /\ dep[c].pod = "up"
       IN  /\ dep' = Scaled(c, 1)
           /\ IF c < domain.n THEN pass' = [pass EXCEPT !.i = @ + 1, !.quiet = quiet]
              ELSE IF quiet THEN Go("release") ELSE Return       \* ResumingIC
    /\ UNCHANGED <<gvpc, lock, cr, nb, row, minted, consumers, domain>>

\* Mutant: the operation is finished with the lock still held.
ReleaseLater ==
    /\ At("release") /\ Go("finish")
    /\ UNCHANGED <<gvpc, lock, dep, cr, nb, row, minted, consumers, domain>>

\* DomainGate.Release
Release ==
    /\ At("release") /\ lock' = [holder |-> Free, hash |-> 0] /\ Go("finish")
    /\ UNCHANGED <<gvpc, dep, cr, nb, row, minted, consumers, domain>>

Finish ==
    /\ At("finish")
    /\ IF Me.op = "DeleteResume" THEN gvpc' = [gvpc EXCEPT ![V].stage = "gone"] /\ Return
       ELSE Save([Me EXCEPT !.op = ""], "idle")
    /\ UNCHANGED <<lock, dep, cr, nb, row, minted, consumers, domain>>

\* Connected: tunnel keys and remote ports.
Keyed(c) == {"mark", "keys"} \subseteq nb[c][V]

\* RoutesReady
Routed(c) == "routes" \in nb[c][V]

\* The ordinary pass of a connected VPC, cluster by cluster.
Link ==
    /\ At("link")
    /\ LET c == pass.i IN
        IF Markable(c) /\ PortReady(c)
        THEN /\ nb' = [nb EXCEPT ![c][V] = @ \cup {"mark", "gateways"}]
             /\ IF Keyed(c) /\ Routed(c) THEN NextCluster("link", "idle") ELSE Return
        ELSE Return /\ UNCHANGED nb
    /\ UNCHANGED <<gvpc, lock, dep, cr, row, minted, consumers, domain>>

-----------------------------------------------------------------------------
(* remove: behind the barrier *)

\* Endpoints once more; a consumer that appeared ends the removal.
Recheck ==
    /\ At("recheck")
    /\ IF Empty THEN Go("withdraw") /\ UNCHANGED gvpc
       ELSE Save([Me EXCEPT !.op = "Resume"], "resume")
    /\ UNCHANGED <<lock, dep, cr, nb, row, minted, consumers, domain>>

WithdrawRoutes ==
    /\ At("withdraw")
    /\ cr' = [cr EXCEPT ![pass.i][V]["Vpc"].routes = FALSE]
    /\ NextCluster("withdraw", "deleterow")
    /\ UNCHANGED <<gvpc, lock, dep, nb, row, minted, consumers, domain>>

DeleteTransit ==
    /\ At("deleterow")
    /\ IF RowForeign(V) THEN Return /\ UNCHANGED row
       ELSE row' = [row EXCEPT ![V] = 0] /\ Go("subnets")
    /\ UNCHANGED <<gvpc, lock, dep, cr, nb, minted, consumers, domain>>

\* ResourceStore.Delete of one kind in every cluster, each seen to be gone.
Delete(label, kinds, after) ==
    /\ At(label)
    /\ LET c == pass.i  gone == \A k \in kinds : cr[c][V][k].uid = 0
           all == pass.quiet /\ gone
       IN  /\ cr' = [cr EXCEPT ![c][V] = [k \in Kinds |->
                        IF k \in kinds /\ @[k].uid # 0 THEN [@[k] EXCEPT !.dying = TRUE] ELSE @[k]]]
           /\ IF c < domain.n THEN pass' = [pass EXCEPT !.i = @ + 1, !.quiet = all]
              ELSE IF all THEN Go(after) ELSE Return             \* ResourcesDeleting
    /\ UNCHANGED <<gvpc, lock, dep, nb, row, minted, consumers, domain>>

DeleteSubnets == Delete("subnets", {"Subnet", "Transit"}, "vpcs")
DeleteVpcs == Delete("vpcs", {"Vpc"}, "absent")

\* Mutant: the resources are taken for the OVN objects.
AssumeAbsent(c) == TRUE

\* LocalAbsent: router, switches and their ports, by name.
Absent(c) == nb[c][V] \cap {"Vpc", "Subnet", "Transit", "dup"} = {}

SaveDeleteResume ==
    /\ At("absent")
    /\ IF \E c \in Clusters : ~Absent(c) THEN Return /\ UNCHANGED gvpc   \* OVNCleanupPending
       ELSE Save([Me EXCEPT !.op = "DeleteResume"], "resume")
    /\ UNCHANGED <<lock, dep, cr, nb, row, minted, consumers, domain>>

Step == \/ Inspect \/ Reserve \/ Ensure \/ Record \/ Ready \/ Acquire \/ PauseSets \/ PausePods
        \/ Mark \/ EnsureTransit \/ Gateways \/ SaveResume \/ Resume \/ Unpause \/ Release \/ Finish
        \/ Link \/ Recheck \/ WithdrawRoutes \/ DeleteTransit \/ DeleteSubnets \/ DeleteVpcs
        \/ SaveDeleteResume

-----------------------------------------------------------------------------
(* Kubernetes, Kube-OVN and native IC *)

\* The Deployment controller sizes the ReplicaSet, the ReplicaSet its Pod; until the
\* latter has observed a new size it may still act on the earlier one.
Workload(c) ==
    /\ LET d == dep[c] IN
        \/ ~d.seen /\ dep' = [dep EXCEPT ![c] = [d EXCEPT !.seen = TRUE, !.rs = d.want, !.rsseen = d.rs = d.want /\ @]]
        \/ /\ d.pod \in {"none", "up"} /\ (~d.rsseen \/ (d.rs = 1 /\ d.pod = "none"))
           /\ dep' = [dep EXCEPT ![c] = [d EXCEPT !.rsseen = TRUE,
                 !.pod = IF d.rs = 1 THEN "up" ELSE IF @ = "up" THEN "going" ELSE @]]
        \/ ~d.rsseen /\ d.pod = "none" /\ dep' = [dep EXCEPT ![c].pod = "up"]
        \/ d.pod = "going" /\ dep' = [dep EXCEPT ![c].pod = "none"]
    /\ UNCHANGED <<gvpc, lock, cr, nb, row, minted, consumers, pass, domain>>

\* Kube-OVN turns resources into NB objects, and removes both.
KubeOVN(c, v) ==
    /\ LET has == nb[c][v]
           put(f) == nb' = [nb EXCEPT ![c][v] = @ \cup {f}] /\ UNCHANGED cr
           drop(fs) == has \cap fs # {} /\ nb' = [nb EXCEPT ![c][v] = @ \ fs] /\ UNCHANGED cr
       IN  \/ \E k \in Kinds \ has : /\ cr[c][v][k].uid # 0 /\ ~cr[c][v][k].dying
                                     /\ k = "Vpc" \/ "Vpc" \in has
                                     /\ put(k)
           \/ "Vpc" \in has /\ cr[c][v]["Vpc"].routes /\ "routes" \notin has /\ put("routes")
           \/ ~cr[c][v]["Vpc"].routes /\ drop({"routes"})
           \/ \E k \in Kinds : /\ cr[c][v][k].dying
                               /\ k = "Subnet" => ~(c = 1 /\ v \in consumers)
                               /\ cr' = [cr EXCEPT ![c][v][k] = NoCR] /\ UNCHANGED nb
           \/ cr[c][v]["Subnet"].uid = 0 /\ drop({"Subnet"})
           \/ cr[c][v]["Transit"].uid = 0 /\ drop({"Transit", "mark", "keys", "gateways"})
           \/ cr[c][v]["Vpc"].uid = 0 /\ has \cap {"Subnet", "Transit"} = {} /\ drop({"Vpc", "routes"})
    /\ UNCHANGED <<gvpc, lock, dep, row, minted, consumers, pass, domain>>

Running(c) == dep[c].pod # "none"

\* Native IC distributes tunnel keys and remote ports, deletes orphaned marked
\* switches and adds switches that it misses.
NativeIC(c, v) ==
    /\ Running(c)
    /\ LET has == nb[c][v] IN
        \/ /\ row[v] # 0 /\ {"mark", "gateways"} \subseteq has /\ "keys" \notin has
           /\ nb' = [nb EXCEPT ![c][v] = @ \cup {"keys"}]
        \/ /\ row[v] = 0 /\ has \cap {"mark", "dup"} # {}
           /\ nb' = [nb EXCEPT ![c][v] = IF "mark" \in has THEN @ \ {"Transit", "mark", "keys", "gateways", "dup"}
                                         ELSE @ \ {"dup"}]
        \/ /\ row[v] # 0 /\ has \cap {"mark", "dup"} = {}
           /\ nb' = [nb EXCEPT ![c][v] = @ \cup {"dup"}]
    /\ UNCHANGED <<gvpc, lock, dep, cr, row, minted, consumers, pass, domain>>

-----------------------------------------------------------------------------
(* Users, the administrator and faults *)

\* An object without a finalizer goes at once.
UserDelete(v) ==
    /\ gvpc[v].stage = "live" /\ v \notin domain.kept
    /\ gvpc' = [gvpc EXCEPT ![v].stage = IF gvpc[v].fin THEN "deleting" ELSE "gone"]
    /\ UNCHANGED <<lock, dep, cr, nb, row, minted, consumers, pass, domain>>

Join(v) ==
    /\ domain.joins > 0 /\ v \notin consumers /\ cr[1][v]["Subnet"].uid # 0 /\ ~cr[1][v]["Subnet"].dying
    /\ consumers' = consumers \cup {v} /\ domain' = [domain EXCEPT !.joins = @ - 1]
    /\ UNCHANGED <<gvpc, lock, dep, cr, nb, row, minted, pass>>

Drain(v) ==
    /\ v \in consumers /\ consumers' = consumers \ {v}
    /\ UNCHANGED <<gvpc, lock, dep, cr, nb, row, minted, pass, domain>>

\* A tenant Subnet or the transit row is destroyed, or the native IC Pod evicted.
Lose(v) ==
    /\ domain.losses > 0
    /\ \/ dep[1].pod = "up" /\ dep' = [dep EXCEPT ![1].pod = "going"] /\ UNCHANGED <<cr, row>>
          /\ domain' = [domain EXCEPT !.losses = @ - 1]
       \/ cr[1][v]["Subnet"].uid # 0 /\ cr' = [cr EXCEPT ![1][v]["Subnet"] = NoCR] /\ UNCHANGED <<dep, row>>
          /\ domain' = [domain EXCEPT !.losses = @ - 1]
       \/ row[v] # 0 /\ row' = [row EXCEPT ![v] = 0] /\ UNCHANGED <<dep, cr>>
          /\ domain' = [domain EXCEPT !.losses = @ - 1, !.hurt = @ \cup {v}]
    /\ UNCHANGED <<gvpc, lock, nb, minted, consumers, pass>>

\* The process stops, or a response is lost and the pass ends with an error.
Crash ==
    /\ domain.crashes > 0 /\ ~At("idle") /\ Return
    /\ domain' = [domain EXCEPT !.crashes = @ - 1]
    /\ UNCHANGED <<gvpc, lock, dep, cr, nb, row, minted, consumers>>

\* The registration is edited, and edited back; each restarts the process.
Edit ==
    /\ domain.edits > 0 /\ Return
    /\ domain' = [domain EXCEPT !.edits = @ - 1, !.registration = 3 - @]
    /\ UNCHANGED <<gvpc, lock, dep, cr, nb, row, minted, consumers>>

GlobalNext ==
    \/ Step
    \/ \E v \in Vpcs : Begin(v) \/ UserDelete(v) \/ Join(v) \/ Drain(v) \/ Lose(v)
    \/ \E c \in Clusters : Workload(c) \/ \E v \in Vpcs : KubeOVN(c, v) \/ NativeIC(c, v)
    \/ Crash \/ Edit

GlobalSpec == GlobalInit /\ [][GlobalNext]_globalVars

\* Passes go on, every object is requeued, and Kubernetes, Kube-OVN and native IC work.
Progress == /\ WF_globalVars(Step)
            /\ \A v \in Vpcs : SF_globalVars(Begin(v))
            /\ WF_globalVars(\E c \in Clusters : Workload(c))
            /\ WF_globalVars(\E c \in Clusters, v \in Vpcs : KubeOVN(c, v))
            /\ WF_globalVars(\E c \in Clusters, v \in Vpcs : NativeIC(c, v))

\* Consumers leave in the end.
Draining == \A v \in Vpcs : WF_globalVars(Drain(v))

-----------------------------------------------------------------------------
\* Objects, records and the place in a pass have the shape the actions rely on.
GlobalTypeOK ==
    /\ lock.holder \in Vpcs \cup {Free}
    /\ \A v \in Vpcs : row[v] <= minted[v] /\ gvpc[v].receipts \in 0..Claims
    /\ \A c \in Clusters : dep[c].want \in {0, 1} /\ dep[c].pod \in {"none", "up", "going"}
    /\ pass.i \in Clusters /\ pass.k \in 1..3

(***************************************************************************)
(* DomainGate: wherever a native IC process can still write, every VPC     *)
(* either has both its row and its marked local switch or neither.  So     *)
(* native IC never deletes a switch that Kube-OVN owns and never adds a    *)
(* duplicate, whatever crashes, deletions and restarts happen.             *)
(***************************************************************************)
Barrier ==
    \A v \in Vpcs \ domain.hurt : \A c \in Clusters :
        /\ Running(c) => ("mark" \in nb[c][v] <=> row[v] # 0)
        /\ "dup" \notin nb[c][v]

(***************************************************************************)
(* recorded, updateRecord and the saved absence: a lost resource, row or   *)
(* response never makes the controller take its own object for somebody    *)
(* else's, which would block the VPC for ever ("UID changed").             *)
(***************************************************************************)
NoFalseConflict == \A v \in Vpcs : ~RowForeign(v) /\ ~CRForeign(v)

(***************************************************************************)
(* remove: when the finalizer goes, nothing of the VPC is left in any      *)
(* cluster or in the IC database, and the domain is not locked by it.      *)
(***************************************************************************)
GoneClean ==
    \A v \in Vpcs : gvpc[v].stage = "gone" =>
        /\ row[v] = 0 /\ lock.holder # v
        /\ \A c \in Clusters : nb[c][v] = {} /\ \A k \in Kinds : cr[c][v][k].uid = 0

\* A VPC that was accepted under another registration is blocked on purpose.
Accepted(v) == gvpc[v].hash \in {0, domain.registration}
Connected(v) == row[v] # 0 /\ \A c \in Clusters : {"mark", "gateways", "keys", "routes", "Subnet"} \subseteq nb[c][v]

(***************************************************************************)
(* Every VPC ends up connected or gone, and no operation leaves the domain *)
(* locked: with consumers that leave, each holder finishes what it began   *)
(* and the others get their turn.                                          *)
(***************************************************************************)
Settles ==
    <>[](\/ \E v \in Vpcs : ~Accepted(v)
         \/ /\ \A v \in Vpcs : IF gvpc[v].stage = "live" THEN Connected(v) ELSE gvpc[v].stage = "gone"
            /\ lock.holder = Free /\ \A c \in Clusters : Running(c))
=============================================================================
