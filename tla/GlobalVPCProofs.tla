-------------------------- MODULE GlobalVPCProofs --------------------------
(***************************************************************************)
(* The legacy GlobalVpc controller, for any VPCs and clusters and any      *)
(* number of crashes, losses and edited registrations: it never takes its  *)
(* own objects for somebody else's, nothing survives the finalizer, and,   *)
(* as long as no consumer appears, no running native IC ever meets a       *)
(* half-made transit network.                                              *)
(***************************************************************************)
EXTENDS GlobalVPC, Integers, TLAPS

\* The labels of a pass: before the barrier, at it, behind it on the way up and on
\* the way down, and leaving it.
Building == {"reserve", "ensure", "record", "ready"}
Pausing == {"pause", "pods"}
Opening == {"mark", "transit", "gateways", "saveresume"}
Shutting == {"recheck", "withdraw", "deleterow", "subnets", "vpcs", "absent"}
Resuming == {"resume", "unpause", "release", "finish"}
Labels == {"idle", "inspect", "acquire", "link"}
            \cup Building \cup Pausing \cup Opening \cup Shutting \cup Resuming

Facts == {"Vpc", "Subnet", "Transit", "mark", "keys", "gateways", "routes", "dup"}
Ops == {"", "Resume", "DeleteResume"}
Object == [stage : {"live", "deleting", "gone"}, fin : BOOLEAN, hash : Int,
           op : Ops, row : Nat, receipts : Nat,
           recs : [Clusters -> [Kinds -> Nat]]]
Resource == [uid : Nat, dying : BOOLEAN, routes : BOOLEAN]
Deployed == [want : {0, 1}, seen : BOOLEAN, rs : {0, 1}, rsseen : BOOLEAN,
             pod : {"none", "up", "going"}]
PassType == [at : Labels, v : Vpcs \cup {Free}, del : BOOLEAN, i : Clusters, k : 1..3,
             uid : Nat, quiet : BOOLEAN]

Shapes ==
    /\ domain \in DomainType
    /\ gvpc \in [Vpcs -> Object]
    /\ lock \in [holder : Vpcs \cup {Free}, hash : Int]
    /\ dep \in [Clusters -> Deployed]
    /\ cr \in [Clusters -> [Vpcs -> [Kinds -> Resource]]]
    /\ nb \in [Clusters -> [Vpcs -> SUBSET Facts]]
    /\ row \in [Vpcs -> Nat]
    /\ minted \in [Vpcs -> Nat]
    /\ pass \in PassType

-----------------------------------------------------------------------------
(* What holds of a VPC at any time.                                        *)

\* What is recorded is what exists, or is missing.
Recorded(v) ==
    /\ gvpc[v].row # 0 => row[v] \in {0, gvpc[v].row}
    /\ \A c \in Clusters, k \in Kinds :
        gvpc[v].recs[c][k] # 0 => cr[c][v][k].uid \in {0, gvpc[v].recs[c][k]}

\* Nothing of a VPC exists before its finalizer is set and once its removal is saved.
Bare(v) == /\ row[v] = 0
           /\ \A c \in Clusters : nb[c][v] = {} /\ \A k \in Kinds : cr[c][v][k].uid = 0
Cleaned(v) ==
    /\ ~gvpc[v].fin \/ gvpc[v].stage = "gone" => Bare(v) /\ lock.holder # v
    /\ gvpc[v].op = "DeleteResume" => Bare(v)

\* What belongs to a switch or a router goes with it.
Hangs(v) ==
    \A c \in Clusters :
        /\ nb[c][v] \cap {"mark", "keys", "gateways"} # {} => "Transit" \in nb[c][v]
        /\ "routes" \in nb[c][v] => "Vpc" \in nb[c][v]

\* The transit Subnets outlive the row.
TransitUp(v) == \A c \in Clusters : cr[c][v]["Transit"].uid # 0 /\ ~cr[c][v]["Transit"].dying
Carried(v) == row[v] # 0 => TransitUp(v)

\* Native IC is stopped in a cluster and cannot come back by itself.
Stopped(c) == SetsQuiet(c) /\ dep[c].pod = "none"
AllStopped == \A c \in Clusters : Stopped(c)

\* A half-made transit network exists only behind the barrier.
Torn(v) == \E c \in Clusters : ~("mark" \in nb[c][v] <=> row[v] # 0)
Fenced(v) ==
    v \notin domain.hurt =>
        /\ Torn(v) => lock.holder = v /\ gvpc[v].op = "" /\ AllStopped
        /\ \A c \in Clusters : "dup" \notin nb[c][v]

\* No consumer ever appears.
Guestless == \A d \in Domains : d.joins = 0

Sound(v) == /\ Recorded(v) /\ Cleaned(v) /\ Hangs(v) /\ Carried(v)
            /\ Guestless => Fenced(v)

-----------------------------------------------------------------------------
(* What holds where the pass is.                                           *)

\* The object and the lock.
Owns(v) ==
    /\ gvpc[v].fin /\ gvpc[v].stage # "gone"
    /\ pass.del => gvpc[v].stage = "deleting"
    /\ pass.at \in Building \cup Opening \cup {"link"} => ~pass.del
    /\ pass.at \in Shutting => pass.del
    /\ pass.at \in Resuming => gvpc[v].op # ""
    /\ pass.at \in Building \cup Pausing \cup Opening \cup Shutting \cup {"acquire", "link"} => gvpc[v].op = ""
    /\ pass.at \in Pausing \cup Opening \cup Shutting \cup {"unpause", "release"} => lock.holder = v
    /\ pass.at = "resume" => lock.holder \in {Free, v}
    /\ pass.at = "finish" => lock.holder = Free

\* The UID about to be recorded.
Holds(v) ==
    /\ pass.at = "record" => cr[pass.i][v][Order[pass.k]].uid \in {0, pass.uid}
    /\ pass.at \in {"gateways", "saveresume"} => row[v] \in {0, pass.uid}

\* Native IC is stopped in the clusters the pass has been through.
Waits ==
    /\ pass.at \in Opening \cup Shutting => AllStopped
    /\ pass.at \in Pausing /\ pass.quiet => \A c \in Clusters : c < pass.i => Stopped(c)
    /\ pass.at = "pods" /\ pass.quiet => \A c \in Clusters : c = pass.i => SetsQuiet(c)

\* The transit networks on the way up.
Rises(v) ==
    /\ pass.at \in Opening \/ (pass.at \in Pausing \cup {"acquire"} /\ ~pass.del) => TransitUp(v)
    /\ pass.at = "mark" => \A c \in Clusters : c < pass.i => "mark" \in nb[c][v]
    /\ pass.at \in {"transit", "gateways", "saveresume"} => \A c \in Clusters : "mark" \in nb[c][v]
    /\ pass.at \in {"gateways", "saveresume", "link"} => row[v] # 0 \/ v \in domain.hurt

\* What the removal has been through is gone.
Void(v, c, k) == cr[c][v][k].uid = 0
Falls(v) ==
    /\ pass.at \in {"subnets", "vpcs", "absent"} => row[v] = 0
    /\ pass.at = "subnets" /\ pass.quiet =>
        \A c \in Clusters : c < pass.i => Void(v, c, "Subnet") /\ Void(v, c, "Transit")
    /\ pass.at \in {"vpcs", "absent"} => \A c \in Clusters : Void(v, c, "Subnet") /\ Void(v, c, "Transit")
    /\ pass.at = "vpcs" /\ pass.quiet => \A c \in Clusters : c < pass.i => Void(v, c, "Vpc")
    /\ pass.at = "absent" => \A c \in Clusters : Void(v, c, "Vpc")

Place(v) == Owns(v) /\ Holds(v) /\ Waits /\ Rises(v) /\ Falls(v)

PlaceInv ==
    pass.at # "idle" => pass.v \in Vpcs /\ \A v \in Vpcs : pass.v = v => Place(v)

\* A free lock has no holder, and without consumers there are none.
Alone == Free \notin Vpcs /\ (Guestless => domain.joins = 0 /\ consumers = {})

IInv == Shapes /\ (\A v \in Vpcs : Sound(v)) /\ PlaceInv /\ Alone

-----------------------------------------------------------------------------
(* The place in a pass.                                                    *)

\* The clusters are 1 to n, and n is not 0.
LEMMA SomeClusters ==
  ASSUME Shapes
  PROVE  /\ domain.n \in Nat \ {0} /\ Clusters = 1..domain.n
         /\ 1 \in Clusters /\ domain.n \in Clusters
         /\ pass.i \in Clusters /\ pass.k \in 1..3
<1>1. domain.n \in Nat \ {0}
  BY DEF Shapes, DomainType
<1> QED
  BY <1>1 DEF Shapes, PassType, Clusters

\* The next loop of the same pass.
LEMMA GoFields ==
  ASSUME Shapes, NEW l \in Labels, Go(l)
  PROVE  /\ pass' \in PassType
         /\ pass'.at = l /\ pass'.i = 1 /\ pass'.k = 1
         /\ pass'.v = pass.v /\ pass'.del = pass.del /\ pass'.uid = pass.uid
<1>1. pass' = [at |-> l, v |-> pass.v, del |-> pass.del, i |-> 1, k |-> 1, uid |-> pass.uid,
               quiet |-> TRUE]
  BY DEF Go, Shapes, PassType
<1>2. pass.v \in Vpcs \cup {Free} /\ pass.del \in BOOLEAN /\ pass.uid \in Nat
  BY DEF Shapes, PassType
<1>3. 1 \in Clusters /\ 1 \in 1..3
  BY SomeClusters
<1>4. pass' \in PassType
  BY <1>1, <1>2, <1>3 DEF PassType
<1> QED
  BY <1>1, <1>4

\* The next cluster of the same loop.
LEMMA AheadFields ==
  ASSUME Shapes, NEW l \in Labels, NEW q \in BOOLEAN, NEW j \in Clusters, NEW m \in 1..3,
         NEW u \in Nat,
         pass' = [at |-> l, v |-> pass.v, del |-> pass.del, i |-> j, k |-> m, uid |-> u,
                  quiet |-> q]
  PROVE  /\ pass' \in PassType
         /\ pass'.at = l /\ pass'.i = j /\ pass'.k = m /\ pass'.uid = u
         /\ pass'.quiet = q
         /\ pass'.v = pass.v /\ pass'.del = pass.del
<1>2. pass.v \in Vpcs \cup {Free} /\ pass.del \in BOOLEAN
  BY DEF Shapes, PassType
<1>4. pass' \in PassType
  BY <1>2 DEF PassType
<1> QED
  BY <1>4

\* The end of a pass.
LEMMA ReturnFields ==
  ASSUME Shapes, Return
  PROVE  pass' \in PassType /\ pass'.at = "idle"
<1>1. 1 \in Clusters
  BY SomeClusters
<1>2. NoPass \in PassType
  BY <1>1 DEF NoPass, PassType, Labels
<1> QED
  BY <1>2 DEF Return, NoPass

\* The fields of the place, one by one.
LEMMA PassFields ==
  ASSUME Shapes
  PROVE  /\ pass = [at |-> pass.at, v |-> pass.v, del |-> pass.del, i |-> pass.i, k |-> pass.k,
                    uid |-> pass.uid, quiet |-> pass.quiet]
         /\ pass.at \in Labels /\ pass.i \in Clusters /\ pass.k \in 1..3 /\ pass.uid \in Nat
         /\ pass.quiet \in BOOLEAN
  BY DEF Shapes, PassType

-----------------------------------------------------------------------------
(* What steps have in common.                                              *)

world == <<gvpc, lock, dep, cr, nb, row, minted, consumers, domain>>

\* A step keeps the clusters.
LEMMA ShapesStep ==
  ASSUME domain' \in DomainType, domain'.n = domain.n,
         gvpc' \in [Vpcs -> Object], lock' \in [holder : Vpcs \cup {Free}, hash : Int],
         dep' \in [Clusters -> Deployed], cr' \in [Clusters -> [Vpcs -> [Kinds -> Resource]]],
         nb' \in [Clusters -> [Vpcs -> SUBSET Facts]],
         row' \in [Vpcs -> Nat], minted' \in [Vpcs -> Nat], pass' \in PassType
  PROVE  Shapes' /\ Clusters' = Clusters
<1>1. Clusters' = Clusters
  BY DEF Clusters
<1>2. Object' = Object /\ PassType' = PassType
  BY <1>1 DEF Object, PassType
<1> QED
  BY <1>1, <1>2 DEF Shapes

\* A VPC that a step does not touch, with the domain not given away under it.
LEMMA Keep ==
  ASSUME NEW w \in Vpcs, Sound(w), Clusters' = Clusters, gvpc'[w] = gvpc[w], row'[w] = row[w],
         \A c \in Clusters : cr'[c][w] = cr[c][w] /\ nb'[c][w] = nb[c][w],
         domain.hurt \subseteq domain'.hurt, lock'.holder = w <=> lock.holder = w,
         lock.holder = w /\ gvpc[w].op = "" /\ AllStopped => AllStopped'
  PROVE  Sound(w)'
<1>1. Recorded(w)'
  BY DEF Sound, Recorded
<1>2. Bare(w) => Bare(w)'
  BY DEF Bare
<1>3. Cleaned(w)'
  BY <1>2 DEF Sound, Cleaned
<1>4. Hangs(w)'
  BY DEF Sound, Hangs
<1>5. Carried(w)'
  BY DEF Sound, Carried, TransitUp
<1>6. Torn(w)' => Torn(w)
  BY DEF Torn
<1>7. Guestless => Fenced(w)'
  BY <1>6 DEF Sound, Fenced
<1> QED
  BY <1>1, <1>3, <1>4, <1>5, <1>7 DEF Sound

\* Between two passes the place says nothing.
LEMMA IdlePlace ==
  ASSUME pass'.at = "idle"
  PROVE  PlaceInv'
  BY DEF PlaceInv

\* The place of a pass of v.
LEMMA PlaceOf ==
  ASSUME NEW v \in Vpcs, pass'.v = v, Place(v)'
  PROVE  PlaceInv'
  BY DEF PlaceInv

\* What is known of the VPC that a pass works on.
LEMMA PlaceMe ==
  ASSUME IInv, pass.at # "idle"
  PROVE  pass.v \in Vpcs /\ \A v \in Vpcs : pass.v = v => Place(v) /\ Sound(v)
  BY DEF IInv, PlaceInv

\* A step that only moves the pass.
LEMMA MoveStep ==
  ASSUME IInv, UNCHANGED world, pass' \in PassType, PlaceInv'
  PROVE  IInv'
<1>1. Shapes' /\ Clusters' = Clusters
  BY ShapesStep DEF IInv, Shapes, world
<1>2. AllStopped => AllStopped'
  BY <1>1 DEF AllStopped, Stopped, SetsQuiet, world
<1>3. ASSUME NEW w \in Vpcs PROVE Sound(w)'
  BY <1>1, <1>2, Keep DEF IInv, world
<1>4. Alone'
  BY DEF IInv, Alone, world
<1> QED
  BY <1>1, <1>3, <1>4 DEF IInv

\* A pass that ends without touching anything.
LEMMA ReturnStep ==
  ASSUME IInv, UNCHANGED world, Return
  PROVE  IInv'
  BY ReturnFields, IdlePlace, MoveStep DEF IInv

\* A pass that goes on without touching anything.
LEMMA OnStep ==
  ASSUME IInv, UNCHANGED world, pass' \in PassType, NEW v \in Vpcs, pass'.v = v, Place(v)'
  PROVE  IInv'
  BY PlaceOf, MoveStep

\* What hangs on Deployments, resources and clusters that stay as they are.
LEMMA Calm ==
  ASSUME UNCHANGED <<cr, dep, domain>>, NEW v \in Vpcs
  PROVE  /\ Clusters' = Clusters
         /\ AllStopped' <=> AllStopped
         /\ TransitUp(v)' <=> TransitUp(v)
  BY DEF AllStopped, Stopped, SetsQuiet, TransitUp, Clusters

-----------------------------------------------------------------------------
(* Steps that only move the pass.                                          *)

\* A pass goes on from Inspect only with the lock free or its own.
LEMMA InspectStep ==
  ASSUME IInv, Inspect
  PROVE  IInv'
<1>0. pass.at = "inspect" /\ UNCHANGED world /\ Shapes
  BY DEF Inspect, At, world, IInv
<1>1. PICK v \in Vpcs : pass.v = v /\ Place(v)
  BY <1>0, PlaceMe
<1>2. gvpc[v].op \in {"", "Resume", "DeleteResume"}
  BY <1>0 DEF Shapes, Object, Ops
<1>3. CASE Return
  BY <1>0, <1>3, ReturnStep
<1>4. CASE ~Return /\ gvpc[v].op \in {"Resume", "DeleteResume"}
  <2>1. Go("resume") /\ lock.holder \in {Free, v}
    BY <1>1, <1>4 DEF Inspect, V, Me
  <2>2. /\ pass' \in PassType /\ pass'.at = "resume" /\ pass'.v = v /\ pass'.del = pass.del
    BY <1>0, <1>1, <2>1, GoFields DEF Labels, Resuming
  <2>3. Place(v)'
    BY <1>0, <1>1, <1>4, <2>1, <2>2 DEF world, Place, Owns, Holds, Waits, Rises, Falls,
       Building, Pausing, Opening, Shutting, Resuming
  <2> QED
    BY <1>0, <2>2, <2>3, OnStep
<1>5. CASE ~Return /\ gvpc[v].op = ""
  <2>1. (pass.del /\ Go("acquire")) \/ (~pass.del /\ Go("reserve"))
    BY <1>1, <1>5 DEF Inspect, V, Me
  <2>2. /\ pass' \in PassType /\ pass'.v = v /\ pass'.del = pass.del
        /\ (pass.del /\ pass'.at = "acquire") \/ (~pass.del /\ pass'.at = "reserve")
    BY <1>0, <1>1, <2>1, GoFields DEF Labels, Building
  <2>3. Place(v)'
    BY <1>0, <1>1, <1>5, <2>2 DEF world, Place, Owns, Holds, Waits, Rises, Falls,
       Building, Pausing, Opening, Shutting, Resuming
  <2> QED
    BY <1>0, <2>2, <2>3, OnStep
<1> QED
  BY <1>2, <1>3, <1>4, <1>5

\* The way up begins with every transit Subnet in place.
LEMMA ReadyStep ==
  ASSUME IInv, Ready
  PROVE  IInv'
<1>0. pass.at = "ready" /\ UNCHANGED world /\ Shapes
  BY DEF Ready, At, world, IInv
<1>1. PICK v \in Vpcs : pass.v = v /\ Place(v)
  BY <1>0, PlaceMe
<1>2. ~pass.del /\ gvpc[v].op = "" /\ gvpc[v].fin /\ gvpc[v].stage # "gone"
  BY <1>0, <1>1 DEF Place, Owns, Building
<1>3. CASE Return
  BY <1>0, <1>3, ReturnStep
<1>4. CASE ~Return
  <2>1. TransitUp(v) /\ (Go("acquire") \/ (Go("link") /\ row[v] # 0))
    BY <1>1, <1>4 DEF Ready, V, Me, SubnetReady, TransitUp
  <2>2. /\ pass' \in PassType /\ pass'.v = v /\ ~pass'.del
        /\ pass'.at = "acquire" \/ (pass'.at = "link" /\ row[v] # 0)
    BY <1>0, <1>1, <1>2, <2>1, GoFields DEF Labels
  <2>3. TransitUp(v)'
    BY <1>0, <2>1, Calm DEF world
  <2>4. Place(v)'
    BY <1>0, <1>2, <2>2, <2>3 DEF world, Place, Owns, Holds, Waits, Rises, Falls,
       Building, Pausing, Opening, Shutting, Resuming
  <2> QED
    BY <1>0, <2>2, <2>4, OnStep
<1> QED
  BY <1>3, <1>4

\* Behind the barrier every native IC is stopped.
LEMMA PausePodsStep ==
  ASSUME IInv, PausePods
  PROVE  IInv'
<1> DEFINE q == pass.quiet /\ dep[pass.i].pod = "none"
<1>0. pass.at = "pods" /\ UNCHANGED world /\ Shapes
  BY DEF PausePods, At, world, IInv
<1>1. PICK v \in Vpcs : pass.v = v /\ Place(v)
  BY <1>0, PlaceMe
<1>2. /\ gvpc[v].op = "" /\ gvpc[v].fin /\ gvpc[v].stage # "gone" /\ lock.holder = v
      /\ pass.del => gvpc[v].stage = "deleting"
      /\ ~pass.del => TransitUp(v)
  BY <1>0, <1>1 DEF Place, Owns, Rises, Pausing
<1>3. q \in BOOLEAN /\ (q => \A c \in Clusters : c < pass.i + 1 => Stopped(c))
  <2>1. q => (\A c \in Clusters : c < pass.i => Stopped(c)) /\ Stopped(pass.i)
    BY <1>0, <1>1, SomeClusters DEF Place, Waits, Pausing, Stopped
  <2>2. \A c \in Clusters : c < pass.i + 1 => c < pass.i \/ c = pass.i
    BY <1>0, SomeClusters
  <2> QED
    BY <2>1, <2>2
<1>4. CASE Return
  BY <1>0, <1>4, ReturnStep
<1>5. CASE pass.i < domain.n
  <2>1. /\ pass' = [at |-> "pause", v |-> pass.v, del |-> pass.del, i |-> pass.i + 1,
                    k |-> pass.k, uid |-> pass.uid, quiet |-> q]
        /\ pass.i + 1 \in Clusters
    <3>1. pass' = [pass EXCEPT !.at = "pause", !.i = @ + 1, !.quiet = q]
      BY <1>5 DEF PausePods
    <3>2. pass.i + 1 \in Clusters
      BY <1>0, <1>5, SomeClusters
    <3> HIDE DEF q
    <3> QED
      BY <1>0, <3>1, <3>2 DEF Shapes, PassType
  <2> HIDE DEF q
  <2>2. /\ pass' \in PassType /\ pass'.at = "pause" /\ pass'.i = pass.i + 1
        /\ pass'.v = v /\ pass'.del = pass.del /\ pass'.quiet = q
    BY <1>0, <1>1, <1>3, <2>1, PassFields, AheadFields DEF Labels, Pausing
  <2>3. /\ \A c \in Clusters : Stopped(c)' <=> Stopped(c)
        /\ Clusters' = Clusters /\ (TransitUp(v)' <=> TransitUp(v))
    BY <1>0, Calm DEF Stopped, SetsQuiet, world
  <2>4. Owns(v)' /\ Holds(v)' /\ Falls(v)'
    BY <1>0, <1>2, <2>2 DEF world, Owns, Holds, Falls, Building, Pausing, Opening, Shutting, Resuming
  <2>5. Waits'
    <3>1. pass'.quiet => \A c \in Clusters : c < pass'.i => Stopped(c)'
      BY <1>3, <2>2, <2>3
    <3> QED
      BY <2>2, <2>3, <3>1 DEF Waits, Pausing, Opening, Shutting
  <2>6. Rises(v)'
    BY <1>2, <2>2, <2>3 DEF Rises, Pausing, Opening
  <2> QED
    BY <1>0, <2>2, <2>4, <2>5, <2>6, OnStep DEF Place
<1>6. CASE ~(pass.i < domain.n) /\ ~Return
  <2>1. q /\ ((pass.del /\ Go("recheck")) \/ (~pass.del /\ Go("mark")))
    BY <1>6 DEF PausePods
  <2>2. /\ pass' \in PassType /\ pass'.v = v /\ pass'.del = pass.del /\ pass'.i = 1
        /\ (pass.del /\ pass'.at = "recheck") \/ (~pass.del /\ pass'.at = "mark")
    BY <1>0, <1>1, <2>1, GoFields DEF Labels, Opening, Shutting
  <2>3. AllStopped
    BY <1>0, <1>3, <1>6, <2>1, SomeClusters DEF AllStopped
  <2>4. AllStopped' /\ Clusters' = Clusters /\ (TransitUp(v)' <=> TransitUp(v))
    BY <1>0, <2>3, Calm DEF world
  <2>5. Owns(v)' /\ Holds(v)' /\ Falls(v)'
    BY <1>0, <1>2, <2>2 DEF world, Owns, Holds, Falls, Building, Pausing, Opening, Shutting, Resuming
  <2>6. Waits' /\ Rises(v)'
    <3>1. \A c \in Clusters : ~(c < pass'.i)
      BY <1>0, <2>2, SomeClusters
    <3> QED
      BY <1>2, <2>2, <2>4, <3>1 DEF Waits, Rises, Pausing, Opening, Shutting
  <2> QED
    BY <1>0, <2>2, <2>5, <2>6, OnStep DEF Place
<1> QED
  BY <1>4, <1>5, <1>6

\* A held lock is released only after native IC is back.
LEMMA ResumeStep ==
  ASSUME IInv, Resume
  PROVE  IInv'
<1>0. pass.at = "resume" /\ UNCHANGED world /\ Shapes
  BY DEF Resume, At, world, IInv
<1>1. PICK v \in Vpcs : pass.v = v /\ Place(v)
  BY <1>0, PlaceMe
<1>2. /\ pass' \in PassType /\ pass'.v = v /\ pass'.del = pass.del
      /\ \/ lock.holder = Free /\ pass'.at = "finish"
         \/ lock.holder = v /\ pass'.at = "unpause"
  <2>1. lock.holder \in {Free, v}
    BY <1>0, <1>1 DEF Place, Owns
  <2>2. CASE lock.holder = Free
    BY <1>0, <1>1, <2>2, GoFields DEF Resume, Labels, Resuming
  <2>3. CASE lock.holder # Free
    BY <1>0, <1>1, <2>1, <2>3, GoFields DEF Resume, Labels, Resuming
  <2> QED
    BY <2>2, <2>3
<1>3. Place(v)'
  BY <1>0, <1>1, <1>2 DEF world, Place, Owns, Holds, Waits, Rises, Falls,
     Building, Pausing, Opening, Shutting, Resuming
<1> QED
  BY <1>0, <1>2, <1>3, OnStep

-----------------------------------------------------------------------------
(* Steps that write the GlobalVpc.                                         *)

\* A saved object that keeps what is known of a VPC.
LEMMA SaveStep ==
  ASSUME IInv, NEW v \in Vpcs, NEW g \in Object,
         UNCHANGED <<lock, dep, cr, nb, row, minted, consumers, domain>>,
         gvpc' = [gvpc EXCEPT ![v] = g], pass' \in PassType, PlaceInv',
         g.row \in {0, gvpc[v].row} \/ row[v] \in {0, g.row},
         \A c \in Clusters, k \in Kinds :
            g.recs[c][k] \in {0, gvpc[v].recs[c][k]} \/ cr[c][v][k].uid \in {0, g.recs[c][k]},
         (g.fin /\ g.stage # "gone") \/ (Bare(v) /\ lock.holder # v),
         g.op \in {"", gvpc[v].op} \/ g.op = "Resume" \/ Bare(v),
         g.op \in {"", gvpc[v].op} \/ ~Torn(v) \/ v \in domain.hurt \/ ~Guestless
  PROVE  IInv'
<1>1. /\ gvpc' \in [Vpcs -> Object] /\ gvpc'[v] = g
      /\ \A w \in Vpcs \ {v} : gvpc'[w] = gvpc[w]
  BY DEF IInv, Shapes
<1>2. Shapes' /\ Clusters' = Clusters
  BY <1>1, ShapesStep DEF IInv, Shapes
<1>3. AllStopped' <=> AllStopped
  BY Calm
<1>4. Sound(v)'
  <2>0. Recorded(v) /\ Cleaned(v) /\ (Guestless => Fenced(v))
    BY DEF IInv, Sound
  <2>1. Recorded(v)'
    <3>1. g.row # 0 => row[v] \in {0, g.row}
      BY <2>0 DEF Recorded
    <3>2. ASSUME NEW c \in Clusters, NEW k \in Kinds, g.recs[c][k] # 0
          PROVE  cr[c][v][k].uid \in {0, g.recs[c][k]}
      BY <2>0, <3>2 DEF Recorded
    <3> QED
      BY <1>1, <1>2, <3>1, <3>2 DEF Recorded
  <2>2. Bare(v)' <=> Bare(v)
    BY <1>2 DEF Bare
  <2>3. Cleaned(v)'
    BY <1>1, <2>0, <2>2 DEF Cleaned
  <2>4. Hangs(v)' /\ Carried(v)'
    BY <1>2 DEF IInv, Sound, Hangs, Carried, TransitUp
  <2>5. Torn(v)' <=> Torn(v)
    BY <1>2 DEF Torn
  <2>6. Guestless => Fenced(v)'
    BY <1>1, <1>2, <1>3, <2>0, <2>5 DEF Fenced
  <2> QED
    BY <2>1, <2>3, <2>4, <2>6 DEF Sound
<1>5. ASSUME NEW w \in Vpcs, w # v PROVE Sound(w)'
  BY <1>1, <1>2, <1>3, <1>5, Keep DEF IInv
<1>6. Alone'
  BY DEF IInv, Alone
<1> QED
  BY <1>2, <1>4, <1>5, <1>6 DEF IInv

\* The fields of an object, one by one.
LEMMA ObjectTypes ==
  ASSUME IInv, NEW v \in Vpcs
  PROVE  /\ gvpc[v] \in Object
         /\ gvpc[v].row \in Nat /\ gvpc[v].recs \in [Clusters -> [Kinds -> Nat]]
         /\ gvpc[v].op \in {"", "Resume", "DeleteResume"}
         /\ gvpc[v].receipts \in Nat /\ gvpc[v].stage \in {"live", "deleting", "gone"}
<1>1. gvpc[v] \in Object
  BY DEF IInv, Shapes
<1> QED
  BY <1>1 DEF Object, Ops

\* An object with one of its fields written.
PutReceipts(p, n) == [p EXCEPT !.receipts = n]
PutOp(p, o) == [p EXCEPT !.op = o]
PutResume(p, o, r) == [p EXCEPT !.op = o, !.row = r]
PutRow(p, r) == [p EXCEPT !.row = r]
PutRecs(p, q) == [p EXCEPT !.recs = q]
PutHash(p, h) == [p EXCEPT !.hash = h]
PutFin(p) == [p EXCEPT !.fin = TRUE]
PutStage(p, s) == [p EXCEPT !.stage = s]

\* The fields after PutReceipts.
LEMMA ReceiptsFields ==
  ASSUME NEW p \in Object, NEW n \in Nat, NEW g, g = PutReceipts(p, n)
  PROVE  /\ g \in Object /\ g.row = p.row /\ g.recs = p.recs /\ g.stage = p.stage
         /\ g.op = p.op /\ (g.fin <=> p.fin)
<1>1. g \in Object
  BY DEF Object, PutReceipts
<1>2. g.row = p.row /\ g.recs = p.recs /\ g.stage = p.stage /\ g.op = p.op /\ (g.fin <=> p.fin)
  BY DEF Object, PutReceipts
<1> QED
  BY <1>1, <1>2

\* The fields after PutOp.
LEMMA OpFields ==
  ASSUME NEW p \in Object, NEW o \in Ops, NEW g, g = PutOp(p, o)
  PROVE  /\ g \in Object /\ g.row = p.row /\ g.recs = p.recs /\ g.stage = p.stage
         /\ g.op = o /\ (g.fin <=> p.fin)
<1>1. g \in Object
  BY DEF Object, PutOp
<1>2. g.row = p.row /\ g.recs = p.recs /\ g.stage = p.stage /\ g.op = o /\ (g.fin <=> p.fin)
  BY DEF Object, PutOp
<1> QED
  BY <1>1, <1>2

\* The fields after PutResume.
LEMMA ResumeFields ==
  ASSUME NEW p \in Object, NEW o \in Ops, NEW r \in Nat, NEW g, g = PutResume(p, o, r)
  PROVE  /\ g \in Object /\ g.row = r /\ g.recs = p.recs /\ g.stage = p.stage
         /\ g.op = o /\ (g.fin <=> p.fin)
<1>1. g \in Object
  BY DEF Object, PutResume
<1>2. g.row = r /\ g.recs = p.recs /\ g.stage = p.stage /\ g.op = o /\ (g.fin <=> p.fin)
  BY DEF Object, PutResume
<1> QED
  BY <1>1, <1>2

\* The fields after PutRow.
LEMMA RowFields ==
  ASSUME NEW p \in Object, NEW r \in Nat, NEW g, g = PutRow(p, r)
  PROVE  /\ g \in Object /\ g.row = r /\ g.recs = p.recs /\ g.stage = p.stage
         /\ g.op = p.op /\ (g.fin <=> p.fin)
<1>1. g \in Object
  BY DEF Object, PutRow
<1>2. g.row = r /\ g.recs = p.recs /\ g.stage = p.stage /\ g.op = p.op /\ (g.fin <=> p.fin)
  BY DEF Object, PutRow
<1> QED
  BY <1>1, <1>2

\* The fields after PutRecs.
LEMMA RecsFields ==
  ASSUME NEW p \in Object, NEW q \in [Clusters -> [Kinds -> Nat]], NEW g, g = PutRecs(p, q)
  PROVE  /\ g \in Object /\ g.row = p.row /\ g.recs = q /\ g.stage = p.stage
         /\ g.op = p.op /\ (g.fin <=> p.fin)
<1>1. g \in Object
  BY DEF Object, PutRecs
<1>2. g.row = p.row /\ g.recs = q /\ g.stage = p.stage /\ g.op = p.op /\ (g.fin <=> p.fin)
  BY DEF Object, PutRecs
<1> QED
  BY <1>1, <1>2

\* The fields after PutHash.
LEMMA HashFields ==
  ASSUME NEW p \in Object, NEW h \in Int, NEW g, g = PutHash(p, h)
  PROVE  /\ g \in Object /\ g.row = p.row /\ g.recs = p.recs /\ g.stage = p.stage
         /\ g.op = p.op /\ (g.fin <=> p.fin)
<1>1. g \in Object
  BY DEF Object, PutHash
<1>2. g.row = p.row /\ g.recs = p.recs /\ g.stage = p.stage /\ g.op = p.op /\ (g.fin <=> p.fin)
  BY DEF Object, PutHash
<1> QED
  BY <1>1, <1>2

\* The fields after PutFin.
LEMMA FinFields ==
  ASSUME NEW p \in Object, NEW g, g = PutFin(p)
  PROVE  /\ g \in Object /\ g.row = p.row /\ g.recs = p.recs /\ g.stage = p.stage
         /\ g.op = p.op /\ g.fin
<1>1. g \in Object
  BY DEF Object, PutFin
<1>2. g.row = p.row /\ g.recs = p.recs /\ g.stage = p.stage /\ g.op = p.op /\ g.fin
  BY DEF Object, PutFin
<1> QED
  BY <1>1, <1>2

\* The fields after PutStage.
LEMMA StageFields ==
  ASSUME NEW p \in Object, NEW s \in {"live", "deleting", "gone"}, NEW g, g = PutStage(p, s)
  PROVE  /\ g \in Object /\ g.row = p.row /\ g.recs = p.recs /\ g.stage = s
         /\ g.op = p.op /\ (g.fin <=> p.fin)
<1>1. g \in Object
  BY DEF Object, PutStage
<1>2. g.row = p.row /\ g.recs = p.recs /\ g.stage = s /\ g.op = p.op /\ (g.fin <=> p.fin)
  BY DEF Object, PutStage
<1> QED
  BY <1>1, <1>2

\* A pass that builds only needs its object.
LEMMA BuildPlace ==
  ASSUME NEW v \in Vpcs, pass'.v = v, pass'.at \in Building \ {"record"}, ~pass'.del,
         gvpc'[v].fin, gvpc'[v].stage # "gone", gvpc'[v].op = ""
  PROVE  PlaceInv'
<1>1. Place(v)'
  BY DEF Place, Owns, Holds, Waits, Rises, Falls, Building, Pausing, Opening, Shutting, Resuming
<1> QED
  BY <1>1, PlaceOf

\* What a pass that builds knows.
LEMMA BuildMe ==
  ASSUME IInv, pass.at \in Building
  PROVE  /\ pass.v \in Vpcs /\ ~pass.del
         /\ \A v \in Vpcs : pass.v = v => /\ gvpc[v].fin /\ gvpc[v].stage # "gone"
                                          /\ gvpc[v].op = "" /\ Place(v)
  BY PlaceMe DEF Place, Owns, Building

\* A receipt is saved.
LEMMA ReserveStep ==
  ASSUME IInv, Reserve
  PROVE  IInv'
<1>0. /\ pass.at = "reserve" /\ Shapes
      /\ UNCHANGED <<lock, dep, cr, nb, row, minted, consumers, domain>>
  BY DEF Reserve, At, IInv
<1>1. PICK v \in Vpcs : /\ pass.v = v /\ gvpc[v].fin /\ gvpc[v].stage # "gone"
                        /\ gvpc[v].op = "" /\ ~pass.del
  BY <1>0, BuildMe DEF Building
<1>2. CASE UNCHANGED gvpc /\ Return
  BY <1>0, <1>2, ReturnStep DEF world
<1>3. CASE UNCHANGED gvpc /\ Go("ensure")
  <2>1. /\ pass' \in PassType /\ pass'.at = "ensure" /\ pass'.v = v /\ ~pass'.del
    BY <1>0, <1>1, <1>3, GoFields DEF Labels, Building
  <2>2. PlaceInv'
    BY <1>1, <1>3, <2>1, BuildPlace DEF Building
  <2> QED
    BY <1>0, <1>3, <2>1, <2>2, MoveStep DEF world
<1>4. CASE gvpc' = [gvpc EXCEPT ![v] = [gvpc[v] EXCEPT !.receipts = @ + 1]] /\ Go("reserve")
  <2> DEFINE g == [gvpc[v] EXCEPT !.receipts = @ + 1]
  <2>1. /\ pass' \in PassType /\ pass'.at = "reserve" /\ pass'.v = v /\ ~pass'.del
    BY <1>0, <1>1, <1>4, GoFields DEF Labels, Building
  <2>2. gvpc[v] \in Object /\ gvpc[v].receipts \in Nat
    BY ObjectTypes
  <2>3. PICK n \in Nat : n = gvpc[v].receipts + 1
    BY <2>2
  <2>4. /\ g \in Object /\ g.row = gvpc[v].row /\ g.recs = gvpc[v].recs /\ g.fin
        /\ g.stage = gvpc[v].stage /\ g.op = ""
    <3>1. g = PutReceipts(gvpc[v], n)
      BY <2>3 DEF PutReceipts
    <3> HIDE DEF g
    <3>2. /\ g \in Object /\ g.row = gvpc[v].row /\ g.recs = gvpc[v].recs
          /\ g.stage = gvpc[v].stage /\ g.op = gvpc[v].op /\ (g.fin <=> gvpc[v].fin)
      BY <2>2, <3>1, ReceiptsFields
    <3> QED
      BY <1>1, <3>2
  <2> HIDE DEF g
  <2>5. gvpc' = [gvpc EXCEPT ![v] = g]
    BY <1>4 DEF g
  <2>6. gvpc'[v] = g
    BY <2>5 DEF IInv, Shapes
  <2>7. PlaceInv'
    BY <1>1, <2>1, <2>4, <2>6, BuildPlace DEF Building
  <2> QED
    BY <1>0, <1>1, <2>1, <2>4, <2>5, <2>7, SaveStep
<1> QED
  BY <1>1, <1>2, <1>3, <1>4 DEF Reserve, Save, Me, V

\* The next resource, or the check that all are ready.
LEMMA NextResourceFields ==
  ASSUME Shapes, NextResource
  PROVE  /\ pass' \in PassType /\ pass'.v = pass.v /\ pass'.del = pass.del
         /\ pass'.at \in {"ensure", "ready"}
<1>1. CASE pass.k < 3
  <2>1. pass.k + 1 \in 1..3
    BY <1>1, SomeClusters
  <2>2. pass' = [at |-> "ensure", v |-> pass.v, del |-> pass.del, i |-> pass.i, k |-> pass.k + 1,
                 uid |-> pass.uid, quiet |-> pass.quiet]
    BY <1>1 DEF NextResource, Shapes, PassType
  <2> QED
    BY <2>1, <2>2, PassFields, AheadFields DEF Labels, Building
<1>2. CASE ~(pass.k < 3) /\ pass.i < domain.n
  <2>1. pass.i + 1 \in Clusters /\ 1 \in 1..3
    BY <1>2, SomeClusters
  <2>2. pass' = [at |-> "ensure", v |-> pass.v, del |-> pass.del, i |-> pass.i + 1, k |-> 1,
                 uid |-> pass.uid, quiet |-> pass.quiet]
    BY <1>2 DEF NextResource, Shapes, PassType
  <2> QED
    BY <2>1, <2>2, PassFields, AheadFields DEF Labels, Building
<1>3. CASE ~(pass.k < 3) /\ ~(pass.i < domain.n)
  BY <1>3, GoFields DEF NextResource, Labels, Building
<1> QED
  BY <1>1, <1>2, <1>3

\* The UID that is recorded is the one that exists, or existed.
LEMMA RecordStep ==
  ASSUME IInv, Record
  PROVE  IInv'
<1>0. /\ pass.at = "record" /\ Shapes
      /\ UNCHANGED <<lock, dep, cr, nb, row, minted, consumers, domain>>
  BY DEF Record, At, IInv
<1>1. PICK v \in Vpcs : /\ pass.v = v /\ gvpc[v].fin /\ gvpc[v].stage # "gone"
                        /\ gvpc[v].op = "" /\ ~pass.del /\ Place(v)
  BY <1>0, BuildMe DEF Building
<1>2. CASE UNCHANGED gvpc /\ Return
  BY <1>0, <1>2, ReturnStep DEF world
<1>3. CASE ~(UNCHANGED gvpc /\ Return)
  <2> DEFINE c == pass.i
  <2> DEFINE k == Order[pass.k]
  <2> DEFINE u == pass.uid
  <2> DEFINE q == [gvpc[v].recs EXCEPT ![c][k] = u]
  <2> DEFINE g == [gvpc[v] EXCEPT !.recs = q]
  <2>0. gvpc' = [gvpc EXCEPT ![v] = g] /\ NextResource
    <3>1. gvpc' = [gvpc EXCEPT ![v].recs[c][k] = u] /\ NextResource
      BY <1>1, <1>3 DEF Record, V
    <3> QED
      BY <3>1
  <2>1. /\ pass' \in PassType /\ pass'.at \in {"ensure", "ready"} /\ pass'.v = v /\ ~pass'.del
    BY <1>0, <1>1, <2>0, NextResourceFields
  <2>2. c \in Clusters /\ k \in Kinds /\ u \in Nat
    <3>1. c \in Clusters /\ pass.k \in 1..3 /\ u \in Nat
      BY <1>0, PassFields
    <3>2. k \in Kinds
      BY <3>1 DEF Order, Kinds
    <3> QED
      BY <3>1, <3>2
  <2>3. cr[c][v][k].uid \in {0, u}
    BY <1>0, <1>1 DEF Place, Holds
  <2> HIDE DEF c, k, u
  <2>4. gvpc[v].recs \in [Clusters -> [Kinds -> Nat]]
    BY ObjectTypes
  <2>5. q \in [Clusters -> [Kinds -> Nat]]
    BY <2>2, <2>4
  <2>6. \A d \in Clusters, j \in Kinds :
          q[d][j] = IF d = c /\ j = k THEN u ELSE gvpc[v].recs[d][j]
    BY <2>2, <2>4
  <2> HIDE DEF q
  <2>7. gvpc[v] \in Object
    BY ObjectTypes
  <2>8. /\ g \in Object /\ g.row = gvpc[v].row /\ g.recs = q /\ g.fin
        /\ g.stage = gvpc[v].stage /\ g.op = ""
    <3>1. g = PutRecs(gvpc[v], q)
      BY DEF PutRecs
    <3> HIDE DEF g
    <3>2. /\ g \in Object /\ g.row = gvpc[v].row /\ g.recs = q
          /\ g.stage = gvpc[v].stage /\ g.op = gvpc[v].op /\ (g.fin <=> gvpc[v].fin)
      BY <2>5, <2>7, <3>1, RecsFields
    <3> QED
      BY <1>1, <3>2
  <2> HIDE DEF g
  <2>9. gvpc'[v] = g
    BY <2>0 DEF IInv, Shapes
  <2>10. PlaceInv'
    BY <1>1, <2>1, <2>8, <2>9, BuildPlace DEF Building
  <2>11. \A d \in Clusters, j \in Kinds :
           q[d][j] \in {0, gvpc[v].recs[d][j]} \/ cr[d][v][j].uid \in {0, q[d][j]}
    BY <2>3, <2>6
  <2> QED
    BY <1>0, <1>1, <2>0, <2>1, <2>8, <2>10, <2>11, SaveStep
<1> QED
  BY <1>2, <1>3

\* The first step of a pass: the finalizer, the plan hash, the stage it reads.
LEMMA BeginStep ==
  ASSUME IInv, NEW v \in Vpcs, Begin(v)
  PROVE  IInv'
<1> DEFINE read == [NoPass EXCEPT !.at = "inspect", !.v = v, !.del = (gvpc[v].stage = "deleting")]
<1>0. /\ pass.at = "idle" /\ Shapes /\ gvpc[v].stage \in {"live", "deleting"}
      /\ UNCHANGED <<lock, dep, cr, nb, row, minted, consumers, domain>>
  BY DEF Begin, At, IInv
<1>1. gvpc[v] \in Object /\ domain.registration \in Int
  BY <1>0, ObjectTypes DEF Shapes, DomainType
<1>2. /\ read \in PassType /\ read.at = "inspect" /\ read.v = v
      /\ read.del <=> gvpc[v].stage = "deleting"
  <2>1. 1 \in Clusters
    BY <1>0, SomeClusters
  <2>2. ASSUME NEW d \in BOOLEAN,
               read = [at |-> "inspect", v |-> v, del |-> d, i |-> 1, k |-> 1, uid |-> 0,
                       quiet |-> TRUE]
        PROVE  read \in PassType /\ read.at = "inspect" /\ read.v = v /\ read.del = d
    <3> HIDE DEF read
    <3>1. read \in PassType
      BY <2>1, <2>2 DEF PassType, Labels
    <3> QED
      BY <2>2, <3>1
  <2>3. CASE gvpc[v].stage = "deleting"
    <3>1. read = [at |-> "inspect", v |-> v, del |-> TRUE, i |-> 1, k |-> 1, uid |-> 0,
                  quiet |-> TRUE]
      <4>1. (gvpc[v].stage = "deleting") = TRUE
        BY <2>3
      <4>2. read = [NoPass EXCEPT !.at = "inspect", !.v = v, !.del = TRUE]
        BY <4>1
      <4> HIDE DEF read
      <4> QED
        BY <4>2 DEF NoPass
    <3> HIDE DEF read
    <3> QED
      BY <2>2, <2>3, <3>1
  <2>4. CASE gvpc[v].stage # "deleting"
    <3>1. read = [at |-> "inspect", v |-> v, del |-> FALSE, i |-> 1, k |-> 1, uid |-> 0,
                  quiet |-> TRUE]
      <4>1. (gvpc[v].stage = "deleting") = FALSE
        BY <2>4
      <4>2. read = [NoPass EXCEPT !.at = "inspect", !.v = v, !.del = FALSE]
        BY <4>1
      <4> HIDE DEF read
      <4> QED
        BY <4>2 DEF NoPass
    <3> HIDE DEF read
    <3> QED
      BY <2>2, <2>4, <3>1
  <2> QED
    BY <2>3, <2>4
<1> HIDE DEF read
<1>3. ASSUME pass' = read, gvpc'[v].fin, gvpc'[v].stage = gvpc[v].stage PROVE PlaceInv'
  <2>1. Place(v)'
    BY <1>0, <1>2, <1>3 DEF Place, Owns, Holds, Waits, Rises, Falls, Building, Pausing, Opening,
       Shutting, Resuming
  <2> QED
    BY <1>2, <1>3, <2>1, PlaceOf
<1>4. CASE gvpc' = [gvpc EXCEPT ![v].fin = TRUE] /\ pass' = NoPass
  <2>1. PICK g : g = PutFin(gvpc[v])
    OBVIOUS
  <2>2. /\ g \in Object /\ g.row = gvpc[v].row /\ g.recs = gvpc[v].recs
        /\ g.stage = gvpc[v].stage /\ g.op = gvpc[v].op /\ g.fin
    BY <1>1, <2>1, FinFields
  <2>3. gvpc' = [gvpc EXCEPT ![v] = g]
    BY <1>4, <2>1 DEF PutFin
  <2>4. pass' \in PassType /\ PlaceInv'
    BY <1>0, <1>4, ReturnFields, IdlePlace DEF Return
  <2> QED
    BY <1>0, <2>2, <2>3, <2>4, SaveStep
<1>5. CASE gvpc[v].fin /\ gvpc' = [gvpc EXCEPT ![v].hash = domain.registration] /\ pass' = read
  <2>1. PICK g : g = PutHash(gvpc[v], domain.registration)
    OBVIOUS
  <2>2. /\ g \in Object /\ g.row = gvpc[v].row /\ g.recs = gvpc[v].recs
        /\ g.stage = gvpc[v].stage /\ g.op = gvpc[v].op /\ (g.fin <=> gvpc[v].fin)
    BY <1>1, <2>1, HashFields
  <2>3. gvpc' = [gvpc EXCEPT ![v] = g]
    BY <1>5, <2>1 DEF PutHash
  <2>4. gvpc'[v] = g
    BY <1>0, <2>3 DEF Shapes
  <2>5. pass' \in PassType /\ PlaceInv'
    BY <1>2, <1>3, <1>5, <2>2, <2>4
  <2>6. g.fin /\ g.stage # "gone"
    BY <1>0, <1>5, <2>2
  <2> QED
    BY <1>0, <2>2, <2>3, <2>5, <2>6, SaveStep
<1>6. CASE gvpc[v].fin /\ pass' = read /\ UNCHANGED gvpc
  BY <1>0, <1>2, <1>3, <1>6, MoveStep DEF world
<1> QED
  BY <1>4, <1>5, <1>6 DEF Begin, read

\* A pass that resumes needs its operation and its lock, or a free one.
LEMMA ResumePlace ==
  ASSUME NEW v \in Vpcs, pass'.v = v, pass'.at = "resume", lock'.holder \in {Free, v},
         pass'.del => gvpc'[v].stage = "deleting",
         gvpc'[v].fin, gvpc'[v].stage # "gone", gvpc'[v].op # ""
  PROVE  PlaceInv'
<1>1. Place(v)'
  BY DEF Place, Owns, Holds, Waits, Rises, Falls, Building, Pausing, Opening, Shutting, Resuming
<1> QED
  BY <1>1, PlaceOf

\* The operation that ends the way up is saved with a whole transit network.
LEMMA SaveResumeStep ==
  ASSUME IInv, SaveResume
  PROVE  IInv'
<1>0. /\ pass.at = "saveresume" /\ Shapes
      /\ UNCHANGED <<lock, dep, cr, nb, row, minted, consumers, domain>>
  BY DEF SaveResume, At, IInv
<1>1. PICK v \in Vpcs : pass.v = v /\ Place(v)
  BY <1>0, PlaceMe
<1>2. CASE UNCHANGED gvpc /\ Return
  BY <1>0, <1>2, ReturnStep DEF world
<1>3. CASE ~(UNCHANGED gvpc /\ Return)
  <2>0. PICK o \in Ops, u \in Nat : o = "Resume" /\ u = pass.uid
    BY <1>0, PassFields DEF Ops
  <2>1. PICK g : g = PutResume(gvpc[v], o, u)
    OBVIOUS
  <2>2. gvpc' = [gvpc EXCEPT ![v] = g] /\ Go("resume")
    BY <1>1, <1>3, <2>0, <2>1 DEF SaveResume, Save, Me, V, PutResume
  <2>3. gvpc[v] \in Object
    BY ObjectTypes
  <2>4. /\ g \in Object /\ g.row = pass.uid /\ g.recs = gvpc[v].recs
        /\ g.stage = gvpc[v].stage /\ g.op = "Resume" /\ (g.fin <=> gvpc[v].fin)
    <3>1. /\ g \in Object /\ g.row = u /\ g.recs = gvpc[v].recs
          /\ g.stage = gvpc[v].stage /\ g.op = o /\ (g.fin <=> gvpc[v].fin)
      BY <2>1, <2>3, ResumeFields
    <3> QED
      BY <2>0, <3>1
  <2>5. /\ gvpc[v].fin /\ gvpc[v].stage # "gone" /\ lock.holder = v
        /\ pass.del => gvpc[v].stage = "deleting"
    BY <1>0, <1>1 DEF Place, Owns, Opening
  <2>6. g.fin /\ g.stage # "gone"
    BY <2>4, <2>5
  <2>7. gvpc'[v] = g
    BY <1>0, <2>2 DEF Shapes
  <2>8. /\ pass' \in PassType /\ pass'.at = "resume" /\ pass'.v = v /\ pass'.del = pass.del
    BY <1>0, <1>1, <2>2, GoFields DEF Labels, Resuming
  <2>9. PlaceInv'
    BY <1>0, <2>4, <2>5, <2>6, <2>7, <2>8, ResumePlace
  <2>10. row[v] \in {0, pass.uid}
    BY <1>0, <1>1 DEF Place, Holds
  <2>11. ~Torn(v) \/ v \in domain.hurt
    BY <1>0, <1>1 DEF Place, Rises, Torn
  <2> QED
    BY <1>0, <2>2, <2>4, <2>6, <2>8, <2>9, <2>10, <2>11, SaveStep
<1> QED
  BY <1>2, <1>3

\* Once an operation is saved with the lock free, it is finished.
LEMMA FinishStep ==
  ASSUME IInv, Finish
  PROVE  IInv'
<1>0. /\ pass.at = "finish" /\ Shapes
      /\ UNCHANGED <<lock, dep, cr, nb, row, minted, consumers, domain>>
  BY DEF Finish, At, IInv
<1>1. PICK v \in Vpcs : pass.v = v /\ Place(v) /\ Sound(v)
  BY <1>0, PlaceMe
<1>2. /\ gvpc[v].fin /\ gvpc[v].stage # "gone" /\ lock.holder = Free /\ Free # v
  BY <1>0, <1>1 DEF Place, Owns, IInv, Alone
<1>3. gvpc[v] \in Object
  BY ObjectTypes
<1>4. CASE UNCHANGED gvpc /\ Return
  BY <1>0, <1>4, ReturnStep DEF world
<1>5. CASE gvpc[v].op = "DeleteResume" /\ gvpc' = [gvpc EXCEPT ![v].stage = "gone"] /\ Return
  <2>1. PICK g : g = PutStage(gvpc[v], "gone")
    OBVIOUS
  <2>2. gvpc' = [gvpc EXCEPT ![v] = g]
    BY <1>5, <2>1 DEF PutStage
  <2>3. /\ g \in Object /\ g.row = gvpc[v].row /\ g.recs = gvpc[v].recs
        /\ g.stage = "gone" /\ g.op = gvpc[v].op /\ (g.fin <=> gvpc[v].fin)
    BY <1>3, <2>1, StageFields
  <2>4. Bare(v)
    BY <1>1, <1>5 DEF Sound, Cleaned
  <2>5. pass' \in PassType /\ PlaceInv'
    BY <1>0, <1>5, ReturnFields, IdlePlace
  <2> QED
    BY <1>0, <1>2, <2>2, <2>3, <2>4, <2>5, SaveStep
<1>6. CASE gvpc' = [gvpc EXCEPT ![v] = [gvpc[v] EXCEPT !.op = ""]] /\ Go("idle")
  <2>0. PICK o \in Ops : o = ""
    BY DEF Ops
  <2>1. PICK g : g = PutOp(gvpc[v], o)
    OBVIOUS
  <2>2. gvpc' = [gvpc EXCEPT ![v] = g]
    BY <1>6, <2>0, <2>1 DEF PutOp
  <2>3. /\ g \in Object /\ g.row = gvpc[v].row /\ g.recs = gvpc[v].recs
        /\ g.stage = gvpc[v].stage /\ g.op = "" /\ (g.fin <=> gvpc[v].fin)
    <3>1. /\ g \in Object /\ g.row = gvpc[v].row /\ g.recs = gvpc[v].recs
          /\ g.stage = gvpc[v].stage /\ g.op = o /\ (g.fin <=> gvpc[v].fin)
      BY <1>3, <2>1, OpFields
    <3> QED
      BY <2>0, <3>1
  <2>4. g.fin /\ g.stage # "gone"
    BY <1>2, <2>3
  <2>5. pass' \in PassType /\ PlaceInv'
    BY <1>0, <1>6, GoFields, IdlePlace DEF Labels
  <2> QED
    BY <1>0, <2>2, <2>3, <2>4, <2>5, SaveStep
<1> QED
  BY <1>1, <1>4, <1>5, <1>6 DEF Finish, Save, Me, V

\* A removal that meets a consumer resumes: this is what needs that none appears.
LEMMA RecheckStep ==
  ASSUME IInv, Recheck
  PROVE  IInv'
<1>0. /\ pass.at = "recheck" /\ Shapes
      /\ UNCHANGED <<lock, dep, cr, nb, row, minted, consumers, domain>>
  BY DEF Recheck, At, IInv
<1>1. PICK v \in Vpcs : pass.v = v /\ Place(v) /\ Sound(v)
  BY <1>0, PlaceMe
<1>2. /\ gvpc[v].fin /\ gvpc[v].stage # "gone" /\ lock.holder = v /\ gvpc[v].op = ""
      /\ pass.del /\ gvpc[v].stage = "deleting" /\ AllStopped
  BY <1>0, <1>1 DEF Place, Owns, Waits, Shutting
<1>3. CASE UNCHANGED gvpc /\ Return
  BY <1>0, <1>3, ReturnStep DEF world
<1>4. CASE UNCHANGED gvpc /\ Go("withdraw")
  <2>1. /\ pass' \in PassType /\ pass'.at = "withdraw" /\ pass'.v = v /\ pass'.del
    BY <1>0, <1>1, <1>2, <1>4, GoFields DEF Labels, Shutting
  <2>2. AllStopped'
    BY <1>0, <1>2, Calm
  <2>3. Place(v)'
    BY <1>0, <1>2, <1>4, <2>1, <2>2 DEF Place, Owns, Holds, Waits, Rises, Falls, Building, Pausing,
       Opening, Shutting, Resuming
  <2> QED
    BY <1>0, <1>4, <2>1, <2>3, OnStep DEF world
<1>5. CASE /\ consumers # {} /\ gvpc' = [gvpc EXCEPT ![v] = [gvpc[v] EXCEPT !.op = "Resume"]]
           /\ Go("resume")
  <2>0. PICK o \in Ops : o = "Resume"
    BY DEF Ops
  <2>1. PICK g : g = PutOp(gvpc[v], o)
    OBVIOUS
  <2>2. gvpc' = [gvpc EXCEPT ![v] = g]
    BY <1>5, <2>0, <2>1 DEF PutOp
  <2>3. gvpc[v] \in Object
    BY ObjectTypes
  <2>4. /\ g \in Object /\ g.row = gvpc[v].row /\ g.recs = gvpc[v].recs
        /\ g.stage = gvpc[v].stage /\ g.op = o /\ (g.fin <=> gvpc[v].fin)
    BY <2>1, <2>3, OpFields
  <2>5. g.fin /\ g.stage = "deleting" /\ g.op = "Resume"
    BY <1>2, <2>0, <2>4
  <2>6. gvpc'[v] = g
    BY <1>0, <2>2 DEF Shapes
  <2>7. /\ pass' \in PassType /\ pass'.at = "resume" /\ pass'.v = v
    BY <1>0, <1>1, <1>5, GoFields DEF Labels, Resuming
  <2>8. PlaceInv'
    BY <1>0, <1>2, <2>5, <2>6, <2>7, ResumePlace
  <2>9. ~Guestless
    BY <1>5 DEF IInv, Alone
  <2> QED
    BY <1>0, <2>2, <2>4, <2>5, <2>7, <2>8, <2>9, SaveStep
<1> QED
  BY <1>1, <1>3, <1>4, <1>5 DEF Recheck, Empty, Save, Me, V

\* The operation that ends the removal is saved with nothing left.
LEMMA SaveDeleteResumeStep ==
  ASSUME IInv, SaveDeleteResume
  PROVE  IInv'
<1>0. /\ pass.at = "absent" /\ Shapes
      /\ UNCHANGED <<lock, dep, cr, nb, row, minted, consumers, domain>>
  BY DEF SaveDeleteResume, At, IInv
<1>1. PICK v \in Vpcs : pass.v = v /\ Place(v) /\ Sound(v)
  BY <1>0, PlaceMe
<1>2. /\ gvpc[v].fin /\ lock.holder = v /\ gvpc[v].stage = "deleting"
  BY <1>0, <1>1 DEF Place, Owns, Shutting
<1>3. CASE UNCHANGED gvpc /\ Return
  BY <1>0, <1>3, ReturnStep DEF world
<1>4. CASE ~(UNCHANGED gvpc /\ Return)
  <2>0. PICK o \in Ops : o = "DeleteResume"
    BY DEF Ops
  <2>1. PICK g : g = PutOp(gvpc[v], o)
    OBVIOUS
  <2>2. /\ gvpc' = [gvpc EXCEPT ![v] = g] /\ Go("resume")
        /\ \A c \in Clusters : nb[c][v] \cap {"Vpc", "Subnet", "Transit", "dup"} = {}
    BY <1>1, <1>4, <2>0, <2>1 DEF PutOp, SaveDeleteResume, Save, Me, V, Absent
  <2>3. gvpc[v] \in Object
    BY ObjectTypes
  <2>4. /\ g \in Object /\ g.row = gvpc[v].row /\ g.recs = gvpc[v].recs
        /\ g.stage = gvpc[v].stage /\ g.op = o /\ (g.fin <=> gvpc[v].fin)
    BY <2>1, <2>3, OpFields
  <2>5. g.fin /\ g.stage = "deleting" /\ g.op = "DeleteResume"
    BY <1>2, <2>0, <2>4
  <2>6. gvpc'[v] = g
    BY <1>0, <2>2 DEF Shapes
  <2>7. /\ pass' \in PassType /\ pass'.at = "resume" /\ pass'.v = v
    BY <1>0, <1>1, <2>2, GoFields DEF Labels, Resuming
  <2>8. PlaceInv'
    BY <1>0, <1>2, <2>5, <2>6, <2>7, ResumePlace
  <2>9. row[v] = 0 /\ \A c \in Clusters, k \in Kinds : cr[c][v][k].uid = 0
    BY <1>0, <1>1 DEF Place, Falls, Void, Kinds
  <2>10. ASSUME NEW c \in Clusters PROVE nb[c][v] = {}
    <3>1. nb[c][v] \subseteq Facts
      BY <1>0 DEF Shapes
    <3>2. /\ nb[c][v] \cap {"mark", "keys", "gateways"} # {} => "Transit" \in nb[c][v]
          /\ "routes" \in nb[c][v] => "Vpc" \in nb[c][v]
      BY <1>1 DEF Sound, Hangs
    <3> QED
      BY <2>2, <3>1, <3>2 DEF Facts
  <2>11. Bare(v) /\ ~Torn(v)
    BY <2>9, <2>10 DEF Bare, Torn
  <2> QED
    BY <1>0, <2>2, <2>4, <2>5, <2>7, <2>8, <2>11, SaveStep
<1> QED
  BY <1>3, <1>4

-----------------------------------------------------------------------------
(* The lock and the Deployments.                                           *)

\* The lock changes hands only when nothing hangs on it.
LEMMA LockStep ==
  ASSUME IInv, UNCHANGED <<gvpc, dep, cr, nb, row, minted, consumers, domain>>,
         lock' \in [holder : Vpcs \cup {Free}, hash : Int], pass' \in PassType, PlaceInv',
         \A w \in Vpcs : /\ lock'.holder = w => gvpc[w].fin /\ gvpc[w].stage # "gone"
                         /\ lock.holder = w /\ gvpc[w].op = "" => lock'.holder = w
  PROVE  IInv'
<1>1. Shapes' /\ Clusters' = Clusters
  BY ShapesStep DEF IInv, Shapes
<1>2. ASSUME NEW w \in Vpcs PROVE Sound(w)'
  <2>0. Sound(w)
    BY DEF IInv
  <2>1. Recorded(w)' /\ Hangs(w)' /\ Carried(w)'
    BY <1>1, <2>0 DEF Sound, Recorded, Hangs, Carried, TransitUp
  <2>2. Bare(w)' <=> Bare(w)
    BY <1>1 DEF Bare
  <2>3. Cleaned(w)'
    BY <2>0, <2>2 DEF Sound, Cleaned
  <2>4. (Torn(w)' <=> Torn(w)) /\ (AllStopped' <=> AllStopped)
    BY <1>1, Calm DEF Torn
  <2>5. Guestless => Fenced(w)'
    BY <1>1, <2>0, <2>4 DEF Sound, Fenced
  <2> QED
    BY <2>1, <2>3, <2>5 DEF Sound
<1>3. Alone'
  BY DEF IInv, Alone
<1> QED
  BY <1>1, <1>2, <1>3 DEF IInv

\* A free lock is taken, or one's own again.
LEMMA AcquireStep ==
  ASSUME IInv, Acquire
  PROVE  IInv'
<1>0. /\ pass.at = "acquire" /\ Shapes
      /\ UNCHANGED <<gvpc, dep, cr, nb, row, minted, consumers, domain>>
  BY DEF Acquire, At, IInv
<1>1. PICK v \in Vpcs : pass.v = v /\ Place(v)
  BY <1>0, PlaceMe
<1>2. /\ gvpc[v].fin /\ gvpc[v].stage # "gone" /\ gvpc[v].op = ""
      /\ pass.del => gvpc[v].stage = "deleting"
      /\ ~pass.del => TransitUp(v)
  BY <1>0, <1>1 DEF Place, Owns, Rises
<1>3. CASE UNCHANGED lock /\ Return
  BY <1>0, <1>3, ReturnStep DEF world
<1>4. CASE ~(UNCHANGED lock /\ Return)
  <2>1. /\ lock' = [holder |-> v, hash |-> gvpc[v].hash] /\ Go("pause")
        /\ lock.holder \in {Free, v}
    BY <1>1, <1>4 DEF Acquire, Me, V
  <2>2. gvpc[v].hash \in Int
    BY <1>0 DEF Shapes, Object
  <2>3. lock' \in [holder : Vpcs \cup {Free}, hash : Int] /\ lock'.holder = v
    BY <2>1, <2>2
  <2>4. /\ pass' \in PassType /\ pass'.at = "pause" /\ pass'.v = v /\ pass'.del = pass.del
        /\ pass'.i = 1
    BY <1>0, <1>1, <2>1, GoFields DEF Labels, Pausing
  <2>5. /\ Clusters' = Clusters /\ (TransitUp(v)' <=> TransitUp(v))
        /\ \A c \in Clusters : ~(c < pass'.i)
    BY <1>0, <2>4, Calm, SomeClusters
  <2>6. Owns(v)' /\ Holds(v)' /\ Falls(v)'
    BY <1>0, <1>2, <2>3, <2>4 DEF Owns, Holds, Falls, Building, Pausing, Opening, Shutting, Resuming
  <2>7. Waits' /\ Rises(v)'
    BY <1>2, <2>4, <2>5 DEF Waits, Rises, Pausing, Opening, Shutting
  <2>8. PlaceInv'
    BY <2>4, <2>6, <2>7, PlaceOf DEF Place
  <2>9. ASSUME NEW w \in Vpcs
        PROVE  /\ lock'.holder = w => gvpc[w].fin /\ gvpc[w].stage # "gone"
               /\ lock.holder = w /\ gvpc[w].op = "" => lock'.holder = w
    BY <1>2, <2>1, <2>3 DEF IInv, Alone
  <2> QED
    BY <1>0, <2>3, <2>4, <2>8, <2>9, LockStep
<1> QED
  BY <1>3, <1>4

\* The lock is released with its operation saved.
LEMMA ReleaseStep ==
  ASSUME IInv, Release
  PROVE  IInv'
<1>0. /\ pass.at = "release" /\ Shapes /\ Go("finish")
      /\ lock' = [holder |-> Free, hash |-> 0]
      /\ UNCHANGED <<gvpc, dep, cr, nb, row, minted, consumers, domain>>
  BY DEF Release, At, IInv
<1>1. PICK v \in Vpcs : pass.v = v /\ Place(v)
  BY <1>0, PlaceMe
<1>2. /\ gvpc[v].fin /\ gvpc[v].stage # "gone" /\ gvpc[v].op # "" /\ lock.holder = v
      /\ pass.del => gvpc[v].stage = "deleting"
  BY <1>0, <1>1 DEF Place, Owns, Resuming
<1>3. /\ pass' \in PassType /\ pass'.at = "finish" /\ pass'.v = v /\ pass'.del = pass.del
  BY <1>0, <1>1, GoFields DEF Labels, Resuming
<1>4. lock' \in [holder : Vpcs \cup {Free}, hash : Int] /\ lock'.holder = Free
  BY <1>0
<1>5. Place(v)'
  BY <1>0, <1>2, <1>3, <1>4 DEF Place, Owns, Holds, Waits, Rises, Falls, Building, Pausing,
     Opening, Shutting, Resuming
<1>6. PlaceInv'
  BY <1>3, <1>5, PlaceOf
<1>7. ASSUME NEW w \in Vpcs
      PROVE  /\ lock'.holder = w => gvpc[w].fin /\ gvpc[w].stage # "gone"
             /\ lock.holder = w /\ gvpc[w].op = "" => lock'.holder = w
  BY <1>2, <1>4 DEF IInv, Alone
<1> QED
  BY <1>0, <1>3, <1>4, <1>6, <1>7, LockStep

\* Stopped Deployments are started again only by the holder, its operation saved.
LEMMA DepStep ==
  ASSUME IInv, UNCHANGED <<gvpc, lock, cr, nb, row, minted, consumers, domain>>,
         dep' \in [Clusters -> Deployed], pass' \in PassType, PlaceInv',
         \A w \in Vpcs : lock.holder = w /\ gvpc[w].op = "" /\ AllStopped => AllStopped'
  PROVE  IInv'
<1>1. Shapes' /\ Clusters' = Clusters
  BY ShapesStep DEF IInv, Shapes
<1>2. ASSUME NEW w \in Vpcs PROVE Sound(w)'
  BY <1>1, Keep DEF IInv
<1>3. Alone'
  BY DEF IInv, Alone
<1> QED
  BY <1>1, <1>2, <1>3 DEF IInv

\* A scaled Deployment; one of the right size stays as it is.
LEMMA ScaledFields ==
  ASSUME Shapes, NEW c \in Clusters, NEW n \in {0, 1}, dep' = Scaled(c, n)
  PROVE  /\ dep' \in [Clusters -> Deployed]
         /\ \A d \in Clusters \ {c} : dep'[d] = dep[d]
         /\ dep[c].want = n => dep'[c] = dep[c]
<1>0. dep \in [Clusters -> Deployed]
  BY DEF Shapes
<1>1. CASE dep[c].want = n
  BY <1>0, <1>1 DEF Scaled
<1>2. CASE dep[c].want # n
  <2>1. PICK p \in Deployed : p = dep[c]
    BY <1>0
  <2>2. PICK q : q = [p EXCEPT !.want = n, !.seen = FALSE]
    OBVIOUS
  <2>3. q \in Deployed
    BY <2>2 DEF Deployed
  <2>4. dep' = [dep EXCEPT ![c] = q]
    BY <1>0, <1>2, <2>1, <2>2 DEF Scaled
  <2> QED
    BY <1>0, <1>2, <2>3, <2>4
<1> QED
  BY <1>1, <1>2

\* A Deployment is scaled to zero; what was stopped stays so.
LEMMA PauseSetsStep ==
  ASSUME IInv, PauseSets
  PROVE  IInv'
<1> DEFINE q == pass.quiet /\ SetsQuiet(pass.i)
<1>0. /\ pass.at = "pause" /\ Shapes /\ dep' = Scaled(pass.i, 0)
      /\ pass' = [pass EXCEPT !.at = "pods", !.quiet = q]
      /\ UNCHANGED <<gvpc, lock, cr, nb, row, minted, consumers, domain>>
  BY DEF PauseSets, At, IInv
<1>1. PICK v \in Vpcs : pass.v = v /\ Place(v)
  BY <1>0, PlaceMe
<1>2. /\ gvpc[v].op = "" /\ gvpc[v].fin /\ gvpc[v].stage # "gone" /\ lock.holder = v
      /\ pass.del => gvpc[v].stage = "deleting"
      /\ ~pass.del => TransitUp(v)
      /\ pass.quiet => \A c \in Clusters : c < pass.i => Stopped(c)
  BY <1>0, <1>1 DEF Place, Owns, Rises, Waits, Pausing
<1>3. /\ dep' \in [Clusters -> Deployed] /\ pass.i \in Clusters
      /\ \A d \in Clusters \ {pass.i} : dep'[d] = dep[d]
      /\ dep[pass.i].want = 0 => dep'[pass.i] = dep[pass.i]
  BY <1>0, SomeClusters, ScaledFields
<1>4. Clusters' = Clusters /\ (TransitUp(v)' <=> TransitUp(v))
  BY <1>0 DEF TransitUp, Clusters
<1>5. \A c \in Clusters : (Stopped(c) => Stopped(c)') /\ (SetsQuiet(c) => SetsQuiet(c)')
  BY <1>3 DEF Stopped, SetsQuiet
<1>6. q \in BOOLEAN
  OBVIOUS
<1>7. q => (\A c \in Clusters : c < pass.i => Stopped(c)') /\ SetsQuiet(pass.i)
  BY <1>2, <1>5
<1> HIDE DEF q
<1>8. /\ pass' \in PassType /\ pass'.at = "pods" /\ pass'.i = pass.i
      /\ pass'.v = v /\ pass'.del = pass.del /\ pass'.quiet = q
  <2>1. pass' = [at |-> "pods", v |-> pass.v, del |-> pass.del, i |-> pass.i,
                 k |-> pass.k, uid |-> pass.uid, quiet |-> q]
    BY <1>0 DEF Shapes, PassType
  <2> QED
    BY <1>0, <1>1, <1>6, <2>1, PassFields, AheadFields DEF Labels, Pausing
<1>9. Owns(v)' /\ Holds(v)' /\ Falls(v)'
  BY <1>0, <1>2, <1>8 DEF Owns, Holds, Falls, Building, Pausing, Opening, Shutting, Resuming
<1>10. Waits'
  <2>1. q => \A c \in Clusters : c = pass.i => SetsQuiet(c)'
    BY <1>5, <1>7
  <2> QED
    BY <1>4, <1>7, <1>8, <2>1 DEF Waits, Pausing, Opening, Shutting
<1>11. Rises(v)'
  BY <1>2, <1>4, <1>8 DEF Rises, Pausing, Opening
<1>12. PlaceInv'
  BY <1>8, <1>9, <1>10, <1>11, PlaceOf DEF Place
<1>13. AllStopped => AllStopped'
  BY <1>4, <1>5 DEF AllStopped
<1> QED
  BY <1>0, <1>3, <1>8, <1>12, <1>13, DepStep

\* Native IC comes back once the operation is saved.
LEMMA UnpauseStep ==
  ASSUME IInv, Unpause
  PROVE  IInv'
<1> DEFINE q == pass.quiet /\ dep[pass.i].want = 1 /\ dep[pass.i].seen /\ dep[pass.i].pod = "up"
<1>0. /\ pass.at = "unpause" /\ Shapes /\ dep' = Scaled(pass.i, 1)
      /\ UNCHANGED <<gvpc, lock, cr, nb, row, minted, consumers, domain>>
  BY DEF Unpause, At, IInv
<1>1. PICK v \in Vpcs : pass.v = v /\ Place(v)
  BY <1>0, PlaceMe
<1>2. /\ gvpc[v].op # "" /\ gvpc[v].fin /\ gvpc[v].stage # "gone" /\ lock.holder = v
      /\ pass.del => gvpc[v].stage = "deleting"
  BY <1>0, <1>1 DEF Place, Owns, Resuming
<1>3. dep' \in [Clusters -> Deployed]
  BY <1>0, SomeClusters, ScaledFields
<1>4. ASSUME pass' \in PassType, PlaceInv' PROVE IInv'
  BY <1>0, <1>2, <1>3, <1>4, DepStep
<1>5. ASSUME pass'.at \in {"unpause", "release"}, pass'.v = v, pass'.del = pass.del PROVE PlaceInv'
  <2>1. Place(v)'
    BY <1>0, <1>2, <1>5 DEF Place, Owns, Holds, Waits, Rises, Falls, Building, Pausing, Opening,
       Shutting, Resuming
  <2> QED
    BY <1>5, <2>1, PlaceOf
<1>6. CASE pass.i < domain.n
  <2>1. pass' = [pass EXCEPT !.i = @ + 1, !.quiet = q] /\ pass.i + 1 \in Clusters
    BY <1>0, <1>6, SomeClusters DEF Unpause
  <2>2. q \in BOOLEAN
    BY <1>0 DEF Shapes, Deployed, PassType
  <2> HIDE DEF q
  <2>3. pass' = [at |-> "unpause", v |-> pass.v, del |-> pass.del, i |-> pass.i + 1,
                 k |-> pass.k, uid |-> pass.uid, quiet |-> q]
    BY <1>0, <2>1 DEF Shapes, PassType
  <2>4. pass' \in PassType /\ pass'.at = "unpause" /\ pass'.v = v /\ pass'.del = pass.del
    BY <1>0, <1>1, <2>1, <2>2, <2>3, PassFields, AheadFields DEF Labels, Resuming
  <2> QED
    BY <1>4, <1>5, <2>4
<1>7. CASE Go("release")
  <2>1. pass' \in PassType /\ pass'.at = "release" /\ pass'.v = v /\ pass'.del = pass.del
    BY <1>0, <1>1, <1>7, GoFields DEF Labels, Resuming
  <2> QED
    BY <1>4, <1>5, <2>1
<1>8. CASE Return
  BY <1>0, <1>4, <1>8, ReturnFields, IdlePlace
<1> QED
  BY <1>6, <1>7, <1>8 DEF Unpause

\* A stopped Deployment stays stopped by itself.
LEMMA WorkloadStep ==
  ASSUME IInv, NEW c \in Clusters, Workload(c)
  PROVE  IInv'
<1>0. /\ Shapes /\ UNCHANGED <<gvpc, lock, cr, nb, row, minted, consumers, pass, domain>>
      /\ dep \in [Clusters -> Deployed] /\ pass \in PassType
  BY DEF Workload, IInv, Shapes
<1>1. PICK p \in Deployed : p = dep[c]
  BY <1>0
<1>2. PICK q \in Deployed :
        /\ dep' = [dep EXCEPT ![c] = q]
        /\ p.want = 0 /\ p.seen /\ p.rs = 0 /\ p.rsseen =>
             /\ q.want = 0 /\ q.seen /\ q.rs = 0 /\ q.rsseen
             /\ p.pod = "none" => q.pod = "none"
  <2>1. CASE /\ ~p.seen
             /\ dep' = [dep EXCEPT ![c] = [p EXCEPT !.seen = TRUE, !.rs = p.want,
                                                    !.rsseen = p.rs = p.want /\ @]]
    <3>1. PICK b \in BOOLEAN : b = (p.rs = p.want /\ p.rsseen)
      OBVIOUS
    <3>2. PICK q : q = [p EXCEPT !.seen = TRUE, !.rs = p.want, !.rsseen = b]
      OBVIOUS
    <3>3. q \in Deployed
      BY <3>2 DEF Deployed
    <3>4. dep' = [dep EXCEPT ![c] = q]
      BY <2>1, <3>1, <3>2
    <3> QED
      BY <2>1, <3>3, <3>4
  <2>2. CASE /\ ~p.rsseen \/ p.rs = 1
             /\ dep' = [dep EXCEPT ![c] = [p EXCEPT !.rsseen = TRUE,
                          !.pod = IF p.rs = 1 THEN "up" ELSE IF @ = "up" THEN "going" ELSE @]]
    <3>1. PICK s \in {"none", "up", "going"} :
            s = IF p.rs = 1 THEN "up" ELSE IF p.pod = "up" THEN "going" ELSE p.pod
      BY DEF Deployed
    <3>2. PICK q : q = [p EXCEPT !.rsseen = TRUE, !.pod = s]
      OBVIOUS
    <3>3. q \in Deployed
      BY <3>2 DEF Deployed
    <3>4. dep' = [dep EXCEPT ![c] = q]
      BY <2>2, <3>1, <3>2
    <3>5. ~(p.rs = 0 /\ p.rsseen)
      BY <2>2
    <3> QED
      BY <3>3, <3>4, <3>5
  <2>3. CASE ~p.rsseen /\ dep' = [dep EXCEPT ![c].pod = "up"]
    <3>1. PICK q : q = [p EXCEPT !.pod = "up"]
      OBVIOUS
    <3>2. q \in Deployed
      BY <3>1 DEF Deployed
    <3>3. dep' = [dep EXCEPT ![c] = q]
      BY <1>1, <2>3, <3>1
    <3> QED
      BY <2>3, <3>2, <3>3
  <2>4. CASE dep' = [dep EXCEPT ![c].pod = "none"]
    <3>1. PICK q : q = [p EXCEPT !.pod = "none"]
      OBVIOUS
    <3>2. q \in Deployed
      BY <3>1 DEF Deployed
    <3>3. dep' = [dep EXCEPT ![c] = q]
      BY <1>1, <2>4, <3>1
    <3>4. q.want = p.want /\ (q.seen <=> p.seen) /\ q.rs = p.rs /\ (q.rsseen <=> p.rsseen) /\ q.pod = "none"
      BY <3>1 DEF Deployed
    <3> QED
      BY <3>2, <3>3, <3>4
  <2> QED
    BY <1>1, <2>1, <2>2, <2>3, <2>4 DEF Workload
<1>3. /\ dep' \in [Clusters -> Deployed] /\ dep'[c] = q
      /\ \A d \in Clusters \ {c} : dep'[d] = dep[d]
  BY <1>0, <1>2
<1>4. \A d \in Clusters : (Stopped(d) => Stopped(d)') /\ (SetsQuiet(d) => SetsQuiet(d)')
  <2>1. (Stopped(c) => Stopped(c)') /\ (SetsQuiet(c) => SetsQuiet(c)')
    BY <1>1, <1>2, <1>3 DEF Stopped, SetsQuiet
  <2> QED
    BY <1>3, <2>1 DEF Stopped, SetsQuiet
<1>5. Clusters' = Clusters
  BY <1>0 DEF Clusters
<1>6. AllStopped => AllStopped'
  BY <1>4, <1>5 DEF AllStopped
<1>7. ASSUME NEW v \in Vpcs, Place(v) PROVE Place(v)'
  <2>1. Owns(v)' /\ Holds(v)' /\ Falls(v)'
    BY <1>0, <1>5, <1>7 DEF Place, Owns, Holds, Falls, Void
  <2>2. Rises(v)'
    BY <1>0, <1>5, <1>7 DEF Place, Rises, TransitUp
  <2>3. Waits'
    BY <1>0, <1>4, <1>5, <1>6, <1>7 DEF Place, Waits
  <2> QED
    BY <2>1, <2>2, <2>3 DEF Place
<1>8. PlaceInv'
  BY <1>0, <1>7 DEF IInv, PlaceInv
<1> QED
  BY <1>0, <1>3, <1>6, <1>8, DepStep

-----------------------------------------------------------------------------
(* Steps that write the local OVN databases.                               *)

\* The objects of one VPC in one cluster change.
LEMMA NbStep ==
  ASSUME IInv, NEW c \in Clusters, NEW v \in Vpcs, NEW S \in SUBSET Facts,
         UNCHANGED <<gvpc, lock, dep, cr, row, minted, consumers, domain>>,
         nb' = [nb EXCEPT ![c][v] = S], pass' \in PassType, PlaceInv',
         S \cap {"mark", "keys", "gateways"} # {} => "Transit" \in S,
         "routes" \in S => "Vpc" \in S,
         Bare(v) => S = {},
         Guestless /\ v \notin domain.hurt =>
            /\ "dup" \notin S
            /\ \/ "mark" \in S <=> row[v] # 0
               \/ "mark" \in S <=> "mark" \in nb[c][v]
               \/ lock.holder = v /\ gvpc[v].op = "" /\ AllStopped
  PROVE  IInv'
<1>0. nb \in [Clusters -> [Vpcs -> SUBSET Facts]] /\ Sound(v)
  BY DEF IInv, Shapes
<1>1. /\ nb' \in [Clusters -> [Vpcs -> SUBSET Facts]] /\ nb'[c][v] = S
      /\ \A d \in Clusters \ {c} : nb'[d][v] = nb[d][v]
      /\ \A d \in Clusters : \A w \in Vpcs \ {v} : nb'[d][w] = nb[d][w]
  BY <1>0
<1>2. Shapes' /\ Clusters' = Clusters
  BY <1>1, ShapesStep DEF IInv, Shapes
<1>3. AllStopped' <=> AllStopped
  BY Calm
<1>4. Sound(v)'
  <2>1. Recorded(v)' /\ Carried(v)'
    BY <1>0, <1>2 DEF Sound, Recorded, Carried, TransitUp
  <2>0. \A d \in Clusters : nb'[d][v] = IF d = c THEN S ELSE nb[d][v]
    BY <1>1
  <2>2. Bare(v) => Bare(v)'
    <3> SUFFICES ASSUME Bare(v) PROVE Bare(v)'
      OBVIOUS
    <3>1. \A d \in Clusters : nb'[d][v] = {}
      BY <2>0 DEF Bare
    <3> QED
      BY <1>2, <3>1 DEF Bare
  <2>3. Cleaned(v)'
    BY <1>0, <2>2 DEF Sound, Cleaned
  <2>4. Hangs(v)'
    BY <1>0, <1>1, <1>2 DEF Sound, Hangs
  <2>5. ASSUME Guestless, v \notin domain.hurt, Torn(v)'
        PROVE  lock.holder = v /\ gvpc[v].op = "" /\ AllStopped
    <3>1. CASE Torn(v)
      BY <1>0, <2>5, <3>1 DEF Sound, Fenced
    <3>2. CASE ~Torn(v)
      <4>1. \A d \in Clusters : "mark" \in nb[d][v] <=> row[v] # 0
        BY <3>2 DEF Torn
      <4>2. ~("mark" \in S <=> row[v] # 0)
        <5>1. PICK d \in Clusters : ~("mark" \in nb'[d][v] <=> row[v] # 0)
          BY <1>2, <2>5 DEF Torn
        <5> QED
          BY <2>0, <4>1, <5>1
      <4> QED
        BY <2>5, <4>1, <4>2
    <3> QED
      BY <3>1, <3>2
  <2>6. Guestless => Fenced(v)'
    BY <1>0, <1>1, <1>2, <1>3, <2>5 DEF Sound, Fenced
  <2> QED
    BY <2>1, <2>3, <2>4, <2>6 DEF Sound
<1>5. ASSUME NEW w \in Vpcs, w # v PROVE Sound(w)'
  BY <1>1, <1>2, <1>3, <1>5, Keep DEF IInv
<1>6. Alone'
  BY DEF IInv, Alone
<1> QED
  BY <1>2, <1>4, <1>5, <1>6 DEF IInv

\* The pass does not notice, unless a mark goes behind the barrier.
LEMMA NbPlace ==
  ASSUME IInv, NEW c \in Clusters, NEW v \in Vpcs, NEW S \in SUBSET Facts,
         UNCHANGED <<gvpc, lock, dep, cr, row, minted, consumers, domain, pass>>,
         nb' = [nb EXCEPT ![c][v] = S],
         "mark" \in nb[c][v] /\ AllStopped /\ TransitUp(v) => "mark" \in S
  PROVE  PlaceInv'
<1>0. nb \in [Clusters -> [Vpcs -> SUBSET Facts]]
  BY DEF IInv, Shapes
<1>1. \A d \in Clusters, w \in Vpcs : nb'[d][w] = IF d = c /\ w = v THEN S ELSE nb[d][w]
  BY <1>0
<1>2. ASSUME NEW w \in Vpcs, Place(w) PROVE Place(w)'
  <2>0. Clusters' = Clusters /\ (AllStopped' <=> AllStopped) /\ (TransitUp(w)' <=> TransitUp(w))
    BY Calm
  <2>1. Owns(w)' /\ Holds(w)'
    BY <1>2 DEF Place, Owns, Holds
  <2>2. Falls(w)'
    BY <1>2, <2>0 DEF Place, Falls, Void
  <2>3. Waits'
    BY <1>2, <2>0 DEF Place, Waits, Stopped, SetsQuiet
  <2>4. pass.at \in Opening => AllStopped /\ TransitUp(w)
    BY <1>2 DEF Place, Waits, Rises
  <2>5. pass.at \in Opening => \A d \in Clusters : "mark" \in nb[d][w] => "mark" \in nb'[d][w]
    BY <1>1, <2>4
  <2>6. Rises(w)'
    BY <1>2, <2>0, <2>5 DEF Place, Rises, Opening
  <2> QED
    BY <2>1, <2>2, <2>3, <2>6 DEF Place
<1> QED
  BY <1>2 DEF IInv, PlaceInv

\* The next cluster of a loop, or what follows it.
LEMMA NextClusterFields ==
  ASSUME Shapes, NEW h \in Labels, NEW a \in Labels, NextCluster(h, a)
  PROVE  /\ pass' \in PassType /\ pass'.v = pass.v /\ pass'.del = pass.del
         /\ pass'.uid = pass.uid
         /\ \/ pass.i = domain.n /\ pass'.at = a /\ pass'.i = 1
            \/ pass.i < domain.n /\ pass'.at = h /\ pass'.i = pass.i + 1
<1>1. CASE pass.i = domain.n
  BY <1>1, GoFields DEF NextCluster
<1>2. CASE pass.i # domain.n
  <2>1. pass.i < domain.n /\ pass.i + 1 \in Clusters
    BY <1>2, SomeClusters
  <2>2. pass' = [at |-> h, v |-> pass.v, del |-> pass.del, i |-> pass.i + 1,
                 k |-> pass.k, uid |-> pass.uid, quiet |-> pass.quiet]
    BY <1>2 DEF NextCluster, Shapes, PassType
  <2> QED
    BY <2>1, <2>2, PassFields, AheadFields
<1> QED
  BY <1>1, <1>2

\* What a pass behind the barrier on the way up knows.
LEMMA OpenMe ==
  ASSUME IInv, pass.at \in Opening
  PROVE  /\ pass.v \in Vpcs /\ ~pass.del
         /\ \A v \in Vpcs : pass.v = v =>
              /\ gvpc[v].fin /\ gvpc[v].stage # "gone" /\ gvpc[v].op = "" /\ lock.holder = v
              /\ AllStopped /\ TransitUp(v) /\ Place(v) /\ Sound(v)
  BY PlaceMe DEF Place, Owns, Waits, Rises, Opening

\* The marks, one cluster after the other.
LEMMA MarkStep ==
  ASSUME IInv, Mark
  PROVE  IInv'
<1>0. /\ pass.at = "mark" /\ Shapes /\ pass.i \in Clusters
      /\ UNCHANGED <<gvpc, lock, dep, cr, row, minted, consumers, domain>>
  BY SomeClusters DEF Mark, At, IInv
<1>1. PICK v \in Vpcs : /\ pass.v = v /\ ~pass.del
                        /\ gvpc[v].fin /\ gvpc[v].stage # "gone" /\ gvpc[v].op = ""
                        /\ lock.holder = v /\ AllStopped /\ TransitUp(v) /\ Place(v) /\ Sound(v)
  BY <1>0, OpenMe DEF Opening
<1>2. CASE UNCHANGED nb /\ Return
  BY <1>0, <1>2, ReturnStep DEF world
<1>3. CASE ~(UNCHANGED nb /\ Return)
  <2>1. PICK c \in Clusters : c = pass.i
    BY <1>0
  <2>2. PICK S : S = nb[c][v] \cup {"mark"}
    OBVIOUS
  <2>3. /\ nb' = [nb EXCEPT ![c][v] = S] /\ NextCluster("mark", "transit")
        /\ "Transit" \in nb[c][v] /\ "dup" \notin nb[c][v]
    BY <1>1, <1>3, <2>1, <2>2 DEF Mark, Markable, V
  <2>4. S \in SUBSET Facts /\ nb \in [Clusters -> [Vpcs -> SUBSET Facts]]
    BY <1>0, <2>2 DEF Shapes, Facts
  <2>5. /\ pass' \in PassType /\ pass'.v = v /\ ~pass'.del
        /\ \/ pass.i = domain.n /\ pass'.at = "transit" /\ pass'.i = 1
           \/ pass.i < domain.n /\ pass'.at = "mark" /\ pass'.i = pass.i + 1
    BY <1>0, <1>1, <2>3, NextClusterFields DEF Labels, Opening
  <2>6. /\ Clusters' = Clusters /\ AllStopped' /\ TransitUp(v)'
    BY <1>0, <1>1, Calm
  <2>7. \A d \in Clusters : d < c + 1 => "mark" \in nb'[d][v]
    <3>1. \A d \in Clusters : d < c => "mark" \in nb[d][v]
      BY <1>0, <1>1, <2>1 DEF Place, Rises
    <3>2. \A d \in Clusters : d < c + 1 => d < c \/ d = c
      BY <1>0, <2>1, SomeClusters
    <3>3. \A d \in Clusters : nb'[d][v] = IF d = c THEN S ELSE nb[d][v]
      BY <2>3, <2>4
    <3> QED
      BY <2>2, <3>1, <3>2, <3>3
  <2>8. pass.i = domain.n => \A d \in Clusters : "mark" \in nb'[d][v]
    BY <1>0, <2>1, <2>7, SomeClusters
  <2>9. Rises(v)'
    BY <2>1, <2>5, <2>6, <2>7, <2>8 DEF Rises, Pausing, Opening
  <2>10. Owns(v)' /\ Holds(v)' /\ Falls(v)' /\ Waits'
    BY <1>0, <1>1, <2>5, <2>6 DEF Owns, Holds, Falls, Waits, Building, Pausing, Opening, Shutting,
       Resuming
  <2>11. PlaceInv'
    BY <2>5, <2>9, <2>10, PlaceOf DEF Place
  <2>12. /\ S \cap {"mark", "keys", "gateways"} # {} => "Transit" \in S
         /\ "routes" \in S => "Vpc" \in S
         /\ "dup" \notin S
    BY <1>1, <2>2, <2>3 DEF Sound, Hangs
  <2>13. ~Bare(v)
    BY <2>3 DEF Bare
  <2> QED
    BY <1>0, <1>1, <2>3, <2>4, <2>5, <2>11, <2>12, <2>13, NbStep
<1> QED
  BY <1>2, <1>3

\* The gateways of the transit port, one cluster after the other.
LEMMA GatewaysStep ==
  ASSUME IInv, Gateways
  PROVE  IInv'
<1>0. /\ pass.at = "gateways" /\ Shapes /\ pass.i \in Clusters
      /\ UNCHANGED <<gvpc, lock, dep, cr, row, minted, consumers, domain>>
  BY SomeClusters DEF Gateways, At, IInv
<1>1. PICK v \in Vpcs : /\ pass.v = v /\ ~pass.del
                        /\ gvpc[v].fin /\ gvpc[v].stage # "gone" /\ gvpc[v].op = ""
                        /\ lock.holder = v /\ AllStopped /\ TransitUp(v) /\ Place(v) /\ Sound(v)
  BY <1>0, OpenMe DEF Opening
<1>2. CASE UNCHANGED nb /\ Return
  BY <1>0, <1>2, ReturnStep DEF world
<1>3. CASE ~(UNCHANGED nb /\ Return)
  <2>1. PICK c \in Clusters : c = pass.i
    BY <1>0
  <2>2. PICK S : S = nb[c][v] \cup {"gateways"}
    OBVIOUS
  <2>3. /\ nb' = [nb EXCEPT ![c][v] = S] /\ NextCluster("gateways", "saveresume")
        /\ "Transit" \in nb[c][v]
    BY <1>1, <1>3, <2>1, <2>2 DEF Gateways, PortReady, V
  <2>4. S \in SUBSET Facts /\ nb \in [Clusters -> [Vpcs -> SUBSET Facts]]
    BY <1>0, <2>2 DEF Shapes, Facts
  <2>5. /\ pass' \in PassType /\ pass'.v = v /\ ~pass'.del /\ pass'.uid = pass.uid
        /\ pass'.at \in {"gateways", "saveresume"}
    BY <1>0, <1>1, <2>3, NextClusterFields DEF Labels, Opening
  <2>6. /\ Clusters' = Clusters /\ AllStopped' /\ TransitUp(v)'
    BY <1>0, <1>1, Calm
  <2>7. \A d \in Clusters : "mark" \in nb'[d][v]
    <3>1. \A d \in Clusters : "mark" \in nb[d][v]
      BY <1>0, <1>1 DEF Place, Rises
    <3>2. \A d \in Clusters : nb'[d][v] = IF d = c THEN S ELSE nb[d][v]
      BY <2>3, <2>4
    <3> QED
      BY <2>2, <3>1, <3>2
  <2>8. (row[v] # 0 \/ v \in domain.hurt) /\ row[v] \in {0, pass.uid}
    BY <1>0, <1>1 DEF Place, Rises, Holds
  <2>9. Rises(v)' /\ Holds(v)'
    BY <1>0, <2>5, <2>6, <2>7, <2>8 DEF Rises, Holds, Pausing, Opening
  <2>10. Owns(v)' /\ Falls(v)' /\ Waits'
    BY <1>0, <1>1, <2>5, <2>6 DEF Owns, Falls, Waits, Building, Pausing, Opening, Shutting, Resuming
  <2>11. PlaceInv'
    BY <2>5, <2>9, <2>10, PlaceOf DEF Place
  <2>12. /\ S \cap {"mark", "keys", "gateways"} # {} => "Transit" \in S
         /\ "routes" \in S => "Vpc" \in S
         /\ Guestless /\ v \notin domain.hurt => "dup" \notin S
         /\ "mark" \in S <=> "mark" \in nb[c][v]
    BY <1>1, <2>2, <2>3 DEF Sound, Hangs, Fenced
  <2>13. ~Bare(v)
    BY <2>3 DEF Bare
  <2> QED
    BY <1>0, <2>3, <2>4, <2>5, <2>11, <2>12, <2>13, NbStep
<1> QED
  BY <1>2, <1>3

\* The ordinary pass repairs marks and gateways of a VPC that has its row.
LEMMA LinkStep ==
  ASSUME IInv, Link
  PROVE  IInv'
<1>0. /\ pass.at = "link" /\ Shapes /\ pass.i \in Clusters
      /\ UNCHANGED <<gvpc, lock, dep, cr, row, minted, consumers, domain>>
  BY SomeClusters DEF Link, At, IInv
<1>1. PICK v \in Vpcs : pass.v = v /\ Place(v) /\ Sound(v)
  BY <1>0, PlaceMe
<1>2. /\ gvpc[v].fin /\ gvpc[v].stage # "gone" /\ gvpc[v].op = "" /\ ~pass.del
      /\ row[v] # 0 \/ v \in domain.hurt
  BY <1>0, <1>1 DEF Place, Owns, Rises
<1>3. CASE UNCHANGED nb /\ Return
  BY <1>0, <1>3, ReturnStep DEF world
<1>4. CASE ~(UNCHANGED nb /\ Return)
  <2>1. PICK c \in Clusters : c = pass.i
    BY <1>0
  <2>2. PICK S : S = nb[c][v] \cup {"mark", "gateways"}
    OBVIOUS
  <2>3. /\ nb' = [nb EXCEPT ![c][v] = S] /\ (NextCluster("link", "idle") \/ Return)
        /\ "Transit" \in nb[c][v] /\ "dup" \notin nb[c][v]
    BY <1>1, <1>4, <2>1, <2>2 DEF Link, PortReady, Markable, V
  <2>4. S \in SUBSET Facts
    BY <1>0, <2>2 DEF Shapes, Facts
  <2>5. pass' \in PassType /\ PlaceInv'
    <3>1. CASE Return
      BY <1>0, <3>1, ReturnFields, IdlePlace
    <3>2. CASE NextCluster("link", "idle")
      <4>1. /\ pass' \in PassType /\ pass'.v = v /\ ~pass'.del /\ pass'.at \in {"link", "idle"}
        BY <1>0, <1>1, <1>2, <3>2, NextClusterFields DEF Labels
      <4>2. pass'.at = "link" => Place(v)'
        BY <1>0, <1>2, <4>1 DEF Place, Owns, Holds, Waits, Rises, Falls, Building, Pausing,
           Opening, Shutting, Resuming
      <4> QED
        BY <4>1, <4>2, PlaceOf, IdlePlace
    <3> QED
      BY <2>3, <3>1, <3>2
  <2>6. /\ S \cap {"mark", "keys", "gateways"} # {} => "Transit" \in S
        /\ "routes" \in S => "Vpc" \in S
        /\ "dup" \notin S /\ "mark" \in S
    BY <1>1, <2>2, <2>3 DEF Sound, Hangs
  <2>7. ~Bare(v)
    BY <2>3 DEF Bare
  <2> QED
    BY <1>0, <1>2, <2>3, <2>4, <2>5, <2>6, <2>7, NbStep
<1> QED
  BY <1>3, <1>4

\* A native IC that runs meets only whole transit networks.
LEMMA NativeICStep ==
  ASSUME IInv, NEW c \in Clusters, NEW v \in Vpcs, NativeIC(c, v)
  PROVE  IInv'
<1> DEFINE has == nb[c][v]
<1>0. /\ Shapes /\ pass \in PassType /\ dep[c].pod # "none"
      /\ UNCHANGED <<gvpc, lock, dep, cr, row, minted, consumers, pass, domain>>
  BY DEF NativeIC, Running, IInv, Shapes
<1>1. Sound(v) /\ has \in SUBSET Facts /\ ~AllStopped
  BY <1>0 DEF IInv, Shapes, AllStopped, Stopped
<1>2. Guestless /\ v \notin domain.hurt => ("mark" \in has <=> row[v] # 0) /\ "dup" \notin has
  BY <1>1 DEF Sound, Fenced, Torn
<1>3. /\ has \cap {"mark", "keys", "gateways"} # {} => "Transit" \in has
      /\ "routes" \in has => "Vpc" \in has
  BY <1>1 DEF Sound, Hangs
<1>4. PICK S : /\ nb' = [nb EXCEPT ![c][v] = S]
               /\ \/ /\ row[v] # 0 /\ "mark" \in has /\ S = has \cup {"keys"}
                  \/ /\ row[v] = 0 /\ has \cap {"mark", "dup"} # {}
                     /\ S = IF "mark" \in has THEN has \ {"Transit", "mark", "keys", "gateways", "dup"}
                                              ELSE has \ {"dup"}
                  \/ /\ row[v] # 0 /\ has \cap {"mark", "dup"} = {} /\ S = has \cup {"dup"}
  BY DEF NativeIC
<1> HIDE DEF has
<1>5. /\ S \in SUBSET Facts
      /\ S \cap {"mark", "keys", "gateways"} # {} => "Transit" \in S
      /\ "routes" \in S => "Vpc" \in S
  BY <1>1, <1>3, <1>4 DEF Facts
<1>6. Bare(v) => S = {}
  BY <1>4 DEF Bare, has
<1>7. Guestless /\ v \notin domain.hurt => "dup" \notin S /\ ("mark" \in S <=> row[v] # 0)
  BY <1>2, <1>4
<1>8. PlaceInv'
  BY <1>0, <1>1, <1>4, <1>5, NbPlace
<1> QED
  BY <1>0, <1>4, <1>5, <1>6, <1>7, <1>8, NbStep

-----------------------------------------------------------------------------
(* Steps that write the Kube-OVN resources.                                *)

\* One resource is written.
PutCr(c, v, k, q) == [cr EXCEPT ![c][v][k] = q]

\* Only that one.
LEMMA CrPut ==
  ASSUME Shapes, NEW c \in Clusters, NEW v \in Vpcs, NEW k \in Kinds, NEW q \in Resource,
         cr' = PutCr(c, v, k, q)
  PROVE  /\ cr' \in [Clusters -> [Vpcs -> [Kinds -> Resource]]]
         /\ cr'[c][v][k] = q
         /\ \A j \in Kinds \ {k} : cr'[c][v][j] = cr[c][v][j]
         /\ \A d \in Clusters : \A w \in Vpcs : d # c \/ w # v => cr'[d][w] = cr[d][w]
<1>1. cr \in [Clusters -> [Vpcs -> [Kinds -> Resource]]]
  BY DEF Shapes
<1> QED
  BY <1>1 DEF PutCr

\* The resources of one VPC in one cluster change.
LEMMA CrStep ==
  ASSUME IInv, NEW c \in Clusters, NEW v \in Vpcs,
         UNCHANGED <<gvpc, lock, nb, row, consumers>>,
         domain' \in DomainType, domain'.n = domain.n, domain'.hurt = domain.hurt,
         domain'.joins = domain.joins, dep' = dep,
         cr' \in [Clusters -> [Vpcs -> [Kinds -> Resource]]],
         \A d \in Clusters : \A w \in Vpcs : d # c \/ w # v => cr'[d][w] = cr[d][w],
         \A k \in Kinds : \/ cr'[c][v][k].uid \in {0, cr[c][v][k].uid}
                          \/ /\ gvpc[v].recs[c][k] = 0
                             /\ gvpc[v].fin /\ gvpc[v].stage # "gone" /\ gvpc[v].op = "",
         row[v] # 0 => cr'[c][v]["Transit"].uid # 0 /\ ~cr'[c][v]["Transit"].dying,
         minted' \in [Vpcs -> Nat], pass' \in PassType, PlaceInv'
  PROVE  IInv'
<1>1. Shapes' /\ Clusters' = Clusters
  BY ShapesStep DEF IInv, Shapes
<1>2. AllStopped' <=> AllStopped
  BY <1>1 DEF AllStopped, Stopped, SetsQuiet
<1>3. Sound(v)'
  <2>0. Sound(v)
    BY DEF IInv
  <2>1. Recorded(v)'
    <3>1. ASSUME NEW d \in Clusters, NEW k \in Kinds, gvpc[v].recs[d][k] # 0
          PROVE  cr'[d][v][k].uid \in {0, gvpc[v].recs[d][k]}
      <4>1. cr[d][v][k].uid \in {0, gvpc[v].recs[d][k]}
        BY <2>0, <3>1 DEF Sound, Recorded
      <4>2. cr'[d][v][k].uid \in {0, cr[d][v][k].uid}
        BY <3>1
      <4> QED
        BY <4>1, <4>2
    <3> QED
      BY <1>1, <2>0, <3>1 DEF Sound, Recorded
  <2>2. Bare(v) => Bare(v)' \/ (gvpc[v].fin /\ gvpc[v].stage # "gone" /\ gvpc[v].op = "")
    <3> SUFFICES ASSUME Bare(v), ~(gvpc[v].fin /\ gvpc[v].stage # "gone" /\ gvpc[v].op = "")
                 PROVE  Bare(v)'
      OBVIOUS
    <3>1. ASSUME NEW d \in Clusters, NEW k \in Kinds PROVE cr'[d][v][k].uid = 0
      <4>1. cr[d][v][k].uid = 0
        BY DEF Bare
      <4>2. CASE d = c
        BY <4>1, <4>2
      <4>3. CASE d # c
        BY <4>1, <4>3
      <4> QED
        BY <4>2, <4>3
    <3> QED
      BY <1>1, <3>1 DEF Bare
  <2>3. Cleaned(v)'
    BY <2>0, <2>2 DEF Sound, Cleaned
  <2>4. Hangs(v)'
    BY <1>1, <2>0 DEF Sound, Hangs
  <2>5. Carried(v)'
    BY <1>1, <2>0 DEF Sound, Carried, TransitUp
  <2>6. Torn(v)' <=> Torn(v)
    BY <1>1 DEF Torn
  <2>7. Guestless => Fenced(v)'
    BY <1>1, <1>2, <2>0, <2>6 DEF Sound, Fenced
  <2> QED
    BY <2>1, <2>3, <2>4, <2>5, <2>7 DEF Sound
<1>4. ASSUME NEW w \in Vpcs, w # v PROVE Sound(w)'
  BY <1>1, <1>2, <1>4, Keep DEF IInv
<1>5. Alone'
  BY DEF IInv, Alone
<1> QED
  BY <1>1, <1>3, <1>4, <1>5 DEF IInv

\* The pass does not notice a resource that goes, unless it is a transit Subnet
\* that nobody deleted.
LEMMA CrPlace ==
  ASSUME IInv, NEW c \in Clusters, NEW v \in Vpcs,
         UNCHANGED <<gvpc, lock, dep, nb, row, pass>>,
         domain'.n = domain.n, domain'.hurt = domain.hurt,
         \A d \in Clusters : \A w \in Vpcs : d # c \/ w # v => cr'[d][w] = cr[d][w],
         \A k \in Kinds : cr'[c][v][k].uid \in {0, cr[c][v][k].uid},
         cr[c][v]["Transit"].uid # 0 /\ ~cr[c][v]["Transit"].dying
            => cr'[c][v]["Transit"].uid # 0 /\ ~cr'[c][v]["Transit"].dying
  PROVE  PlaceInv'
<1>1. Clusters' = Clusters /\ Shapes
  BY DEF IInv, Clusters
<1>2. ASSUME NEW w \in Vpcs, Place(w) PROVE Place(w)'
  <2>1. \A d \in Clusters, k \in Kinds : cr'[d][w][k].uid \in {0, cr[d][w][k].uid}
    OBVIOUS
  <2>2. TransitUp(w) => TransitUp(w)'
    BY <1>1 DEF TransitUp
  <2>3. Owns(w)'
    BY <1>2 DEF Place, Owns
  <2>4. Waits'
    BY <1>1, <1>2 DEF Place, Waits, AllStopped, Stopped, SetsQuiet
  <2>5. Rises(w)'
    BY <1>1, <1>2, <2>2 DEF Place, Rises
  <2>6. Falls(w)'
    BY <1>1, <1>2, <2>1 DEF Place, Falls, Void, Kinds
  <2>7. Holds(w)'
    <3>1. pass.i \in Clusters /\ Order[pass.k] \in Kinds
      <4>1. pass.i \in Clusters /\ pass.k \in 1..3
        BY <1>1, PassFields
      <4>2. Order[pass.k] \in Kinds
        BY <4>1 DEF Order, Kinds
      <4> QED
        BY <4>1, <4>2
    <3> QED
      BY <1>2, <2>1, <3>1 DEF Place, Holds
  <2> QED
    BY <2>3, <2>4, <2>5, <2>6, <2>7 DEF Place
<1> QED
  BY <1>2 DEF IInv, PlaceInv

\* Kube-OVN follows the resources; what it takes away has no resource any more.
LEMMA KubeOVNStep ==
  ASSUME IInv, NEW c \in Clusters, NEW v \in Vpcs, KubeOVN(c, v)
  PROVE  IInv'
<1> DEFINE has == nb[c][v]
<1>0. /\ Shapes /\ pass \in PassType /\ minted \in [Vpcs -> Nat] /\ domain \in DomainType
      /\ UNCHANGED <<gvpc, lock, dep, row, minted, consumers, pass, domain>>
  BY DEF KubeOVN, IInv, Shapes
<1>1. Sound(v) /\ has \in SUBSET Facts
  BY <1>0 DEF IInv, Shapes
<1>2. /\ has \cap {"mark", "keys", "gateways"} # {} => "Transit" \in has
      /\ "routes" \in has => "Vpc" \in has
      /\ Guestless /\ v \notin domain.hurt => "dup" \notin has
      /\ row[v] # 0 => TransitUp(v)
  BY <1>1 DEF Sound, Hangs, Fenced, Carried
<1>3. ASSUME NEW S \in SUBSET Facts, nb' = [nb EXCEPT ![c][v] = S], UNCHANGED cr,
             S \cap {"mark", "keys", "gateways"} # {} => "Transit" \in S,
             "routes" \in S => "Vpc" \in S,
             Bare(v) => S = {},
             "dup" \in S => "dup" \in has,
             "mark" \in S => "mark" \in has,
             "mark" \in has => "mark" \in S \/ ~TransitUp(v)
      PROVE  IInv'
  <2>1. PlaceInv'
    BY <1>0, <1>3, NbPlace
  <2>2. Guestless /\ v \notin domain.hurt =>
            /\ "dup" \notin S
            /\ ("mark" \in S <=> row[v] # 0) \/ ("mark" \in S <=> "mark" \in nb[c][v])
    BY <1>2, <1>3
  <2> QED
    BY <1>0, <1>3, <2>1, <2>2, NbStep
<1>4. CASE \E k \in Kinds \ has : /\ cr[c][v][k].uid # 0 /\ nb' = [nb EXCEPT ![c][v] = has \cup {k}]
                                  /\ UNCHANGED cr
  <2>1. PICK k \in Kinds \ has : /\ cr[c][v][k].uid # 0 /\ nb' = [nb EXCEPT ![c][v] = has \cup {k}]
                                 /\ UNCHANGED cr
    BY <1>4
  <2>2. ~Bare(v)
    BY <2>1 DEF Bare
  <2>3. has \cup {k} \in SUBSET Facts /\ k \notin {"mark", "keys", "gateways", "routes", "dup"}
    BY <1>1 DEF Kinds, Facts
  <2> HIDE DEF has
  <2> QED
    BY <1>2, <1>3, <2>1, <2>2, <2>3
<1>5. CASE "Vpc" \in has /\ nb' = [nb EXCEPT ![c][v] = has \cup {"routes"}] /\ UNCHANGED cr
  <2>1. ~Bare(v)
    BY <1>5 DEF Bare
  <2>2. has \cup {"routes"} \in SUBSET Facts
    BY <1>1 DEF Facts
  <2> HIDE DEF has
  <2> QED
    BY <1>2, <1>3, <1>5, <2>1, <2>2
<1>6. CASE \E fs \in {{"routes"}, {"Subnet"}, {"Vpc", "routes"}} :
             nb' = [nb EXCEPT ![c][v] = has \ fs] /\ UNCHANGED cr
  <2>1. PICK fs \in {{"routes"}, {"Subnet"}, {"Vpc", "routes"}} :
          nb' = [nb EXCEPT ![c][v] = has \ fs] /\ UNCHANGED cr
    BY <1>6
  <2>2. Bare(v) => has \ fs = {}
    BY DEF Bare
  <2> HIDE DEF has
  <2>3. /\ has \ fs \in SUBSET Facts
        /\ (has \ fs) \cap {"mark", "keys", "gateways"} # {} => "Transit" \in has \ fs
        /\ "routes" \in has \ fs => "Vpc" \in has \ fs
        /\ "dup" \in has \ fs => "dup" \in has
        /\ "mark" \in has \ fs <=> "mark" \in has
    BY <1>1, <1>2
  <2> QED
    BY <1>3, <2>1, <2>2, <2>3
<1>7. CASE /\ cr[c][v]["Transit"].uid = 0 /\ UNCHANGED cr
           /\ nb' = [nb EXCEPT ![c][v] = has \ {"Transit", "mark", "keys", "gateways"}]
  <2>1. Bare(v) => has \ {"Transit", "mark", "keys", "gateways"} = {}
    BY DEF Bare
  <2>2. ~TransitUp(v)
    BY <1>7 DEF TransitUp
  <2> HIDE DEF has
  <2>3. has \ {"Transit", "mark", "keys", "gateways"} \in SUBSET Facts
    BY <1>1
  <2> QED
    BY <1>2, <1>3, <1>7, <2>1, <2>2, <2>3
<1>8. CASE \E k \in Kinds : cr[c][v][k].dying /\ cr' = [cr EXCEPT ![c][v][k] = NoCR] /\ UNCHANGED nb
  <2>1. PICK k \in Kinds : cr[c][v][k].dying /\ cr' = [cr EXCEPT ![c][v][k] = NoCR] /\ UNCHANGED nb
    BY <1>8
  <2>2. NoCR \in Resource /\ NoCR.uid = 0
    BY DEF NoCR, Resource
  <2>3. /\ cr' \in [Clusters -> [Vpcs -> [Kinds -> Resource]]]
        /\ cr'[c][v][k] = NoCR
        /\ \A j \in Kinds \ {k} : cr'[c][v][j] = cr[c][v][j]
        /\ \A d \in Clusters : \A w \in Vpcs : d # c \/ w # v => cr'[d][w] = cr[d][w]
    <3>1. cr' = PutCr(c, v, k, NoCR)
      BY <2>1 DEF PutCr
    <3> QED
      BY <1>0, <2>2, <3>1, CrPut
  <2>4. \A j \in Kinds : cr'[c][v][j].uid \in {0, cr[c][v][j].uid}
    BY <2>2, <2>3
  <2>5. cr[c][v]["Transit"].uid # 0 /\ ~cr[c][v]["Transit"].dying
            => cr'[c][v]["Transit"].uid # 0 /\ ~cr'[c][v]["Transit"].dying
    BY <2>1, <2>3 DEF Kinds
  <2>6. PlaceInv'
    BY <1>0, <2>1, <2>3, <2>4, <2>5, CrPlace
  <2>7. row[v] # 0 => cr'[c][v]["Transit"].uid # 0 /\ ~cr'[c][v]["Transit"].dying
    BY <1>2, <2>5 DEF TransitUp
  <2> QED
    BY <1>0, <2>1, <2>3, <2>4, <2>6, <2>7, CrStep
<1> QED
  BY <1>4, <1>5, <1>6, <1>7, <1>8 DEF KubeOVN

\* What a pass that removes knows.
LEMMA ShutMe ==
  ASSUME IInv, pass.at \in Shutting
  PROVE  /\ pass.v \in Vpcs /\ pass.del
         /\ \A v \in Vpcs : pass.v = v =>
              /\ gvpc[v].fin /\ gvpc[v].stage = "deleting" /\ gvpc[v].op = "" /\ lock.holder = v
              /\ AllStopped /\ Place(v) /\ Sound(v)
  BY PlaceMe DEF Place, Owns, Waits, Shutting

\* Where a pass that removes goes, it takes along what it knows.
LEMMA ShutPlace ==
  ASSUME NEW v \in Vpcs, pass'.v = v, pass'.del, pass'.at \in Shutting, Falls(v)', AllStopped',
         gvpc'[v].fin, gvpc'[v].stage = "deleting", gvpc'[v].op = "", lock'.holder = v
  PROVE  PlaceInv'
<1>1. Owns(v)' /\ Holds(v)' /\ Waits' /\ Rises(v)'
  BY DEF Owns, Holds, Waits, Rises, Building, Pausing, Opening, Shutting, Resuming
<1> QED
  BY <1>1, PlaceOf DEF Place

\* The routes of a VPC are withdrawn before anything else.
LEMMA WithdrawStep ==
  ASSUME IInv, WithdrawRoutes
  PROVE  IInv'
<1>0. /\ pass.at = "withdraw" /\ Shapes /\ NextCluster("withdraw", "deleterow")
      /\ minted \in [Vpcs -> Nat] /\ domain \in DomainType
      /\ UNCHANGED <<gvpc, lock, dep, nb, row, minted, consumers, domain>>
  BY DEF WithdrawRoutes, At, IInv, Shapes
<1>1. PICK v \in Vpcs : /\ pass.v = v /\ pass.del
                        /\ gvpc[v].fin /\ gvpc[v].stage = "deleting" /\ gvpc[v].op = ""
                        /\ lock.holder = v /\ AllStopped /\ Sound(v)
  BY <1>0, ShutMe DEF Shutting
<1>2. PICK c \in Clusters, k \in Kinds : c = pass.i /\ k = "Vpc"
  BY <1>0, SomeClusters DEF Kinds
<1>3. PICK p \in Resource : p = cr[c][v][k]
  BY <1>0 DEF Shapes
<1>4. PICK q : q = [p EXCEPT !.routes = FALSE]
  OBVIOUS
<1>5. q \in Resource
  BY <1>4 DEF Resource
<1>6. q.uid = p.uid
  BY <1>4 DEF Resource
<1>7. cr' = PutCr(c, v, k, q)
  BY <1>1, <1>2, <1>3, <1>4 DEF WithdrawRoutes, V, PutCr
<1>8. /\ cr' \in [Clusters -> [Vpcs -> [Kinds -> Resource]]]
      /\ cr'[c][v][k] = q
      /\ \A j \in Kinds \ {k} : cr'[c][v][j] = cr[c][v][j]
      /\ \A d \in Clusters : \A w \in Vpcs : d # c \/ w # v => cr'[d][w] = cr[d][w]
  BY <1>0, <1>5, <1>7, CrPut
<1>9. /\ pass' \in PassType /\ pass'.v = v /\ pass'.del /\ pass'.at \in {"withdraw", "deleterow"}
  BY <1>0, <1>1, NextClusterFields DEF Labels, Shutting
<1>10. AllStopped'
  BY <1>0, <1>1 DEF AllStopped, Stopped, SetsQuiet, Clusters
<1>11. Falls(v)'
  BY <1>9 DEF Falls
<1>12. PlaceInv'
  BY <1>0, <1>1, <1>9, <1>10, <1>11, ShutPlace DEF Shutting
<1>13. \A j \in Kinds : cr'[c][v][j].uid \in {0, cr[c][v][j].uid}
  BY <1>3, <1>6, <1>8
<1>14. row[v] # 0 => cr'[c][v]["Transit"].uid # 0 /\ ~cr'[c][v]["Transit"].dying
  BY <1>1, <1>2, <1>8 DEF Sound, Carried, TransitUp, Kinds
<1>15. /\ UNCHANGED <<gvpc, lock, nb, row, consumers>> /\ dep' = dep /\ minted' \in [Vpcs -> Nat]
       /\ domain' \in DomainType /\ domain'.n = domain.n /\ domain'.hurt = domain.hurt
       /\ domain'.joins = domain.joins
  BY <1>0
<1>16. /\ cr' \in [Clusters -> [Vpcs -> [Kinds -> Resource]]]
       /\ \A d \in Clusters : \A w \in Vpcs : d # c \/ w # v => cr'[d][w] = cr[d][w]
       /\ pass' \in PassType
  BY <1>8, <1>9
<1> QED
  BY <1>12, <1>13, <1>14, <1>15, <1>16, CrStep

\* Resources are created, repaired, or found missing.
LEMMA EnsureStep ==
  ASSUME IInv, Ensure
  PROVE  IInv'
<1>0. /\ pass.at = "ensure" /\ Shapes /\ domain \in DomainType /\ minted \in [Vpcs -> Nat]
      /\ UNCHANGED <<lock, dep, nb, row, consumers, domain>>
  BY DEF Ensure, At, IInv, Shapes
<1>1. PICK v \in Vpcs : /\ pass.v = v /\ gvpc[v].fin /\ gvpc[v].stage # "gone"
                        /\ gvpc[v].op = "" /\ ~pass.del
  BY <1>0, BuildMe DEF Building
<1>2. PICK c \in Clusters, k \in Kinds : c = pass.i /\ k = Order[pass.k]
  <2>1. pass.i \in Clusters /\ pass.k \in 1..3
    BY <1>0, PassFields
  <2>2. Order[pass.k] \in Kinds
    BY <2>1 DEF Order, Kinds
  <2> QED
    BY <2>1, <2>2
<1>3. PICK p \in Resource : p = cr[c][v][k]
  BY <1>0 DEF Shapes
<1>4. gvpc[v] \in Object /\ gvpc[v].recs \in [Clusters -> [Kinds -> Nat]] /\ Sound(v)
  BY ObjectTypes DEF IInv
<1>5. CASE UNCHANGED <<gvpc, cr, minted>> /\ Return
  BY <1>0, <1>5, ReturnStep DEF world
<1>6. CASE /\ UNCHANGED <<cr, minted>> /\ Go("idle")
           /\ gvpc' = [gvpc EXCEPT ![v] = [gvpc[v] EXCEPT !.recs[c][k] = 0]]
  <2>1. PICK q : q = [gvpc[v].recs EXCEPT ![c][k] = 0]
    OBVIOUS
  <2>2. q \in [Clusters -> [Kinds -> Nat]]
    BY <1>4, <2>1
  <2>3. \A d \in Clusters, j \in Kinds : q[d][j] \in {0, gvpc[v].recs[d][j]}
    BY <1>4, <2>1
  <2>4. PICK g : g = PutRecs(gvpc[v], q)
    OBVIOUS
  <2>5. gvpc' = [gvpc EXCEPT ![v] = g]
    BY <1>6, <2>1, <2>4 DEF PutRecs
  <2>6. /\ g \in Object /\ g.row = gvpc[v].row /\ g.recs = q
        /\ g.stage = gvpc[v].stage /\ g.op = gvpc[v].op /\ (g.fin <=> gvpc[v].fin)
    BY <1>4, <2>2, <2>4, RecsFields
  <2>7. g.fin /\ g.stage # "gone" /\ g.op = ""
    BY <1>1, <2>6
  <2>8. pass' \in PassType /\ PlaceInv'
    BY <1>0, <1>6, GoFields, IdlePlace DEF Labels
  <2> QED
    BY <1>0, <1>6, <2>3, <2>5, <2>6, <2>7, <2>8, SaveStep
<1>7. ASSUME NEW q \in Resource, cr' = PutCr(c, v, k, q), UNCHANGED gvpc, minted' \in [Vpcs -> Nat],
             \/ q.uid = p.uid /\ (q.dying <=> p.dying)
             \/ p.uid = 0 /\ gvpc[v].recs[c][k] = 0,
             pass' \in PassType, pass'.v = v, pass'.del = pass.del,
             \/ pass'.at \in {"ensure", "ready"}
             \/ /\ pass'.at = "record" /\ pass'.i = pass.i /\ pass'.k = pass.k
                /\ pass'.uid = q.uid
      PROVE  IInv'
  <2>1. /\ cr' \in [Clusters -> [Vpcs -> [Kinds -> Resource]]]
        /\ cr'[c][v][k] = q
        /\ \A j \in Kinds \ {k} : cr'[c][v][j] = cr[c][v][j]
        /\ \A d \in Clusters : \A w \in Vpcs : d # c \/ w # v => cr'[d][w] = cr[d][w]
    BY <1>0, <1>7, CrPut
  <2>2. row[v] # 0 => cr[c][v]["Transit"].uid # 0 /\ ~cr[c][v]["Transit"].dying
    BY <1>4 DEF Sound, Carried, TransitUp
  <2>3. row[v] # 0 => cr'[c][v]["Transit"].uid # 0 /\ ~cr'[c][v]["Transit"].dying
    <3>1. CASE k = "Transit"
      BY <1>3, <1>7, <2>1, <2>2, <3>1
    <3>2. CASE k # "Transit"
      BY <2>1, <2>2, <3>2 DEF Kinds
    <3> QED
      BY <3>1, <3>2
  <2>4. \A j \in Kinds : \/ cr'[c][v][j].uid \in {0, cr[c][v][j].uid}
                         \/ /\ gvpc[v].recs[c][j] = 0
                            /\ gvpc[v].fin /\ gvpc[v].stage # "gone" /\ gvpc[v].op = ""
    BY <1>1, <1>3, <1>7, <2>1
  <2>5. PlaceInv'
    <3>1. CASE pass'.at \in {"ensure", "ready"}
      BY <1>1, <1>7, <3>1, BuildPlace DEF Building
    <3>2. CASE pass'.at = "record"
      <4>1. pass'.i = c /\ Order[pass'.k] = k /\ pass'.uid = q.uid
        BY <1>2, <1>7, <3>2
      <4>2. Holds(v)'
        BY <2>1, <3>2, <4>1 DEF Holds
      <4>3. Owns(v)' /\ Waits' /\ Rises(v)' /\ Falls(v)'
        BY <1>1, <1>7, <3>2 DEF Owns, Waits, Rises, Falls, Building, Pausing, Opening, Shutting, Resuming
      <4> QED
        BY <1>7, <4>2, <4>3, PlaceOf DEF Place
    <3> QED
      BY <1>7, <3>1, <3>2
  <2>6. /\ UNCHANGED <<gvpc, lock, nb, row, consumers>> /\ dep' = dep /\ minted' \in [Vpcs -> Nat]
        /\ domain' \in DomainType /\ domain'.n = domain.n /\ domain'.hurt = domain.hurt
        /\ domain'.joins = domain.joins
    BY <1>0, <1>7
  <2>7. /\ cr' \in [Clusters -> [Vpcs -> [Kinds -> Resource]]]
        /\ \A d \in Clusters : \A w \in Vpcs : d # c \/ w # v => cr'[d][w] = cr[d][w]
        /\ pass' \in PassType
    BY <1>7, <2>1
  <2> QED
    BY <2>3, <2>4, <2>5, <2>6, <2>7, CrStep
<1>8. CASE /\ p.uid = 0 /\ gvpc[v].recs[c][k] = 0 /\ UNCHANGED gvpc
           /\ cr' = [cr EXCEPT ![c][v][k] = [uid |-> minted[v] + 1, dying |-> FALSE,
                                             routes |-> k = "Vpc"]]
           /\ minted' = [minted EXCEPT ![v] = minted[v] + 1]
           /\ pass' = [pass EXCEPT !.at = "record", !.uid = minted[v] + 1]
  <2>0. PICK n \in Nat : n = minted[v] + 1
    BY <1>0
  <2>1. PICK b \in BOOLEAN : b = (k = "Vpc")
    OBVIOUS
  <2>2. PICK q : q = [uid |-> n, dying |-> FALSE, routes |-> b]
    OBVIOUS
  <2>3. q \in Resource
    BY <2>2 DEF Resource
  <2>4. cr' = PutCr(c, v, k, q)
    BY <1>8, <2>0, <2>1, <2>2 DEF PutCr
  <2>5. minted' \in [Vpcs -> Nat]
    BY <1>0, <1>8, <2>0
  <2>6. pass' = [at |-> "record", v |-> pass.v, del |-> pass.del, i |-> pass.i, k |-> pass.k,
                 uid |-> n, quiet |-> pass.quiet]
    BY <1>0, <1>8, <2>0 DEF Shapes, PassType
  <2>7. /\ pass' \in PassType /\ pass'.v = v /\ pass'.del = pass.del /\ pass'.at = "record"
        /\ pass'.i = pass.i /\ pass'.k = pass.k /\ pass'.uid = n
    BY <1>0, <1>1, <2>6, PassFields, AheadFields DEF Labels, Building
  <2>8. q.uid = n
    BY <2>2
  <2> QED
    BY <1>7, <1>8, <2>3, <2>4, <2>5, <2>7, <2>8
<1>9. CASE /\ p.uid # 0 /\ UNCHANGED <<gvpc, minted>>
           /\ cr' = [cr EXCEPT ![c][v][k].routes = (k = "Vpc")]
           /\ NextResource \/ pass' = [pass EXCEPT !.at = "record", !.uid = p.uid]
  <2>1. PICK b \in BOOLEAN : b = (k = "Vpc")
    OBVIOUS
  <2>2. PICK q : q = [p EXCEPT !.routes = b]
    OBVIOUS
  <2>3. q \in Resource
    BY <2>2 DEF Resource
  <2>4. q.uid = p.uid /\ (q.dying <=> p.dying) /\ p.uid \in Nat
    BY <2>2 DEF Resource
  <2>5. cr' = PutCr(c, v, k, q)
    BY <1>3, <1>9, <2>1, <2>2 DEF PutCr
  <2>6. minted' \in [Vpcs -> Nat]
    BY <1>0, <1>9
  <2>7. CASE NextResource
    <3>1. /\ pass' \in PassType /\ pass'.v = v /\ pass'.del = pass.del
          /\ pass'.at \in {"ensure", "ready"}
      BY <1>0, <1>1, <2>7, NextResourceFields
    <3> QED
      BY <1>7, <1>9, <2>3, <2>4, <2>5, <2>6, <3>1
  <2>8. CASE pass' = [pass EXCEPT !.at = "record", !.uid = p.uid]
    <3>1. pass' = [at |-> "record", v |-> pass.v, del |-> pass.del, i |-> pass.i, k |-> pass.k,
                   uid |-> p.uid, quiet |-> pass.quiet]
      BY <1>0, <2>8 DEF Shapes, PassType
    <3>2. /\ pass' \in PassType /\ pass'.v = v /\ pass'.del = pass.del /\ pass'.at = "record"
          /\ pass'.i = pass.i /\ pass'.k = pass.k /\ pass'.uid = p.uid
      BY <1>0, <1>1, <2>4, <3>1, PassFields, AheadFields DEF Labels, Building
    <3> QED
      BY <1>7, <1>9, <2>3, <2>4, <2>5, <2>6, <3>2
  <2> QED
    BY <1>9, <2>7, <2>8
<1> QED
  <2>1. \/ UNCHANGED <<gvpc, cr, minted>> /\ Return
        \/ /\ UNCHANGED <<cr, minted>> /\ Go("idle")
           /\ gvpc' = [gvpc EXCEPT ![v] = [gvpc[v] EXCEPT !.recs[c][k] = 0]]
        \/ /\ p.uid = 0 /\ gvpc[v].recs[c][k] = 0 /\ UNCHANGED gvpc
           /\ cr' = [cr EXCEPT ![c][v][k] = [uid |-> minted[v] + 1, dying |-> FALSE,
                                             routes |-> k = "Vpc"]]
           /\ minted' = [minted EXCEPT ![v] = minted[v] + 1]
           /\ pass' = [pass EXCEPT !.at = "record", !.uid = minted[v] + 1]
        \/ /\ p.uid # 0 /\ UNCHANGED <<gvpc, minted>>
           /\ cr' = [cr EXCEPT ![c][v][k].routes = (k = "Vpc")]
           /\ NextResource \/ pass' = [pass EXCEPT !.at = "record", !.uid = p.uid]
    BY <1>1, <1>2, <1>3 DEF Ensure, Missing, Save, Me, V
  <2> QED
    BY <1>5, <1>6, <1>8, <1>9, <2>1

\* Resources are marked for deletion; none changes its UID.
Doomed(c, v, kinds) ==
    [cr EXCEPT ![c][v] = [k \in Kinds |->
        IF k \in kinds /\ @[k].uid # 0 THEN [@[k] EXCEPT !.dying = TRUE] ELSE @[k]]]

\* The resources after a deletion is asked for.
LEMMA DoomedFields ==
  ASSUME Shapes, NEW c \in Clusters, NEW v \in Vpcs, NEW kinds \in SUBSET Kinds,
         cr' = Doomed(c, v, kinds)
  PROVE  /\ cr' \in [Clusters -> [Vpcs -> [Kinds -> Resource]]]
         /\ \A k \in Kinds : cr'[c][v][k].uid = cr[c][v][k].uid
         /\ \A d \in Clusters : \A w \in Vpcs : d # c \/ w # v => cr'[d][w] = cr[d][w]
<1> DEFINE One(k) == IF k \in kinds /\ cr[c][v][k].uid # 0
                     THEN [cr[c][v][k] EXCEPT !.dying = TRUE] ELSE cr[c][v][k]
<1>0. cr \in [Clusters -> [Vpcs -> [Kinds -> Resource]]]
  BY DEF Shapes
<1>1. ASSUME NEW k \in Kinds PROVE One(k) \in Resource /\ One(k).uid = cr[c][v][k].uid
  <2>1. PICK p \in Resource : p = cr[c][v][k]
    BY <1>0
  <2>2. PICK q : q = [p EXCEPT !.dying = TRUE]
    OBVIOUS
  <2>3. q \in Resource
    BY <2>2 DEF Resource
  <2>4. q.uid = p.uid
    BY <2>2 DEF Resource
  <2>5. One(k) \in {p, q}
    BY <2>1, <2>2
  <2> HIDE DEF One
  <2> QED
    BY <2>1, <2>3, <2>4, <2>5
<1>2. cr' = [cr EXCEPT ![c][v] = [k \in Kinds |-> One(k)]]
  BY <1>0 DEF Doomed
<1> HIDE DEF One
<1>3. PICK f \in [Kinds -> Resource] : f = [k \in Kinds |-> One(k)]
  BY <1>1
<1>4. \A k \in Kinds : f[k].uid = cr[c][v][k].uid
  BY <1>1, <1>3
<1>5. cr' = [cr EXCEPT ![c][v] = f]
  BY <1>2, <1>3
<1> QED
  BY <1>0, <1>4, <1>5

\* Deletions, cluster after cluster, until every resource is seen to be gone.
LEMMA DeleteStep ==
  ASSUME IInv, NEW l \in {"subnets", "vpcs"}, NEW kinds \in SUBSET Kinds, NEW a \in {"vpcs", "absent"},
         \/ l = "subnets" /\ kinds = {"Subnet", "Transit"} /\ a = "vpcs"
         \/ l = "vpcs" /\ kinds = {"Vpc"} /\ a = "absent",
         Delete(l, kinds, a)
  PROVE  IInv'
<1> DEFINE all == pass.quiet /\ \A k \in kinds : cr[pass.i][pass.v][k].uid = 0
<1>0. /\ pass.at = l /\ Shapes /\ domain \in DomainType /\ minted \in [Vpcs -> Nat]
      /\ UNCHANGED <<gvpc, lock, dep, nb, row, minted, consumers, domain>>
  BY DEF Delete, At, IInv, Shapes
<1>1. PICK v \in Vpcs : /\ pass.v = v /\ pass.del
                        /\ gvpc[v].fin /\ gvpc[v].stage = "deleting" /\ gvpc[v].op = ""
                        /\ lock.holder = v /\ AllStopped /\ Place(v)
  BY <1>0, ShutMe DEF Shutting
<1>2. PICK c \in Clusters : c = pass.i
  BY <1>0, SomeClusters
<1>3. cr' = Doomed(c, v, kinds)
  BY <1>1, <1>2 DEF Delete, Doomed, V
<1>4. /\ cr' \in [Clusters -> [Vpcs -> [Kinds -> Resource]]]
      /\ \A k \in Kinds : cr'[c][v][k].uid = cr[c][v][k].uid
      /\ \A d \in Clusters : \A w \in Vpcs : d # c \/ w # v => cr'[d][w] = cr[d][w]
  BY <1>0, <1>3, DoomedFields
<1>5. \A d \in Clusters, k \in Kinds : cr'[d][v][k].uid = cr[d][v][k].uid
  BY <1>4
<1>6. /\ row[v] = 0
      /\ l = "vpcs" => \A d \in Clusters : cr[d][v]["Subnet"].uid = 0 /\ cr[d][v]["Transit"].uid = 0
      /\ pass.quiet => \A d \in Clusters : d < c => \A k \in kinds : cr[d][v][k].uid = 0
  BY <1>0, <1>1, <1>2 DEF Place, Falls, Void
<1>7. all \in BOOLEAN
  BY <1>0 DEF Shapes, PassType
<1>8. all => \A d \in Clusters : d < c + 1 => \A k \in kinds : cr[d][v][k].uid = 0
  <2>1. \A d \in Clusters : d < c + 1 => d < c \/ d = c
    BY <1>0, <1>2, SomeClusters
  <2> QED
    BY <1>1, <1>2, <1>6, <2>1
<1>9. /\ Clusters' = Clusters /\ AllStopped' /\ row'[v] = 0
  BY <1>0, <1>1, <1>6 DEF AllStopped, Stopped, SetsQuiet, Clusters
<1>10. pass' \in PassType /\ PlaceInv'
  <2>1. CASE pass.i < domain.n
    <3>1. pass' = [pass EXCEPT !.i = @ + 1, !.quiet = all] /\ pass.i + 1 \in Clusters
      BY <1>0, <2>1, SomeClusters DEF Delete, V
    <3> HIDE DEF all
    <3>2. pass' = [at |-> pass.at, v |-> pass.v, del |-> pass.del, i |-> pass.i + 1, k |-> pass.k,
                   uid |-> pass.uid, quiet |-> all]
      BY <1>0, <3>1 DEF Shapes, PassType
    <3>3. /\ pass' \in PassType /\ pass'.at = l /\ pass'.v = v /\ pass'.del /\ pass'.i = c + 1
          /\ pass'.quiet = all
      BY <1>0, <1>1, <1>2, <1>7, <3>1, <3>2, PassFields, AheadFields
    <3>4. pass'.quiet => \A d \in Clusters : d < pass'.i => \A k \in kinds : cr'[d][v][k].uid = 0
      BY <1>5, <1>8, <3>3
    <3>5. l = "vpcs" => \A d \in Clusters : cr'[d][v]["Subnet"].uid = 0 /\ cr'[d][v]["Transit"].uid = 0
      BY <1>5, <1>6 DEF Kinds
    <3>6. Falls(v)'
      BY <1>9, <3>3, <3>4, <3>5 DEF Falls, Void
    <3>7. PlaceInv'
      BY <1>0, <1>1, <1>9, <3>3, <3>6, ShutPlace DEF Shutting
    <3> QED
      BY <3>3, <3>7
  <2>2. CASE ~(pass.i < domain.n) /\ all /\ Go(a)
    <3>1. /\ pass' \in PassType /\ pass'.at = a /\ pass'.v = v /\ pass'.del /\ pass'.i = 1
      BY <1>0, <1>1, <2>2, GoFields DEF Labels, Shutting
    <3>2. \A d \in Clusters : d < c + 1
      BY <1>0, <1>2, <2>2, SomeClusters
    <3>3. \A d \in Clusters : \A k \in kinds : cr'[d][v][k].uid = 0
      BY <1>5, <1>8, <2>2, <3>2
    <3>4. l = "vpcs" => \A d \in Clusters : cr'[d][v]["Subnet"].uid = 0 /\ cr'[d][v]["Transit"].uid = 0
      BY <1>5, <1>6 DEF Kinds
    <3>5. \A d \in Clusters : ~(d < pass'.i)
      BY <1>0, <3>1, SomeClusters
    <3>6. Falls(v)'
      BY <1>9, <3>1, <3>3, <3>4, <3>5 DEF Falls, Void
    <3>7. PlaceInv'
      BY <1>0, <1>1, <1>9, <3>1, <3>6, ShutPlace DEF Shutting
    <3> QED
      BY <3>1, <3>7
  <2>3. CASE Return
    BY <1>0, <2>3, ReturnFields, IdlePlace
  <2> QED
    BY <2>1, <2>2, <2>3 DEF Delete, V
<1>11. \A k \in Kinds : cr'[c][v][k].uid \in {0, cr[c][v][k].uid}
  BY <1>4
<1>12. /\ UNCHANGED <<gvpc, lock, nb, row, consumers>> /\ dep' = dep /\ minted' \in [Vpcs -> Nat]
       /\ domain' \in DomainType /\ domain'.n = domain.n /\ domain'.hurt = domain.hurt
       /\ domain'.joins = domain.joins
  BY <1>0
<1>13. /\ cr' \in [Clusters -> [Vpcs -> [Kinds -> Resource]]]
       /\ \A d \in Clusters : \A w \in Vpcs : d # c \/ w # v => cr'[d][w] = cr[d][w]
       /\ row[v] = 0
  BY <1>4, <1>6
<1> QED
  BY <1>10, <1>11, <1>12, <1>13, CrStep

\* Both kinds of deletion.
LEMMA DeletesStep ==
  ASSUME IInv, DeleteSubnets \/ DeleteVpcs
  PROVE  IInv'
<1>1. CASE DeleteSubnets
  <2>1. PICK l \in {"subnets", "vpcs"}, kinds \in SUBSET Kinds, a \in {"vpcs", "absent"} :
          l = "subnets" /\ kinds = {"Subnet", "Transit"} /\ a = "vpcs"
    BY DEF Kinds
  <2> QED
    BY <1>1, <2>1, DeleteStep DEF DeleteSubnets
<1>2. CASE DeleteVpcs
  <2>1. PICK l \in {"subnets", "vpcs"}, kinds \in SUBSET Kinds, a \in {"vpcs", "absent"} :
          l = "vpcs" /\ kinds = {"Vpc"} /\ a = "absent"
    BY DEF Kinds
  <2> QED
    BY <1>2, <2>1, DeleteStep DEF DeleteVpcs
<1> QED
  BY <1>1, <1>2

-----------------------------------------------------------------------------
(* Steps that write the interconnect database, users and faults.           *)

\* The row of one VPC changes behind the barrier, or is destroyed.
LEMMA RowStep ==
  ASSUME IInv, NEW v \in Vpcs, NEW r \in Nat, row' = [row EXCEPT ![v] = r],
         UNCHANGED <<gvpc, lock, dep, cr, nb, consumers>>,
         domain' \in DomainType, domain'.n = domain.n, domain.hurt \subseteq domain'.hurt,
         domain'.joins = domain.joins,
         minted' \in [Vpcs -> Nat], pass' \in PassType, PlaceInv',
         r = 0 \/ (gvpc[v].row = 0 /\ gvpc[v].fin /\ gvpc[v].stage # "gone" /\ TransitUp(v)),
         v \in domain'.hurt \/ (lock.holder = v /\ gvpc[v].op = "" /\ AllStopped)
  PROVE  IInv'
<1>0. row \in [Vpcs -> Nat] /\ Sound(v)
  BY DEF IInv, Shapes
<1>1. row' \in [Vpcs -> Nat] /\ row'[v] = r /\ \A w \in Vpcs \ {v} : row'[w] = row[w]
  BY <1>0
<1>2. Shapes' /\ Clusters' = Clusters
  BY <1>1, ShapesStep DEF IInv, Shapes
<1>3. AllStopped' <=> AllStopped
  BY <1>2 DEF AllStopped, Stopped, SetsQuiet
<1>4. Sound(v)'
  <2>1. Recorded(v)'
    BY <1>0, <1>1, <1>2 DEF Sound, Recorded
  <2>2. r = 0 => (Bare(v) => Bare(v)')
    BY <1>1, <1>2 DEF Bare
  <2>3. Cleaned(v)'
    <3>1. r # 0 => gvpc[v].fin /\ gvpc[v].stage # "gone" /\ ~Bare(v)
      <4>1. r # 0 => TransitUp(v)
        OBVIOUS
      <4>2. Bare(v) => ~TransitUp(v)
        <5>1. PICK c : c \in Clusters
          BY SomeClusters DEF IInv
        <5> QED
          BY <5>1 DEF Bare, TransitUp, Kinds
      <4> QED
        BY <4>1, <4>2
    <3> QED
      BY <1>0, <2>2, <3>1 DEF Sound, Cleaned
  <2>4. Hangs(v)'
    BY <1>0, <1>2 DEF Sound, Hangs
  <2>5. TransitUp(v)' <=> TransitUp(v)
    BY <1>2 DEF TransitUp
  <2>6. Carried(v)'
    BY <1>0, <1>1, <2>5 DEF Sound, Carried
  <2>7. Guestless => Fenced(v)'
    BY <1>0, <1>2, <1>3 DEF Sound, Fenced
  <2> QED
    BY <2>1, <2>3, <2>4, <2>6, <2>7 DEF Sound
<1>5. ASSUME NEW w \in Vpcs, w # v PROVE Sound(w)'
  BY <1>1, <1>2, <1>3, <1>5, Keep DEF IInv
<1>6. Alone'
  BY DEF IInv, Alone
<1> QED
  BY <1>2, <1>4, <1>5, <1>6 DEF IInv

\* The row is created, found, or found missing, with every switch marked.
LEMMA EnsureTransitStep ==
  ASSUME IInv, EnsureTransit
  PROVE  IInv'
<1>0. /\ pass.at = "transit" /\ Shapes /\ domain \in DomainType /\ minted \in [Vpcs -> Nat]
      /\ row \in [Vpcs -> Nat]
      /\ UNCHANGED <<lock, dep, cr, nb, consumers, domain>>
  BY DEF EnsureTransit, At, IInv, Shapes
<1>1. PICK v \in Vpcs : /\ pass.v = v /\ ~pass.del
                        /\ gvpc[v].fin /\ gvpc[v].stage # "gone" /\ gvpc[v].op = ""
                        /\ lock.holder = v /\ AllStopped /\ TransitUp(v) /\ Place(v) /\ Sound(v)
  BY <1>0, OpenMe DEF Opening
<1>2. \A c \in Clusters : "mark" \in nb[c][v]
  BY <1>0, <1>1 DEF Place, Rises
<1>3. CASE UNCHANGED <<gvpc, row, minted>> /\ Return
  BY <1>0, <1>3, ReturnStep DEF world
<1>4. CASE /\ gvpc' = [gvpc EXCEPT ![v] = [gvpc[v] EXCEPT !.row = 0]] /\ Go("idle")
           /\ UNCHANGED <<row, minted>>
  <2>0. PICK r \in Nat : r = 0
    OBVIOUS
  <2>1. PICK g : g = PutRow(gvpc[v], r)
    OBVIOUS
  <2>2. gvpc[v] \in Object
    BY ObjectTypes
  <2>3. gvpc' = [gvpc EXCEPT ![v] = g]
    BY <1>4, <2>0, <2>1 DEF PutRow
  <2>4. /\ g \in Object /\ g.row = r /\ g.recs = gvpc[v].recs
        /\ g.stage = gvpc[v].stage /\ g.op = gvpc[v].op /\ (g.fin <=> gvpc[v].fin)
    BY <2>1, <2>2, RowFields
  <2>5. g.fin /\ g.stage # "gone" /\ g.op = "" /\ g.row = 0
    BY <1>1, <2>0, <2>4
  <2>6. pass' \in PassType /\ PlaceInv'
    BY <1>0, <1>4, GoFields, IdlePlace DEF Labels
  <2> QED
    BY <1>0, <1>4, <2>3, <2>4, <2>5, <2>6, SaveStep
<1>5. ASSUME NEW u \in Nat, pass' = [pass EXCEPT !.at = "gateways", !.uid = u],
             row'[v] = u, u # 0, UNCHANGED gvpc
      PROVE  pass' \in PassType /\ PlaceInv'
  <2>1. pass' = [at |-> "gateways", v |-> pass.v, del |-> pass.del, i |-> pass.i, k |-> pass.k,
                 uid |-> u, quiet |-> pass.quiet]
    BY <1>0, <1>5 DEF Shapes, PassType
  <2>2. /\ pass' \in PassType /\ pass'.at = "gateways" /\ pass'.v = v /\ ~pass'.del
        /\ pass'.uid = u
    BY <1>0, <1>1, <2>1, PassFields, AheadFields DEF Labels, Opening
  <2>3. Clusters' = Clusters /\ AllStopped' /\ TransitUp(v)'
    BY <1>0, <1>1, Calm
  <2>4. Rises(v)' /\ Holds(v)'
    BY <1>0, <1>2, <1>5, <2>2, <2>3 DEF Rises, Holds, Opening, Pausing
  <2>5. Owns(v)' /\ Waits' /\ Falls(v)'
    BY <1>0, <1>1, <1>5, <2>2, <2>3 DEF Owns, Waits, Falls, Building, Pausing, Opening, Shutting,
       Resuming
  <2> QED
    BY <2>2, <2>4, <2>5, PlaceOf DEF Place
<1>6. CASE /\ gvpc[v].row = 0 /\ UNCHANGED gvpc
           /\ row' = [row EXCEPT ![v] = minted[v] + 1] /\ minted' = [minted EXCEPT ![v] = minted[v] + 1]
           /\ pass' = [pass EXCEPT !.at = "gateways", !.uid = minted[v] + 1]
  <2>1. PICK n \in Nat : n = minted[v] + 1 /\ n # 0
    BY <1>0
  <2>2. row' = [row EXCEPT ![v] = n] /\ row'[v] = n /\ minted' \in [Vpcs -> Nat]
    BY <1>0, <1>6, <2>1
  <2>3. pass' \in PassType /\ PlaceInv'
    BY <1>5, <1>6, <2>1, <2>2
  <2>4. /\ domain' \in DomainType /\ domain'.n = domain.n /\ domain.hurt \subseteq domain'.hurt
        /\ domain'.joins = domain.joins /\ UNCHANGED <<gvpc, lock, dep, cr, nb, consumers>>
    BY <1>0, <1>6
  <2> QED
    BY <1>1, <1>6, <2>2, <2>3, <2>4, RowStep
<1>7. CASE /\ row[v] # 0 /\ UNCHANGED <<gvpc, row, minted>>
           /\ pass' = [pass EXCEPT !.at = "gateways", !.uid = row[v]]
  <2>1. PICK u \in Nat : u = row[v] /\ u # 0
    BY <1>0, <1>7
  <2>2. pass' \in PassType /\ PlaceInv'
    BY <1>5, <1>7, <2>1
  <2> QED
    BY <1>0, <1>7, <2>2, MoveStep DEF world
<1> QED
  <2>1. \/ UNCHANGED <<gvpc, row, minted>> /\ Return
        \/ /\ gvpc' = [gvpc EXCEPT ![v] = [gvpc[v] EXCEPT !.row = 0]] /\ Go("idle")
           /\ UNCHANGED <<row, minted>>
        \/ /\ gvpc[v].row = 0 /\ UNCHANGED gvpc
           /\ row' = [row EXCEPT ![v] = minted[v] + 1] /\ minted' = [minted EXCEPT ![v] = minted[v] + 1]
           /\ pass' = [pass EXCEPT !.at = "gateways", !.uid = minted[v] + 1]
        \/ /\ row[v] # 0 /\ UNCHANGED <<gvpc, row, minted>>
           /\ pass' = [pass EXCEPT !.at = "gateways", !.uid = row[v]]
    BY <1>1 DEF EnsureTransit, RowMissing, Save, Me, V
  <2> QED
    BY <1>3, <1>4, <1>6, <1>7, <2>1

\* The row goes before the network it joins.
LEMMA DeleteTransitStep ==
  ASSUME IInv, DeleteTransit
  PROVE  IInv'
<1>0. /\ pass.at = "deleterow" /\ Shapes /\ domain \in DomainType /\ minted \in [Vpcs -> Nat]
      /\ row \in [Vpcs -> Nat]
      /\ UNCHANGED <<gvpc, lock, dep, cr, nb, minted, consumers, domain>>
  BY DEF DeleteTransit, At, IInv, Shapes
<1>1. PICK v \in Vpcs : /\ pass.v = v /\ pass.del
                        /\ gvpc[v].fin /\ gvpc[v].stage = "deleting" /\ gvpc[v].op = ""
                        /\ lock.holder = v /\ AllStopped /\ Place(v)
  BY <1>0, ShutMe DEF Shutting
<1>2. CASE UNCHANGED row /\ Return
  BY <1>0, <1>2, ReturnStep DEF world
<1>3. CASE row' = [row EXCEPT ![v] = 0] /\ Go("subnets")
  <2>1. /\ pass' \in PassType /\ pass'.at = "subnets" /\ pass'.v = v /\ pass'.del /\ pass'.i = 1
    BY <1>0, <1>1, <1>3, GoFields DEF Labels, Shutting
  <2>2. Clusters' = Clusters /\ AllStopped' /\ row'[v] = 0
    BY <1>0, <1>1, <1>3, Calm
  <2>3. \A d \in Clusters : ~(d < pass'.i)
    BY <1>0, <2>1, SomeClusters
  <2>4. Falls(v)'
    BY <2>1, <2>2, <2>3 DEF Falls
  <2>5. PlaceInv'
    BY <1>0, <1>1, <2>1, <2>2, <2>4, ShutPlace DEF Shutting
  <2>6. /\ domain' \in DomainType /\ domain'.n = domain.n /\ domain.hurt \subseteq domain'.hurt
        /\ domain'.joins = domain.joins /\ minted' \in [Vpcs -> Nat]
    BY <1>0
  <2>7. PICK r \in Nat : r = 0
    OBVIOUS
  <2> QED
    BY <1>0, <1>1, <1>3, <2>1, <2>5, <2>6, <2>7, RowStep
<1> QED
  BY <1>1, <1>2, <1>3 DEF DeleteTransit, V

\* A deletion that meets no finalizer takes a VPC of which nothing exists.
LEMMA UserDeleteStep ==
  ASSUME IInv, NEW v \in Vpcs, UserDelete(v)
  PROVE  IInv'
<1>0. /\ gvpc[v].stage = "live" /\ Shapes /\ pass \in PassType
      /\ UNCHANGED <<lock, dep, cr, nb, row, minted, consumers, pass, domain>>
  BY DEF UserDelete, IInv, Shapes
<1>1. PICK s \in {"live", "deleting", "gone"} : s = IF gvpc[v].fin THEN "deleting" ELSE "gone"
  OBVIOUS
<1>2. PICK g : g = PutStage(gvpc[v], s)
  OBVIOUS
<1>3. gvpc' = [gvpc EXCEPT ![v] = g]
  BY <1>1, <1>2 DEF UserDelete, PutStage
<1>4. gvpc[v] \in Object /\ Sound(v)
  BY ObjectTypes DEF IInv
<1>5. /\ g \in Object /\ g.row = gvpc[v].row /\ g.recs = gvpc[v].recs
      /\ g.stage = s /\ g.op = gvpc[v].op /\ (g.fin <=> gvpc[v].fin)
  BY <1>2, <1>4, StageFields
<1>6. (g.fin /\ g.stage # "gone") \/ (Bare(v) /\ lock.holder # v)
  BY <1>1, <1>4, <1>5 DEF Sound, Cleaned
<1>7. gvpc'[v] = g /\ \A w \in Vpcs \ {v} : gvpc'[w] = gvpc[w]
  BY <1>0, <1>3, <1>5 DEF Shapes
<1>8. ASSUME NEW w \in Vpcs, Place(w) PROVE Place(w)'
  <2>1. Clusters' = Clusters /\ (AllStopped' <=> AllStopped) /\ (TransitUp(w)' <=> TransitUp(w))
    BY <1>0, Calm
  <2>2. w = v => gvpc'[w].stage = "deleting"
    BY <1>1, <1>5, <1>7, <1>8 DEF Place, Owns
  <2>3. gvpc'[w].fin /\ gvpc'[w].op = gvpc[w].op
    BY <1>5, <1>7, <1>8 DEF Place, Owns
  <2>4. Owns(w)'
    BY <1>0, <1>7, <1>8, <2>2, <2>3 DEF Place, Owns
  <2>5. Holds(w)' /\ Falls(w)'
    BY <1>0, <1>8, <2>1 DEF Place, Holds, Falls, Void
  <2>6. Waits' /\ Rises(w)'
    BY <1>0, <1>8, <2>1 DEF Place, Waits, Rises, Stopped, SetsQuiet
  <2> QED
    BY <2>4, <2>5, <2>6 DEF Place
<1>9. PlaceInv'
  BY <1>0, <1>8 DEF IInv, PlaceInv
<1> QED
  BY <1>0, <1>3, <1>5, <1>6, <1>9, SaveStep

-----------------------------------------------------------------------------
(* Consumers, losses, crashes and edited registrations.                    *)

\* Budgets and the registration are all that most faults change of the domain.
LEMMA Budgets ==
  ASSUME domain \in DomainType, NEW a \in Int, NEW b \in Int,
         \/ domain' = [domain EXCEPT !.crashes = a]
         \/ domain' = [domain EXCEPT !.losses = a]
         \/ domain' = [domain EXCEPT !.joins = a]
         \/ domain' = [domain EXCEPT !.edits = a, !.registration = b]
  PROVE  domain' \in DomainType /\ domain'.n = domain.n /\ domain'.hurt = domain.hurt
<1>1. domain' \in DomainType
  BY DEF DomainType
<1>2. domain'.n = domain.n
  BY DEF DomainType
<1>3. domain'.hurt = domain.hurt
  BY DEF DomainType
<1> QED
  BY <1>1, <1>2, <1>3

\* No budget is another one's.
LEMMA JoinsKept ==
  ASSUME domain \in DomainType, NEW a \in Int, NEW b \in Int,
         \/ domain' = [domain EXCEPT !.crashes = a]
         \/ domain' = [domain EXCEPT !.losses = a]
         \/ domain' = [domain EXCEPT !.edits = a, !.registration = b]
  PROVE  domain'.joins = domain.joins
  BY DEF DomainType

\* The budgets are numbers.
LEMMA BudgetTypes ==
  ASSUME IInv
  PROVE  /\ domain \in DomainType /\ domain.crashes - 1 \in Int /\ domain.losses - 1 \in Int
         /\ domain.joins \in Int /\ domain.joins - 1 \in Int
         /\ domain.edits - 1 \in Int /\ 3 - domain.registration \in Int
  BY DEF IInv, Shapes, DomainType

\* Faults that leave the objects, the databases and the lock alone.
LEMMA FaultStep ==
  ASSUME IInv, UNCHANGED <<gvpc, lock, cr, nb, row, minted>>,
         domain' \in DomainType, domain'.n = domain.n, domain'.hurt = domain.hurt,
         dep' \in [Clusters -> Deployed], AllStopped => AllStopped',
         pass' \in PassType, PlaceInv', Alone'
  PROVE  IInv'
<1>1. Shapes' /\ Clusters' = Clusters
  BY ShapesStep DEF IInv, Shapes
<1>2. ASSUME NEW w \in Vpcs PROVE Sound(w)'
  BY <1>1, Keep DEF IInv
<1> QED
  BY <1>1, <1>2 DEF IInv

\* The pass does not notice them: what is stopped stays stopped.
LEMMA FaultPlace ==
  ASSUME IInv, UNCHANGED <<gvpc, lock, cr, nb, row, pass>>,
         domain'.n = domain.n, domain'.hurt = domain.hurt,
         \A c \in Clusters : (SetsQuiet(c) => SetsQuiet(c)') /\ (Stopped(c) => Stopped(c)')
  PROVE  PlaceInv' /\ (AllStopped => AllStopped')
<1>1. Clusters' = Clusters
  BY DEF Clusters
<1>2. AllStopped => AllStopped'
  BY <1>1 DEF AllStopped
<1>3. ASSUME NEW w \in Vpcs, Place(w) PROVE Place(w)'
  <2>1. Owns(w)' /\ Holds(w)'
    BY <1>3 DEF Place, Owns, Holds
  <2>2. Waits'
    BY <1>1, <1>2, <1>3 DEF Place, Waits
  <2>3. Rises(w)' /\ Falls(w)'
    BY <1>1, <1>3 DEF Place, Rises, Falls, Void, TransitUp
  <2> QED
    BY <2>1, <2>2, <2>3 DEF Place
<1> QED
  BY <1>2, <1>3 DEF IInv, PlaceInv

\* An endpoint appears only while the budget lasts.
LEMMA JoinStep ==
  ASSUME IInv, NEW v \in Vpcs, Join(v)
  PROVE  IInv'
<1>0. /\ domain.joins > 0 /\ UNCHANGED <<gvpc, lock, dep, cr, nb, row, minted, pass>> /\ Shapes
      /\ domain' = [domain EXCEPT !.joins = domain.joins - 1]
  BY DEF Join, IInv
<1>1. domain' \in DomainType /\ domain'.n = domain.n /\ domain'.hurt = domain.hurt
  <2>1. PICK a \in Int : a = domain.joins - 1
    BY BudgetTypes
  <2> QED
    BY <1>0, <2>1, BudgetTypes, Budgets
<1>2. ~Guestless /\ Alone'
  BY <1>0, BudgetTypes DEF IInv, Alone
<1>3. PlaceInv' /\ (AllStopped => AllStopped')
  BY <1>0, <1>1, FaultPlace DEF SetsQuiet, Stopped
<1>4. dep' \in [Clusters -> Deployed] /\ pass' \in PassType
  BY <1>0 DEF Shapes
<1> QED
  BY <1>0, <1>1, <1>2, <1>3, <1>4, FaultStep

\* An endpoint leaves.
LEMMA DrainStep ==
  ASSUME IInv, NEW v \in Vpcs, Drain(v)
  PROVE  IInv'
<1>0. UNCHANGED <<gvpc, lock, dep, cr, nb, row, minted, pass, domain>> /\ Shapes
  BY DEF Drain, IInv
<1>1. Alone'
  BY <1>0 DEF IInv, Alone, Drain
<1>2. PlaceInv' /\ (AllStopped => AllStopped')
  BY <1>0, FaultPlace DEF SetsQuiet, Stopped
<1>3. /\ dep' \in [Clusters -> Deployed] /\ pass' \in PassType
      /\ domain' \in DomainType /\ domain'.n = domain.n /\ domain'.hurt = domain.hurt
  BY <1>0 DEF Shapes
<1> QED
  BY <1>0, <1>1, <1>2, <1>3, FaultStep

\* A pass that ends with a crash or an edited registration.
LEMMA CrashStep ==
  ASSUME IInv, Crash \/ Edit
  PROVE  IInv'
<1>0. /\ UNCHANGED <<gvpc, lock, dep, cr, nb, row, minted, consumers>> /\ Shapes /\ Return
      /\ \/ domain' = [domain EXCEPT !.crashes = domain.crashes - 1]
         \/ domain' = [domain EXCEPT !.edits = domain.edits - 1, !.registration = 3 - domain.registration]
  BY DEF Crash, Edit, IInv
<1>1. PICK a \in Int, b \in Int : \/ domain' = [domain EXCEPT !.crashes = a]
                                  \/ domain' = [domain EXCEPT !.edits = a, !.registration = b]
  BY <1>0, BudgetTypes
<1>2. domain' \in DomainType /\ domain'.n = domain.n /\ domain'.hurt = domain.hurt
  BY <1>1, BudgetTypes, Budgets
<1>3. domain'.joins = domain.joins
  BY <1>1, BudgetTypes, JoinsKept
<1>4. Alone'
  BY <1>0, <1>3 DEF IInv, Alone
<1>5. pass' \in PassType /\ PlaceInv'
  BY <1>0, ReturnFields, IdlePlace
<1>6. AllStopped => AllStopped'
  BY <1>0, <1>2 DEF AllStopped, Stopped, SetsQuiet, Clusters
<1>7. dep' \in [Clusters -> Deployed]
  BY <1>0 DEF Shapes
<1> QED
  BY <1>0, <1>2, <1>4, <1>5, <1>6, <1>7, FaultStep

\* The native IC Pod of cluster 1 is evicted.
LEMMA EvictStep ==
  ASSUME IInv, dep[1].pod = "up", dep' = [dep EXCEPT ![1].pod = "going"],
         domain' = [domain EXCEPT !.losses = @ - 1],
         UNCHANGED <<gvpc, lock, cr, nb, row, minted, consumers, pass>>
  PROVE  IInv'
<1>0. Shapes /\ dep \in [Clusters -> Deployed] /\ pass \in PassType /\ 1 \in Clusters
  BY SomeClusters DEF IInv, Shapes
<1>1. PICK a \in Int : domain' = [domain EXCEPT !.losses = a]
  BY BudgetTypes
<1>2. domain' \in DomainType /\ domain'.n = domain.n /\ domain'.hurt = domain.hurt
  BY <1>1, BudgetTypes, Budgets
<1>3. domain'.joins = domain.joins
  BY <1>1, BudgetTypes, JoinsKept
<1>4. PICK p \in Deployed : p = dep[1]
  BY <1>0
<1>5. PICK q : q = [p EXCEPT !.pod = "going"]
  OBVIOUS
<1>6. q \in Deployed /\ q.want = p.want /\ (q.seen <=> p.seen) /\ q.rs = p.rs /\ (q.rsseen <=> p.rsseen)
  BY <1>5 DEF Deployed
<1>7. dep' = [dep EXCEPT ![1] = q]
  BY <1>4, <1>5
<1>8. /\ dep' \in [Clusters -> Deployed] /\ dep'[1] = q
      /\ \A c \in Clusters \ {1} : dep'[c] = dep[c]
  BY <1>0, <1>6, <1>7
<1>9. ASSUME NEW c \in Clusters
      PROVE  (SetsQuiet(c) => SetsQuiet(c)') /\ (Stopped(c) => Stopped(c)')
  <2>1. CASE c = 1
    BY <1>4, <1>6, <1>8, <2>1 DEF SetsQuiet, Stopped
  <2>2. CASE c # 1
    BY <1>8, <2>2 DEF SetsQuiet, Stopped
  <2> QED
    BY <2>1, <2>2
<1>10. PlaceInv' /\ (AllStopped => AllStopped')
  BY <1>2, <1>9, FaultPlace
<1>11. Alone'
  BY <1>3 DEF IInv, Alone
<1>12. pass' \in PassType
  BY <1>0
<1> QED
  BY <1>2, <1>8, <1>10, <1>11, <1>12, FaultStep

\* The tenant Subnet of cluster 1 is destroyed.
LEMMA LoseSubnetStep ==
  ASSUME IInv, NEW v \in Vpcs, cr' = [cr EXCEPT ![1][v]["Subnet"] = NoCR],
         domain' = [domain EXCEPT !.losses = @ - 1],
         UNCHANGED <<gvpc, lock, dep, nb, row, minted, consumers, pass>>
  PROVE  IInv'
<1>0. Shapes /\ minted \in [Vpcs -> Nat] /\ pass \in PassType /\ Sound(v)
  BY DEF IInv, Shapes
<1>1. PICK a \in Int : domain' = [domain EXCEPT !.losses = a]
  BY BudgetTypes
<1>2. domain' \in DomainType /\ domain'.n = domain.n /\ domain'.hurt = domain.hurt
  BY <1>1, BudgetTypes, Budgets
<1>3. domain'.joins = domain.joins
  BY <1>1, BudgetTypes, JoinsKept
<1>4. PICK c \in Clusters, k \in Kinds, q \in Resource : c = 1 /\ k = "Subnet" /\ q = NoCR
  BY <1>0, SomeClusters DEF Kinds, Resource, NoCR
<1>5. q.uid = 0
  BY <1>4 DEF NoCR
<1>6. cr' = PutCr(c, v, k, q)
  BY <1>4 DEF PutCr
<1>7. /\ cr' \in [Clusters -> [Vpcs -> [Kinds -> Resource]]]
      /\ cr'[c][v][k] = q
      /\ \A j \in Kinds \ {k} : cr'[c][v][j] = cr[c][v][j]
      /\ \A d \in Clusters : \A w \in Vpcs : d # c \/ w # v => cr'[d][w] = cr[d][w]
  BY <1>0, <1>6, CrPut
<1>8. \A j \in Kinds : cr'[c][v][j].uid \in {0, cr[c][v][j].uid}
  BY <1>5, <1>7
<1>9. cr'[c][v]["Transit"] = cr[c][v]["Transit"]
  BY <1>4, <1>7 DEF Kinds
<1>10. PlaceInv'
  BY <1>2, <1>7, <1>8, <1>9, CrPlace
<1>11. row[v] # 0 => cr'[c][v]["Transit"].uid # 0 /\ ~cr'[c][v]["Transit"].dying
  BY <1>0, <1>9 DEF Sound, Carried, TransitUp
<1>12. minted' \in [Vpcs -> Nat] /\ pass' \in PassType
  BY <1>0
<1> QED
  BY <1>2, <1>3, <1>7, <1>8, <1>10, <1>11, <1>12, CrStep

\* The row is destroyed: from here on the VPC counts as hurt.
LEMMA LoseRowStep ==
  ASSUME IInv, NEW v \in Vpcs, row' = [row EXCEPT ![v] = 0],
         domain' = [domain EXCEPT !.losses = @ - 1, !.hurt = @ \cup {v}],
         UNCHANGED <<gvpc, lock, dep, cr, nb, minted, consumers, pass>>
  PROVE  IInv'
<1>0. /\ Shapes /\ domain \in DomainType /\ minted \in [Vpcs -> Nat] /\ pass \in PassType
      /\ row \in [Vpcs -> Nat]
  BY DEF IInv, Shapes
<1>1. PICK a \in Int, h \in SUBSET Vpcs : /\ domain' = [domain EXCEPT !.losses = a, !.hurt = h]
                                          /\ h = domain.hurt \cup {v}
  BY BudgetTypes DEF DomainType
<1>2. domain' \in DomainType
  BY <1>0, <1>1 DEF DomainType
<1>3. domain'.n = domain.n /\ domain'.joins = domain.joins
  BY <1>0, <1>1 DEF DomainType
<1>4. domain'.hurt = h
  BY <1>0, <1>1 DEF DomainType
<1>5. domain.hurt \subseteq domain'.hurt /\ v \in domain'.hurt
  BY <1>1, <1>4
<1>6. row'[v] = 0 /\ \A w \in Vpcs \ {v} : row'[w] = row[w]
  BY <1>0
<1>7. Clusters' = Clusters
  BY <1>3 DEF Clusters
<1>8. ASSUME NEW w \in Vpcs, Place(w) PROVE Place(w)'
  <2>1. Owns(w)' /\ Waits'
    BY <1>7, <1>8 DEF Place, Owns, Waits, AllStopped, Stopped, SetsQuiet
  <2>2. row'[w] = row[w] \/ (row'[w] = 0 /\ w \in domain'.hurt)
    BY <1>5, <1>6
  <2>3. Holds(w)'
    BY <1>8, <2>2 DEF Place, Holds
  <2>4. TransitUp(w)' <=> TransitUp(w)
    BY <1>7 DEF TransitUp
  <2>5. Rises(w)'
    BY <1>5, <1>7, <1>8, <2>2, <2>4 DEF Place, Rises
  <2>6. Falls(w)'
    BY <1>7, <1>8, <2>2 DEF Place, Falls, Void
  <2> QED
    BY <2>1, <2>3, <2>5, <2>6 DEF Place
<1>9. PlaceInv'
  BY <1>8 DEF IInv, PlaceInv
<1>10. PICK r \in Nat : r = 0
  OBVIOUS
<1>11. row' = [row EXCEPT ![v] = r] /\ minted' \in [Vpcs -> Nat] /\ pass' \in PassType
  BY <1>0, <1>10
<1> QED
  BY <1>2, <1>3, <1>5, <1>9, <1>10, <1>11, RowStep

\* Whatever is lost.
LEMMA LoseStep ==
  ASSUME IInv, NEW v \in Vpcs, Lose(v)
  PROVE  IInv'
<1>1. CASE /\ dep[1].pod = "up" /\ dep' = [dep EXCEPT ![1].pod = "going"] /\ UNCHANGED <<cr, row>>
           /\ domain' = [domain EXCEPT !.losses = @ - 1]
  BY <1>1, EvictStep DEF Lose
<1>2. CASE /\ cr' = [cr EXCEPT ![1][v]["Subnet"] = NoCR] /\ UNCHANGED <<dep, row>>
           /\ domain' = [domain EXCEPT !.losses = @ - 1]
  BY <1>2, LoseSubnetStep DEF Lose
<1>3. CASE /\ row' = [row EXCEPT ![v] = 0] /\ UNCHANGED <<dep, cr>>
           /\ domain' = [domain EXCEPT !.losses = @ - 1, !.hurt = @ \cup {v}]
  BY <1>3, LoseRowStep DEF Lose
<1> QED
  BY <1>1, <1>2, <1>3 DEF Lose

-----------------------------------------------------------------------------
(* The specification.                                                      *)

\* An object without records.
LEMMA ObjectFields ==
  ASSUME NEW s \in {"live", "deleting", "gone"}, NEW b \in BOOLEAN, NEW h \in Int, NEW o \in Ops,
         NEW r \in Nat, NEW n \in Nat, NEW f \in [Clusters -> [Kinds -> Nat]], NEW g,
         g = [stage |-> s, fin |-> b, hash |-> h, op |-> o, row |-> r, receipts |-> n, recs |-> f]
  PROVE  g \in Object /\ g.row = r /\ g.op = o /\ g.recs = f
  BY DEF Object

\* Nothing exists yet, and every native IC runs.
LEMMA InitInv ==
  ASSUME GlobalInit
  PROVE  IInv
<1>0. domain \in DomainType /\ domain.n \in Nat \ {0} /\ 1 \in Clusters
  <2>1. domain \in DomainType
    BY DomainAssumption DEF GlobalInit
  <2>2. domain.n \in Nat \ {0}
    BY <2>1 DEF DomainType
  <2> QED
    BY <2>1, <2>2 DEF Clusters
<1>1. pass = NoPass /\ pass.at = "idle"
  BY DEF GlobalInit, NoPass
<1>2. pass \in PassType
  BY <1>0, <1>1 DEF NoPass, PassType, Labels
<1>3. ASSUME NEW v \in Vpcs
      PROVE  /\ gvpc[v] \in Object
             /\ gvpc[v].row = 0 /\ gvpc[v].op = ""
             /\ \A c \in Clusters, k \in Kinds : gvpc[v].recs[c][k] = 0
  <2>1. PICK s \in {"live", "deleting", "gone"} : s = IF v \in domain.vpcs THEN "live" ELSE "gone"
    OBVIOUS
  <2>2. PICK f : f = [c \in Clusters |-> [k \in Kinds |-> 0]]
    OBVIOUS
  <2>3. gvpc[v] = [stage |-> s, fin |-> FALSE, hash |-> 0, op |-> "", row |-> 0, receipts |-> 0,
                   recs |-> f]
    BY <2>1, <2>2 DEF GlobalInit
  <2>4. f \in [Clusters -> [Kinds -> Nat]] /\ \A c \in Clusters, k \in Kinds : f[c][k] = 0
    BY <2>2
  <2>5. PICK b \in BOOLEAN : b = FALSE
    OBVIOUS
  <2>6. PICK n \in Nat : n = 0 /\ n \in Int
    OBVIOUS
  <2>7. PICK o \in Ops : o = ""
    BY DEF Ops
  <2>8. PICK g : g = gvpc[v]
    OBVIOUS
  <2>9. g = [stage |-> s, fin |-> b, hash |-> n, op |-> o, row |-> n, receipts |-> n, recs |-> f]
    BY <2>3, <2>5, <2>6, <2>7, <2>8, Zenon
  <2>10. g \in Object /\ g.row = n /\ g.op = o /\ g.recs = f
    BY <2>4, <2>6, <2>9, ObjectFields
  <2> QED
    BY <2>4, <2>6, <2>7, <2>8, <2>10
<1>4. gvpc \in [Vpcs -> Object]
  <2> DEFINE One(v) == [stage |-> IF v \in domain.vpcs THEN "live" ELSE "gone",
                        fin |-> FALSE, hash |-> 0, op |-> "", row |-> 0, receipts |-> 0,
                        recs |-> [c \in Clusters |-> [k \in Kinds |-> 0]]]
  <2>1. gvpc = [v \in Vpcs |-> One(v)]
    BY DEF GlobalInit
  <2> HIDE DEF One
  <2> QED
    BY <1>3, <2>1
<1>5. lock \in [holder : Vpcs \cup {Free}, hash : Int] /\ lock.holder = Free
  <2>1. lock = [holder |-> Free, hash |-> 0]
    BY DEF GlobalInit
  <2> QED
    BY <2>1
<1>6. dep \in [Clusters -> Deployed]
  BY DEF GlobalInit, Deployed
<1>7. NoCR \in Resource /\ NoCR.uid = 0
  BY DEF NoCR, Resource
<1>8. /\ cr \in [Clusters -> [Vpcs -> [Kinds -> Resource]]]
      /\ \A c \in Clusters, v \in Vpcs, k \in Kinds : cr[c][v][k].uid = 0
  BY <1>7 DEF GlobalInit
<1>9. /\ nb \in [Clusters -> [Vpcs -> SUBSET Facts]]
      /\ \A c \in Clusters, v \in Vpcs : nb[c][v] = {}
  BY DEF GlobalInit
<1>10. row \in [Vpcs -> Nat] /\ minted \in [Vpcs -> Nat] /\ \A v \in Vpcs : row[v] = 0
  BY DEF GlobalInit
<1>11. Shapes
  BY <1>0, <1>2, <1>4, <1>5, <1>6, <1>8, <1>9, <1>10 DEF Shapes
<1>12. ASSUME NEW v \in Vpcs PROVE Sound(v)
  <2>1. Bare(v) /\ lock.holder # v
    BY <1>5, <1>8, <1>9, <1>10, DomainAssumption DEF Bare
  <2>2. Recorded(v) /\ Cleaned(v)
    BY <1>3, <2>1 DEF Recorded, Cleaned
  <2>3. Hangs(v) /\ Carried(v)
    BY <1>9, <1>10 DEF Hangs, Carried
  <2>4. Fenced(v)
    BY <1>9, <1>10 DEF Fenced, Torn
  <2> QED
    BY <2>2, <2>3, <2>4 DEF Sound
<1>13. PlaceInv
  BY <1>1 DEF PlaceInv
<1>14. Alone
  BY DomainAssumption DEF GlobalInit, Alone, Guestless
<1> QED
  BY <1>11, <1>12, <1>13, <1>14 DEF IInv

\* Every step keeps the invariant.
LEMMA NextInv ==
  ASSUME IInv, [GlobalNext]_globalVars
  PROVE  IInv'
<1>1. CASE Step
  <2>1. CASE Inspect \/ Reserve \/ Ensure \/ Record \/ Ready \/ Acquire
    BY <2>1, InspectStep, ReserveStep, EnsureStep, RecordStep, ReadyStep, AcquireStep
  <2>2. CASE PauseSets \/ PausePods \/ Mark \/ EnsureTransit \/ Gateways \/ SaveResume
    BY <2>2, PauseSetsStep, PausePodsStep, MarkStep, EnsureTransitStep, GatewaysStep, SaveResumeStep
  <2>3. CASE Resume \/ Unpause \/ Release \/ Finish \/ Link
    BY <2>3, ResumeStep, UnpauseStep, ReleaseStep, FinishStep, LinkStep
  <2>4. CASE Recheck \/ WithdrawRoutes \/ DeleteTransit \/ DeleteSubnets \/ DeleteVpcs \/ SaveDeleteResume
    BY <2>4, RecheckStep, WithdrawStep, DeleteTransitStep, DeletesStep, SaveDeleteResumeStep
  <2> QED
    BY <1>1, <2>1, <2>2, <2>3, <2>4 DEF Step
<1>2. CASE \E v \in Vpcs : Begin(v) \/ UserDelete(v) \/ Join(v) \/ Drain(v) \/ Lose(v)
  BY <1>2, BeginStep, UserDeleteStep, JoinStep, DrainStep, LoseStep
<1>3. CASE \E c \in Clusters : Workload(c) \/ \E v \in Vpcs : KubeOVN(c, v) \/ NativeIC(c, v)
  BY <1>3, WorkloadStep, KubeOVNStep, NativeICStep
<1>4. CASE Crash \/ Edit
  BY <1>4, CrashStep
<1>5. CASE UNCHANGED globalVars
  <2>1. UNCHANGED world /\ pass' \in PassType
    BY <1>5 DEF globalVars, world, IInv, Shapes
  <2>2. PlaceInv'
    BY <1>5, FaultPlace DEF globalVars, SetsQuiet, Stopped
  <2> QED
    BY <2>1, <2>2, MoveStep
<1> QED
  BY <1>1, <1>2, <1>3, <1>4, <1>5 DEF GlobalNext

(***************************************************************************)
(* The invariant holds throughout, whatever is deleted, lost, edited or    *)
(* joined, and wherever the process crashes.                               *)
(***************************************************************************)
THEOREM Invariant == GlobalSpec => []IInv
<1>1. GlobalInit => IInv
  BY InitInv
<1>2. IInv /\ [GlobalNext]_globalVars => IInv'
  BY NextInv
<1> QED
  BY <1>1, <1>2, PTL DEF GlobalSpec

(***************************************************************************)
(* owned and transit: the controller never takes its own row or resources  *)
(* for somebody else's, whatever is lost between a creation and its record.*)
(***************************************************************************)
THEOREM OwnObjectsAccepted == GlobalSpec => []NoFalseConflict
<1>1. ASSUME IInv PROVE NoFalseConflict
  <2>1. ASSUME NEW v \in Vpcs PROVE ~RowForeign(v)
    BY <1>1 DEF IInv, Sound, Recorded, RowForeign, Foreign
  <2>2. ASSUME NEW v \in Vpcs PROVE ~CRForeign(v)
    BY <1>1 DEF IInv, Sound, Recorded, CRForeign, Foreign
  <2> QED
    BY <2>1, <2>2 DEF NoFalseConflict
<1> QED
  BY <1>1, Invariant, PTL

(***************************************************************************)
(* remove: when the finalizer goes, nothing of the VPC is left in any      *)
(* cluster or in the IC database, and the domain is not locked by it.      *)
(***************************************************************************)
THEOREM NothingSurvives == GlobalSpec => []GoneClean
<1>1. IInv => GoneClean
  BY DEF IInv, Sound, Cleaned, Bare, GoneClean
<1> QED
  BY <1>1, Invariant, PTL

(***************************************************************************)
(* DomainGate: without consumers, wherever native IC can still write, a    *)
(* VPC whose objects nobody destroyed has both its row and its marked      *)
(* switch or neither, and no switch twice.  With a consumer it may fail:   *)
(* Recheck leaves the barrier of a removal with the network half made.     *)
(***************************************************************************)
THEOREM BarrierHolds ==
  ASSUME Guestless
  PROVE  GlobalSpec => []Barrier
<1>1. ASSUME IInv PROVE Barrier
  <2>1. SUFFICES ASSUME NEW v \in Vpcs \ domain.hurt, NEW c \in Clusters
                 PROVE  /\ Running(c) => ("mark" \in nb[c][v] <=> row[v] # 0)
                        /\ "dup" \notin nb[c][v]
    BY DEF Barrier
  <2>2. Fenced(v)
    BY <1>1 DEF IInv, Sound
  <2>3. Torn(v) => ~Running(c)
    BY <2>2 DEF Fenced, AllStopped, Stopped, Running
  <2> QED
    BY <2>2, <2>3 DEF Fenced, Torn
<1> QED
  BY <1>1, Invariant, PTL
=============================================================================
