--------------------------- MODULE GatewayProofs ---------------------------
(***************************************************************************)
(* A managed gateway's rollout, for one process and any members,           *)
(* generations, failures and crashes: members are taken out of service one *)
(* at a time, and no Pod loses the configuration it uses.  And its links,  *)
(* for any number of sites, joins and partings: a gateway never runs a     *)
(* link whose other end is not allocated.                                  *)
(***************************************************************************)
EXTENDS GatewayRollout, GatewayDiscovery, FiniteSetTheorems, TLAPS

-----------------------------------------------------------------------------
\* The rollout.

Phases == {"absent", "starting", "ready", "converged", "failed", "recovering", "terminating"}
Labels == {"idle", "read", "config", "pod", "probe", "retire", "prune", "list", "sweep"}
Pod == [gen : Nat, phase : Phases]
Configs == (Members \cup Nat) \X Nat
View == [gen : Nat, pods : [Members -> Pod], i : Nat, changed : BOOLEAN, doomed : SUBSET Configs]

Shapes ==
    /\ setting \in SettingType
    /\ desired \in Nat
    /\ pod \in [Members -> Pod]
    /\ configs \in SUBSET Configs
    /\ at \in [Procs -> Labels]
    /\ seen \in [Procs -> View]

InService == {"converged", "failed", "recovering"}

\* Whatever the one process is about to do.
Local(label, v) ==
    \* a Pod is created only with its configuration in place;
    /\ label = "pod" => <<v.i, v.gen>> \in configs
    \* only the process itself creates Pods, so what it listed can only go away;
    /\ label \in {"list", "sweep"} =>
        \A m \in Members : pod[m] = Absent \/ pod[m].gen = v.pods[m].gen
    /\ label = "sweep" => \A c \in v.doomed : v.pods[c[1]].gen # c[2]
    \* only a Pod that was there is retired;
    /\ label \in {"probe", "retire"} => v.pods[v.i] # Absent
    \* the siblings that passed the probe can fail, but are not taken out.
    /\ label = "retire" => \A j \in Siblings(v.i) : pod[j].phase \in InService

Alone == \A p, q \in Procs : at[p] # "idle" /\ at[q] # "idle" => p = q

OneOut == \A m, n \in Members :
    pod[m].phase \notin InService /\ pod[n].phase \notin InService => m = n

IInv ==
    /\ Shapes
    /\ setting.procs = 1 => /\ Alone /\ OneOut /\ ~Stranded
                            /\ \A p \in Procs : Local(at[p], seen[p])

-----------------------------------------------------------------------------

\* A view with nothing seen, and no Pod, are what they should be.
LEMMA NothingSeen == Absent \in Pod /\ Unseen \in View
<1>1. Absent \in Pod
  BY DEF Absent, Pod, Phases
<1>2. [m \in Members |-> Absent] \in [Members -> Pod]
  BY <1>1
<1> QED
  BY <1>1, <1>2 DEF Unseen, View

\* A connected binding satisfies the invariant.
LEMMA InitInv ==
  ASSUME RolloutInit
  PROVE  IInv
<1>1. Shapes
  <2>1. pod \in [Members -> Pod]
    BY DEF RolloutInit, Pod, Phases
  <2>2. configs \in SUBSET Configs
    BY DEF RolloutInit, Configs
  <2> QED
    BY <2>1, <2>2, NothingSeen, SettingAssumption DEF RolloutInit, Shapes, Labels
<1>2. Alone /\ OneOut /\ \A p \in Procs : Local(at[p], seen[p])
  BY DEF RolloutInit, Alone, OneOut, InService, Local
<1>3. ~Stranded
  BY DEF RolloutInit, Stranded
<1> QED
  BY <1>1, <1>2, <1>3 DEF IInv

\* One step of a pass: nobody else is at work, and what the process is about to do next
\* is sound.
LEMMA PassStep ==
  ASSUME IInv, NEW p \in Procs, NEW label \in Labels, NEW v \in View, Go(p, label, v),
         UNCHANGED <<desired, setting>>, pod' \in [Members -> Pod], configs' \in SUBSET Configs,
         setting.procs = 1 =>
            /\ \A q \in Procs \ {p} : at[q] = "idle"
            /\ Local(label, v)' /\ OneOut' /\ ~Stranded'
  PROVE  IInv'
<1>1. Shapes'
  BY DEF IInv, Shapes, Go
<1>2. \A q \in Procs : /\ at'[q] = IF q = p THEN label ELSE at[q]
                       /\ seen'[q] = IF q = p THEN v ELSE seen[q]
  BY DEF IInv, Shapes, Go
<1>3. CASE setting.procs = 1
  <2>1. Alone'
    BY <1>2, <1>3 DEF Alone
  <2>2. \A q \in Procs : Local(at[q], seen[q])'
    <3>1. ASSUME NEW q \in Procs \ {p} PROVE Local(at[q], seen[q])'
      BY <1>2, <1>3, <3>1 DEF Local
    <3>2. Local(at[p], seen[p])'
      BY <1>2, <1>3 DEF Local
    <3> QED
      BY <3>1, <3>2
  <2> QED
    BY <1>1, <1>3, <2>1, <2>2 DEF IInv
<1> QED
  BY <1>1, <1>3 DEF IInv

\* A process at work is the only one.
LEMMA OthersIdle ==
  ASSUME IInv, NEW p \in Procs, at[p] # "idle", setting.procs = 1
  PROVE  \A q \in Procs \ {p} : at[q] = "idle"
  BY DEF IInv, Alone

\* Every return ends a pass without a trace.
LEMMA ReturnStep ==
  ASSUME IInv, NEW p \in Procs, at[p] # "idle", Return(p),
         UNCHANGED <<desired, setting>>, pod' \in [Members -> Pod], configs' \in SUBSET Configs,
         setting.procs = 1 => OneOut' /\ ~Stranded'
  PROVE  IInv'
<1>1. Local("idle", Unseen)'
  BY DEF Local
<1> QED
  BY <1>1, NothingSeen, OthersIdle, PassStep DEF Return, Labels

\* A step that touches neither Pods nor configurations.
LEMMA MoveStep ==
  ASSUME IInv, NEW p \in Procs, at[p] # "idle", NEW label \in Labels, NEW v \in View, Go(p, label, v),
         UNCHANGED <<desired, setting, pod, configs>>, setting.procs = 1 => Local(label, v)
  PROVE  IInv'
<1>1. pod' \in [Members -> Pod] /\ configs' \in SUBSET Configs
  BY DEF IInv, Shapes
<1>2. setting.procs = 1 => Local(label, v)' /\ OneOut' /\ ~Stranded'
  BY DEF IInv, Local, OneOut, Stranded
<1> QED
  BY <1>1, <1>2, OthersIdle, PassStep

\* The loop goes on to the next member, or to the end, with no claim of its own.
LEMMA ContinueStep ==
  ASSUME IInv, NEW p \in Procs, at[p] # "idle", NEW v \in View, Continue(p, v),
         UNCHANGED <<desired, setting>>, pod' \in [Members -> Pod], configs' \in SUBSET Configs,
         setting.procs = 1 => OneOut' /\ ~Stranded'
  PROVE  IInv'
<1>1. CASE v.i = Cardinality(Members)
  <2>1. Local("prune", v)'
    BY DEF Local
  <2> QED
    BY <1>1, <2>1, OthersIdle, PassStep DEF Continue, Labels
<1>2. CASE v.i # Cardinality(Members)
  <2>1. [v EXCEPT !.i = @ + 1] \in View
    BY DEF View
  <2>2. Local("config", [v EXCEPT !.i = @ + 1])'
    BY DEF Local
  <2> QED
    BY <1>2, <2>1, <2>2, OthersIdle, PassStep DEF Continue, Labels
<1> QED
  BY <1>1, <1>2

\* A pass begins when fewer than the allowed number are at work: alone, if that is one.
LEMMA BeginStep ==
  ASSUME IInv, NEW p \in Procs, Begin(p), UNCHANGED setting
  PROVE  IInv'
<1> DEFINE busy == {q \in Procs : at[q] # "idle"}
           v == [Unseen EXCEPT !.gen = desired]
<1>1. v \in View
  BY NothingSeen DEF IInv, Shapes, View
<1>2. ASSUME setting.procs = 1 PROVE \A q \in Procs \ {p} : at[q] = "idle"
  <2>1. Cardinality(busy) < 1
    BY <1>2 DEF Begin
  <2>2. ASSUME NEW q \in busy PROVE FALSE
    <3>1. busy = {q}
      BY <1>2, <2>2 DEF IInv, Alone
    <3>2. Cardinality(busy) = 1
      BY <3>1, FS_Singleton
    <3> QED
      BY <2>1, <3>2
  <2> QED
    BY <2>2
<1>3. /\ Go(p, "read", v) /\ UNCHANGED <<desired, pod, configs>>
      /\ pod' \in [Members -> Pod] /\ configs' \in SUBSET Configs
  BY DEF Begin, IInv, Shapes
<1>4. setting.procs = 1 => Local("read", v)' /\ OneOut' /\ ~Stranded'
  BY <1>3 DEF IInv, Local, OneOut, Stranded
<1> QED
  BY <1>1, <1>2, <1>3, <1>4, PassStep DEF Labels

\* Reading Pods, one call after the other.
LEMMA ReadPodStep ==
  ASSUME IInv, NEW p \in Procs, ReadPod(p), UNCHANGED setting
  PROVE  IInv'
<1> DEFINE w == [seen[p] EXCEPT !.pods[seen[p].i] = pod[seen[p].i]]
<1>1. at[p] = "read" /\ UNCHANGED <<desired, setting, pod, configs>>
  BY DEF ReadPod
<1>2. w \in View
  <2>1. seen[p] \in View /\ pod \in [Members -> Pod]
    BY DEF IInv, Shapes
  <2>2. [seen[p].pods EXCEPT ![seen[p].i] = pod[seen[p].i]] \in [Members -> Pod]
    BY <2>1 DEF View
  <2> QED
    BY <2>1, <2>2 DEF View
<1> HIDE DEF w
<1>3. [w EXCEPT !.i = @ + 1] \in View /\ [w EXCEPT !.i = 1] \in View
  BY <1>2 DEF View
<1>4. \/ Return(p)
      \/ Go(p, "read", [w EXCEPT !.i = @ + 1])
      \/ Go(p, "config", [w EXCEPT !.i = 1])
  BY DEF ReadPod, w
<1>5. CASE Return(p)
  <2>1. /\ pod' \in [Members -> Pod] /\ configs' \in SUBSET Configs
        /\ setting.procs = 1 => OneOut' /\ ~Stranded'
    BY <1>1 DEF IInv, Shapes, OneOut, Stranded
  <2> QED
    BY <1>1, <1>5, <2>1, ReturnStep
<1>6. \A x : Local("read", x) /\ Local("config", x)
  BY DEF Local
<1> QED
  BY <1>1, <1>3, <1>4, <1>5, <1>6, MoveStep DEF Labels

\* A configuration is added before its Pod.
LEMMA EnsureConfigStep ==
  ASSUME IInv, NEW p \in Procs, EnsureConfig(p), UNCHANGED setting
  PROVE  IInv'
<1>0. PICK v \in View : v = seen[p]
  BY DEF IInv, Shapes
<1>1. /\ at[p] = "config" /\ configs' = configs \cup {<<v.i, v.gen>>}
      /\ UNCHANGED <<desired, pod>> /\ Go(p, "pod", v)
  BY <1>0 DEF EnsureConfig
<1>2. pod' \in [Members -> Pod] /\ configs' \in SUBSET Configs
  BY <1>1 DEF IInv, Shapes, View, Configs
<1>3. Local("pod", v)'
  BY <1>1 DEF Local
<1>4. setting.procs = 1 => OneOut' /\ ~Stranded'
  BY <1>1 DEF IInv, OneOut, Stranded
<1> QED
  BY <1>1, <1>2, <1>3, <1>4, OthersIdle, PassStep DEF Labels

\* The Pod that is created has its configuration, and takes the place of one that was gone.
LEMMA CreatePodStep ==
  ASSUME IInv, NEW p \in Procs, CreatePod(p), UNCHANGED setting
  PROVE  IInv'
<1>0. PICK v \in View : v = seen[p]
  BY DEF IInv, Shapes
<1> DEFINE m == v.i
           new == [gen |-> v.gen, phase |-> "starting"]
<1>1. /\ at[p] = "pod" /\ UNCHANGED <<desired, configs>>
      /\ pod' = IF pod[m] = Absent THEN [pod EXCEPT ![m] = new] ELSE pod
      /\ Continue(p, [v EXCEPT !.changed = TRUE])
  BY <1>0 DEF CreatePod
<1>2. [v EXCEPT !.changed = TRUE] \in View
  BY DEF View
<1>3. new \in Pod
  BY DEF View, Pod, Phases
<1>4. pod' \in [Members -> Pod] /\ configs' \in SUBSET Configs
  BY <1>1, <1>3 DEF IInv, Shapes
<1>5. \A n \in Members : pod'[n] = pod[n] \/ (n = m /\ pod[n] = Absent /\ pod'[n] = new)
  BY <1>1 DEF IInv, Shapes
<1>6. ASSUME setting.procs = 1 PROVE OneOut' /\ ~Stranded'
  <2>1. <<m, v.gen>> \in configs /\ OneOut /\ ~Stranded
    BY <1>0, <1>1, <1>6 DEF IInv, Local
  <2>2. OneOut'
    BY <1>5, <2>1 DEF OneOut, Absent, InService
  <2>3. ~Stranded'
    <3> SUFFICES ASSUME NEW n \in Members, pod'[n] # Absent
                 PROVE  <<n, pod'[n].gen>> \in configs
      BY <1>1 DEF Stranded
    <3>1. CASE pod'[n] = pod[n]
      BY <2>1, <3>1 DEF Stranded
    <3>2. CASE n = m /\ pod'[n] = new
      <4>1. pod'[n].gen = v.gen
        BY <3>2
      <4> QED
        BY <2>1, <3>2, <4>1
    <3> QED
      BY <1>5, <3>1, <3>2
  <2> QED
    BY <2>2, <2>3
<1> QED
  BY <1>1, <1>2, <1>4, <1>6, ContinueStep

\* Examining a Pod changes nothing.
LEMMA ExaminePodStep ==
  ASSUME IInv, NEW p \in Procs, ExaminePod(p), UNCHANGED setting
  PROVE  IInv'
<1>0. PICK v \in View : v = seen[p]
  BY DEF IInv, Shapes
<1>1. at[p] = "pod" /\ UNCHANGED <<desired, setting, pod, configs>>
  BY DEF ExaminePod
<1>2. /\ pod' \in [Members -> Pod] /\ configs' \in SUBSET Configs
      /\ setting.procs = 1 => OneOut' /\ ~Stranded'
  BY <1>1 DEF IInv, Shapes, OneOut, Stranded
<1>3. [v EXCEPT !.changed = TRUE] \in View
  BY DEF View
<1>4. \/ Continue(p, [v EXCEPT !.changed = TRUE]) \/ Continue(p, v)
      \/ Return(p) \/ Go(p, "probe", v)
  BY <1>0 DEF ExaminePod
<1>5. CASE Go(p, "probe", v)
  <2>1. Local("probe", v)
    BY <1>0 DEF Local, ExaminePod
  <2> QED
    BY <1>1, <1>5, <2>1, MoveStep DEF Labels
<1> QED
  BY <1>1, <1>2, <1>3, <1>4, <1>5, ContinueStep, ReturnStep

\* The probe finds every sibling converged.
LEMMA ProbeStep ==
  ASSUME IInv, NEW p \in Procs, Probe(p), UNCHANGED setting
  PROVE  IInv'
<1>0. PICK v \in View : v = seen[p]
  BY DEF IInv, Shapes
<1>1. at[p] = "probe" /\ UNCHANGED <<desired, setting, pod, configs>>
  BY DEF Probe
<1>2. CASE Probed(v.i)
  <2>1. setting.procs = 1 => Local("retire", v)
    <3>1. setting.procs = 1 => v.pods[v.i] # Absent
      BY <1>0, <1>1 DEF IInv, Local
    <3> QED
      BY <1>2, <3>1 DEF Local, Probed, Healthy, InService
  <2> QED
    BY <1>0, <1>1, <1>2, <2>1, MoveStep DEF Probe, Labels
<1>3. CASE ~Probed(v.i)
  <2>1. /\ pod' \in [Members -> Pod] /\ configs' \in SUBSET Configs
        /\ setting.procs = 1 => OneOut' /\ ~Stranded'
    BY <1>1 DEF IInv, Shapes, OneOut, Stranded
  <2> QED
    BY <1>0, <1>1, <1>3, <2>1, ReturnStep DEF Probe
<1> QED
  BY <1>2, <1>3

\* The Pod that is retired is the only one out of service: its siblings passed the probe
\* and nobody else retires Pods.
LEMMA RetirePodStep ==
  ASSUME IInv, NEW p \in Procs, RetirePod(p), UNCHANGED setting
  PROVE  IInv'
<1>0. PICK v \in View : v = seen[p]
  BY DEF IInv, Shapes
<1> DEFINE m == v.i
<1>1. /\ at[p] = "retire" /\ Return(p) /\ UNCHANGED <<desired, configs>>
      /\ \/ pod' = pod
         \/ SamePod(v, m) /\ pod' = [pod EXCEPT ![m].phase = "terminating"]
  BY <1>0 DEF RetirePod
<1>2. pod' \in [Members -> Pod] /\ configs' \in SUBSET Configs
  BY <1>1 DEF IInv, Shapes, Pod, Phases
<1>3. \A n \in Members : /\ pod'[n].gen = pod[n].gen
                         /\ n # m => pod'[n] = pod[n]
                         /\ pod'[n] = pod[n] \/ pod'[n].phase = "terminating"
  BY <1>1 DEF IInv, Shapes, Pod
<1>4. ASSUME setting.procs = 1 PROVE OneOut' /\ ~Stranded'
  <2>1. /\ OneOut /\ ~Stranded
        /\ \A j \in Members : j # m => pod[j].phase \in InService
    BY <1>0, <1>1, <1>4 DEF IInv, Local, Siblings
  <2>2. OneOut'
    BY <1>3, <2>1 DEF OneOut
  <2>3. CASE pod' = pod
    BY <1>1, <2>1, <2>2, <2>3 DEF Stranded
  <2>4. CASE pod[m] # Absent
    BY <1>1, <1>3, <2>1, <2>2, <2>4 DEF Stranded
  <2>5. v.pods[m] # Absent
    BY <1>0, <1>1, <1>4 DEF IInv, Local
  <2> QED
    BY <1>1, <2>2, <2>3, <2>4, <2>5 DEF SamePod
<1> QED
  BY <1>1, <1>2, <1>4, ReturnStep

\* What ListPods has seen is what there is; later a Pod can only go away.
LEMMA ListPodsStep ==
  ASSUME IInv, NEW p \in Procs, ListPods(p), UNCHANGED setting
  PROVE  IInv'
<1> DEFINE v == [seen[p] EXCEPT !.pods = pod]
<1>1. at[p] = "prune" /\ UNCHANGED <<desired, setting, pod, configs>> /\ Go(p, "list", v)
  BY DEF ListPods
<1>2. v \in View /\ v.pods = pod
  BY DEF IInv, Shapes, View
<1>3. Local("list", v)
  BY <1>2 DEF Local
<1> HIDE DEF v
<1> QED
  BY <1>1, <1>2, <1>3, MoveStep DEF Labels

\* The configurations to be deleted belong to no listed Pod.
LEMMA ListConfigsStep ==
  ASSUME IInv, NEW p \in Procs, ListConfigs(p), UNCHANGED setting
  PROVE  IInv'
<1> DEFINE w == [seen[p] EXCEPT !.doomed = Unused(seen[p])]
<1>1. at[p] = "list" /\ UNCHANGED <<desired, setting, pod, configs>> /\ Go(p, "sweep", w)
  BY DEF ListConfigs
<1>2. /\ Unused(seen[p]) \subseteq configs
      /\ \A c \in Unused(seen[p]) : seen[p].pods[c[1]].gen # c[2]
  BY DEF Unused
<1>3. w \in View /\ w.doomed = Unused(seen[p]) /\ w.pods = seen[p].pods
  BY <1>2 DEF IInv, Shapes, View
<1>4. setting.procs = 1 => Local("list", seen[p])
  BY <1>1 DEF IInv
<1> HIDE DEF w
<1>5. setting.procs = 1 => Local("sweep", w)
  BY <1>2, <1>3, <1>4 DEF Local
<1> QED
  BY <1>1, <1>3, <1>5, MoveStep DEF Labels

\* A Pod that is still there is one that was listed, so its configuration stays.
LEMMA DeleteConfigStep ==
  ASSUME IInv, NEW p \in Procs, DeleteConfig(p), UNCHANGED setting
  PROVE  IInv'
<1>0. PICK v \in View : v = seen[p]
  BY DEF IInv, Shapes
<1>1. at[p] = "sweep" /\ UNCHANGED <<desired, pod>>
  BY DEF DeleteConfig
<1>2. CASE v.doomed = {}
  <2>1. Return(p) /\ UNCHANGED configs
    BY <1>0, <1>2 DEF DeleteConfig
  <2>2. /\ pod' \in [Members -> Pod] /\ configs' \in SUBSET Configs
        /\ setting.procs = 1 => OneOut' /\ ~Stranded'
    BY <1>1, <2>1 DEF IInv, Shapes, OneOut, Stranded
  <2> QED
    BY <1>1, <2>1, <2>2, ReturnStep
<1>3. CASE v.doomed # {}
  <2>1. PICK c \in v.doomed : /\ configs' = configs \ {c}
                              /\ Go(p, "sweep", [v EXCEPT !.doomed = @ \ {c}])
    BY <1>0, <1>3 DEF DeleteConfig
  <2>2. PICK w \in View : /\ w = [v EXCEPT !.doomed = @ \ {c}]
                          /\ w.doomed \subseteq v.doomed /\ w.pods = v.pods
    <3>1. [v EXCEPT !.doomed = @ \ {c}] \in View
      BY DEF View
    <3>2. [v EXCEPT !.doomed = @ \ {c}].doomed = v.doomed \ {c} /\ [v EXCEPT !.doomed = @ \ {c}].pods = v.pods
      BY DEF View
    <3> QED
      BY <3>1, <3>2
  <2>3. pod' \in [Members -> Pod] /\ configs' \in SUBSET Configs
    BY <1>1, <2>1 DEF IInv, Shapes
  <2>4. ASSUME setting.procs = 1 PROVE Local("sweep", w)' /\ OneOut' /\ ~Stranded'
    <3>1. Local("sweep", v) /\ OneOut /\ ~Stranded
      BY <1>0, <1>1, <2>4 DEF IInv
    <3>2. Local("sweep", w)' /\ OneOut'
      BY <1>1, <2>2, <3>1 DEF Local, OneOut
    <3>3. ASSUME NEW m \in Members, pod[m] # Absent PROVE <<m, pod[m].gen>> # c
      <4>1. v.pods[c[1]].gen # c[2] /\ pod[m].gen = v.pods[m].gen
        BY <3>1, <3>3 DEF Local
      <4>2. CASE c = <<m, pod[m].gen>>
        <5>1. c[1] = m /\ c[2] = pod[m].gen
          BY <4>2
        <5> QED
          BY <4>1, <5>1
      <4> QED
        BY <4>2
    <3>4. ~Stranded'
      BY <1>1, <2>1, <3>1, <3>3 DEF Stranded
    <3> QED
      BY <3>2, <3>4
  <2> QED
    BY <1>1, <2>1, <2>2, <2>3, <2>4, OthersIdle, PassStep DEF Labels
<1> QED
  BY <1>2, <1>3

-----------------------------------------------------------------------------
(* Kubelet, peers, users and faults *)

\* A Pod keeps its generation until it is gone, and never leaves service by itself.
Aged(x, y) ==
    \/ y = Absent /\ x.phase \notin InService
    \/ /\ x # Absent /\ y.gen = x.gen
       /\ x.phase \in InService => y.phase \in InService

\* Whatever happens to Pods outside of the passes preserves the invariant.
LEMMA OutsideStep ==
  ASSUME IInv, NEW m \in Members, NEW y \in Pod, Aged(pod[m], y), pod' = [pod EXCEPT ![m] = y],
         setting' \in SettingType, setting'.procs = setting.procs, UNCHANGED <<desired, configs, at, seen>>
  PROVE  IInv'
<1>1. Shapes'
  BY DEF IInv, Shapes
<1>2. \A n \in Members : pod'[n] = pod[n] \/ Aged(pod[n], pod'[n])
  BY DEF IInv, Shapes
<1>3. ASSUME setting.procs = 1
      PROVE  (Alone /\ OneOut /\ ~Stranded)' /\ \A p \in Procs : Local(at[p], seen[p])'
  <2>1. Alone /\ OneOut /\ ~Stranded /\ \A p \in Procs : Local(at[p], seen[p])
    BY <1>3 DEF IInv
  <2>2. Alone' /\ OneOut'
    BY <1>2, <2>1 DEF Alone, OneOut, Aged
  <2>3. ~Stranded'
    <3> SUFFICES ASSUME NEW n \in Members, pod'[n] # Absent
                 PROVE  <<n, pod'[n].gen>> \in configs
      BY DEF Stranded
    <3>1. pod[n] # Absent /\ pod'[n].gen = pod[n].gen
      BY <1>2 DEF Aged
    <3>2. <<n, pod[n].gen>> \in configs
      BY <2>1, <3>1 DEF Stranded
    <3> QED
      BY <3>1, <3>2
  <2>4. ASSUME NEW p \in Procs PROVE Local(at[p], seen[p])'
    BY <1>2, <2>1 DEF Local, Aged, Siblings
  <2> QED
    BY <2>2, <2>3, <2>4
<1> QED
  BY <1>1, <1>3 DEF IInv

\* The phases a Pod moves through.
LEMMA MoveAges ==
  ASSUME Shapes, NEW m \in Members, NEW from \in Phases \ {"absent"}, NEW to \in Phases \ {"absent"},
         from \in InService => to \in InService, Move(m, from, to)
  PROVE  \E y \in Pod : Aged(pod[m], y) /\ pod' = [pod EXCEPT ![m] = y]
<1> DEFINE y == [gen |-> pod[m].gen, phase |-> to]
<1>1. pod[m] \in Pod /\ pod[m].phase = from /\ pod' = [pod EXCEPT ![m].phase = to]
  BY DEF Move, Shapes
<1>2. pod[m] # Absent
  BY <1>1 DEF Absent
<1>3. y \in Pod /\ Aged(pod[m], y)
  BY <1>1, <1>2 DEF Pod, Aged
<1>4. [pod[m] EXCEPT !.phase = to] = y
  BY <1>1 DEF Pod
<1>5. pod' = [pod EXCEPT ![m] = y]
  BY <1>1, <1>4
<1> QED
  BY <1>3, <1>5

\* Kubelet starts, restarts and removes Pods.
LEMMA KubeletStep ==
  ASSUME IInv, NEW m \in Members, Kubelet(m)
  PROVE  IInv'
<1>1. UNCHANGED <<desired, configs, at, seen, setting>> /\ Shapes /\ setting' \in SettingType
  BY DEF Kubelet, IInv, Shapes
<1>2. CASE pod[m].phase = "terminating" /\ pod' = [pod EXCEPT ![m] = Absent]
  <2>1. Aged(pod[m], Absent)
    BY <1>2 DEF Aged, InService
  <2> QED
    BY <1>1, <1>2, <2>1, NothingSeen, OutsideStep
<1>3. CASE \/ Move(m, "starting", "ready") \/ Move(m, "ready", "converged")
           \/ Move(m, "failed", "recovering") \/ Move(m, "recovering", "converged")
  <2>1. \E y \in Pod : Aged(pod[m], y) /\ pod' = [pod EXCEPT ![m] = y]
    BY <1>1, <1>3, MoveAges DEF Phases, InService
  <2> QED
    BY <1>1, <2>1, OutsideStep
<1> QED
  BY <1>2, <1>3 DEF Kubelet

\* A failure takes a member out of service for its own reason.
LEMMA FailStep ==
  ASSUME IInv, Fail
  PROVE  IInv'
<1>1. PICK m \in Members : Move(m, "ready", "failed") \/ Move(m, "converged", "failed")
  BY DEF Fail
<1>2. UNCHANGED <<desired, configs, at, seen>> /\ Shapes
  BY DEF Fail, IInv
<1>3. setting' \in SettingType /\ setting'.procs = setting.procs
  BY <1>2 DEF Fail, Shapes, SettingType
<1>4. \E y \in Pod : Aged(pod[m], y) /\ pod' = [pod EXCEPT ![m] = y]
  BY <1>1, <1>2, MoveAges DEF Phases, InService
<1> QED
  BY <1>2, <1>3, <1>4, OutsideStep

\* New generations, answers of peers and crashes touch no Pod.
LEMMA EventStep ==
  ASSUME IInv, Change \/ Answer \/ Crash
  PROVE  IInv'
<1>1. UNCHANGED <<pod, configs>> /\ Shapes
  BY DEF Change, Answer, Crash, IInv
<1>2. setting' \in SettingType /\ setting'.procs = setting.procs /\ desired' \in Nat
  BY <1>1 DEF Change, Answer, Crash, Shapes, SettingType
<1>3. CASE UNCHANGED <<at, seen>>
  BY <1>1, <1>2, <1>3 DEF IInv, Shapes, Alone, OneOut, Stranded, Local
<1>4. CASE Crash
  <2>1. PICK p \in Procs : at[p] # "idle" /\ Return(p)
    BY <1>4 DEF Crash
  <2>2. \A q \in Procs : at'[q] = (IF q = p THEN "idle" ELSE at[q]) /\ (q # p => seen'[q] = seen[q])
    BY <1>1, <2>1 DEF Return, Go, Shapes
  <2>3. Shapes'
    BY <1>1, <1>2, <2>1, NothingSeen DEF Return, Go, Shapes, Labels
  <2>4. setting.procs = 1 => Alone' /\ OneOut' /\ ~Stranded'
    BY <1>1, <2>2 DEF IInv, Alone, OneOut, Stranded
  <2>5. ASSUME setting.procs = 1, NEW q \in Procs PROVE Local(at[q], seen[q])'
    BY <1>1, <2>2, <2>5 DEF IInv, Local
  <2> QED
    BY <1>2, <2>3, <2>4, <2>5 DEF IInv
<1> QED
  BY <1>3, <1>4 DEF Change, Answer

\* Every step of passes, Pods, users and faults preserves the invariant.
LEMMA NextInv == IInv /\ [RolloutNext]_rolloutVars => IInv'
<1> SUFFICES ASSUME IInv, [RolloutNext]_rolloutVars PROVE IInv'
  OBVIOUS
<1>1. ASSUME NEW p \in Procs, Pass(p) PROVE IInv'
  BY <1>1, BeginStep, ReadPodStep, EnsureConfigStep, CreatePodStep, ExaminePodStep, ProbeStep,
     RetirePodStep, ListPodsStep, ListConfigsStep, DeleteConfigStep DEF Pass, Step
<1>2. CASE UNCHANGED rolloutVars
  BY <1>2 DEF rolloutVars, IInv, Shapes, Alone, OneOut, Stranded, Local
<1> QED
  BY <1>1, <1>2, KubeletStep, FailStep, EventStep DEF RolloutNext

\* The inductive invariant of the rollout (managedgateway.Ensure).
THEOREM Invariant == RolloutSpec => []IInv
<1>1. RolloutInit => IInv
  BY InitInv
<1> QED
  BY <1>1, NextInv, PTL DEF RolloutSpec

\* pruneConfigs and verifyPod: with one process, no Pod ever loses the configuration it
\* runs or is about to mount, whatever is pruned while Pods come and go.
THEOREM ConfigsKept == RolloutSpec => []ConfigInUse
<1>1. IInv => ConfigInUse
  BY DEF IInv, ConfigInUse
<1> QED
  BY <1>1, Invariant, PTL

\* Ensure: with one process, at most one member is out of service for any other reason
\* than its own failure, whatever fails, crashes or changes on the way.
THEOREM OneMemberOut == RolloutSpec => [](setting.procs = 1 => OneAtATime)
<1>1. ASSUME IInv, setting.procs = 1 PROVE OneAtATime
  <2> DEFINE out == {m \in Members : pod[m].phase \notin {"converged", "failed", "recovering"}}
  <2>1. \A m, n \in out : m = n
    BY <1>1 DEF IInv, OneOut, InService
  <2>2. CASE out = {}
    BY <2>2, FS_EmptySet DEF OneAtATime
  <2>3. ASSUME NEW m \in out PROVE OneAtATime
    <3>1. out = {m}
      BY <2>1, <2>3
    <3>2. Cardinality(out) = 1
      BY <3>1, FS_Singleton
    <3> QED
      BY <3>2 DEF OneAtATime
  <2> QED
    BY <2>2, <2>3
<1> QED
  BY <1>1, Invariant, PTL

-----------------------------------------------------------------------------
\* The links between the sites.

Link == [site : Sites, id : Nat]
Member == [id : Nat, links : SUBSET Link]
Peer == [site : Sites, id : Nat, links : SUBSET Link]
Snapshot == [remote : BOOLEAN, peers : SUBSET Peer, pairs : SUBSET SUBSET Nat]

LinkShapes ==
    /\ ids \in Nat
    /\ published \in [Sites -> Member]
    /\ snapshot \in [Sites -> Snapshot]
    /\ listed = << >> \/ listed \in [Sites -> Member]
    /\ running \in [Sites -> SUBSET Link]

\* A listed status: drawn before, and nothing its member has withdrawn since.
Outlived(t, x) ==
    /\ x.id <= ids
    /\ x.id # 0 /\ published[t].id = x.id => x.links \subseteq published[t].links

ListedInv == listed # << >> => \A t \in Sites : Outlived(t, listed[t])

\* A peer in a spec is a listed status cut down to one reader.
PeersInv == \A s \in Sites : \A p \in snapshot[s].peers :
    p.site # s /\ p.id # 0 /\ Outlived(p.site, p)

RunningInv == \A s \in Sites :
    /\ published[s].id <= ids
    /\ published[s].id = 0 => running[s] = {}
    /\ \A l \in running[s] : l.site # s /\ l.id # 0 /\ l.id <= ids

LinkInv == LinkShapes /\ ListedInv /\ PeersInv /\ RunningInv /\ Reciprocal

-----------------------------------------------------------------------------

\* Nothing is published, listed or running at first.
LEMMA InitLinks == DiscoveryInit => LinkInv
  BY DEF DiscoveryInit, Nobody, Parted, LinkInv, LinkShapes, Member, Snapshot, Link, ListedInv, PeersInv,
         RunningInv, Reciprocal

\* What Build makes of listed statuses for site s: peers at other sites, each as it was
\* listed, with the links that concern s.
LEMMA WantPeers ==
  ASSUME LinkShapes, ListedInv, listed # << >>, NEW s \in Sites
  PROVE  /\ Want(s) \in Snapshot
         /\ \A p \in Want(s).peers : p.site # s /\ p.id # 0 /\ Outlived(p.site, p)
<1> DEFINE others == {t \in Sites \ {s} : listed[t].id # 0}
           peer(t) == [site |-> t, id |-> listed[t].id, links |-> {l \in listed[t].links : l.site = s}]
           peers == {peer(t) : t \in others}
           pairs == IF native /\ listed[s].id # 0 THEN {{listed[s].id, p.id} : p \in peers} ELSE {}
<1>1. listed \in [Sites -> Member]
  BY DEF LinkShapes
<1>2. \A t \in others : peer(t) \in Peer
  BY <1>1 DEF Member, Peer
<1>3. \A t \in others : peer(t).site # s /\ peer(t).id # 0 /\ Outlived(peer(t).site, peer(t))
  BY <1>1 DEF ListedInv, Outlived, Member
<1>4. pairs \in SUBSET SUBSET Nat
  BY <1>1, <1>2 DEF Member, Peer
<1>5. CASE ~joined
  BY <1>5 DEF Want, Parted, Snapshot
<1>6. CASE joined
  <2>1. Want(s) = [remote |-> TRUE, peers |-> peers, pairs |-> pairs]
    BY <1>6 DEF Want
  <2> QED
    BY <1>2, <1>3, <1>4, <2>1 DEF Snapshot
<1> QED
  BY <1>5, <1>6

\* A pass of the authority lists the statuses as they are.
LEMMA ListStep == ASSUME LinkInv, ListStatuses PROVE LinkInv'
  BY DEF ListStatuses, LinkInv, LinkShapes, ListedInv, PeersInv, RunningInv, Reciprocal, Outlived, Member

\* It writes what it listed into one spec, however old that is by now.
LEMMA WriteStep ==
  ASSUME LinkInv, WriteSpec
  PROVE  LinkInv'
<1>1. UNCHANGED <<joined, native, published, running, ids>> /\ listed' = << >> /\ listed # << >>
  BY DEF WriteSpec
<1>2. /\ ListedInv' /\ RunningInv' /\ Reciprocal'
      /\ \A t, x : Outlived(t, x) => Outlived(t, x)'
  BY <1>1 DEF LinkInv, ListedInv, RunningInv, Reciprocal, Outlived
<1>3. CASE UNCHANGED snapshot
  BY <1>1, <1>2, <1>3 DEF LinkInv, LinkShapes, PeersInv, Outlived
<1>4. ASSUME NEW s \in Sites, snapshot' = [snapshot EXCEPT ![s] = Want(s)]
      PROVE  LinkInv'
  <2>1. /\ Want(s) \in Snapshot
        /\ \A p \in Want(s).peers : p.site # s /\ p.id # 0 /\ Outlived(p.site, p)
    BY <1>1, WantPeers DEF LinkInv
  <2>2. LinkShapes'
    BY <1>1, <1>4, <2>1 DEF LinkInv, LinkShapes
  <2>3. \A t \in Sites : snapshot'[t] = IF t = s THEN Want(s) ELSE snapshot[t]
    BY <1>4 DEF LinkInv, LinkShapes
  <2>4. PeersInv'
    BY <1>2, <2>1, <2>3 DEF LinkInv, PeersInv
  <2> QED
    BY <1>2, <2>2, <2>4 DEF LinkInv
<1> QED
  BY <1>3, <1>4 DEF WriteSpec

\* linkClaims allocates links to members at sites.
LEMMA LinkedTo ==
  ASSUME LinkInv, NEW s \in Sites, NEW i
  PROVE  Linked(s, i) \subseteq Link
<1>1. snapshot[s].peers \subseteq Peer
  BY DEF LinkInv, LinkShapes, Snapshot
<1>2. \A p \in snapshot[s].peers : [site |-> p.site, id |-> p.id] \in Link
  BY <1>1 DEF Peer, Link
<1>3. ASSUME NEW l \in Linked(s, i)
      PROVE  \E p \in snapshot[s].peers : l = [site |-> p.site, id |-> p.id]
  BY <1>3 DEF Linked
<1> QED
  BY <1>2, <1>3

\* A status grows, or names a member nobody has heard of: whatever was copied from it
\* before still holds of it.
LEMMA RegisterStep ==
  ASSUME LinkInv, NEW s \in Sites, Register(s)
  PROVE  LinkInv'
<1> DEFINE id == IF published[s].id = 0 THEN ids + 1 ELSE published[s].id
           new == [id |-> id, links |-> published[s].links \cup Linked(s, id)]
<1>1. /\ published' = [published EXCEPT ![s] = new]
      /\ ids' = IF published[s].id = 0 THEN ids + 1 ELSE ids
      /\ UNCHANGED <<native, snapshot, listed, running>>
  BY DEF Register
<1>2. Linked(s, id) \subseteq Link
  BY LinkedTo
<1>3. id \in Nat /\ new \in Member
  BY <1>2 DEF LinkInv, LinkShapes, Member
<1>4. LinkShapes'
  BY <1>1, <1>3 DEF LinkInv, LinkShapes
<1>5. /\ \A t \in Sites : published'[t] = IF t = s THEN new ELSE published[t]
      /\ ids' \in Nat /\ ids <= ids'
      /\ published[s].id = 0 => id = ids + 1
      /\ published[s].id # 0 => id = published[s].id
      /\ published[s].links \subseteq new.links /\ new.id = id /\ id # 0
  BY <1>1 DEF LinkInv, LinkShapes, Member
<1> HIDE DEF id, new
<1>6. ASSUME NEW t \in Sites, NEW x \in [id : Nat, links : SUBSET Link] \cup Peer, Outlived(t, x)
      PROVE  Outlived(t, x)'
  <2>1. x.id \in Nat
    BY DEF Peer
  <2> QED
    BY <1>5, <1>6, <2>1 DEF Outlived, LinkInv, LinkShapes
<1>7. ListedInv'
  BY <1>1, <1>6 DEF LinkInv, LinkShapes, ListedInv, Member
<1>8. PeersInv'
  BY <1>1, <1>6 DEF LinkInv, LinkShapes, PeersInv, Snapshot, Peer
<1>9. RunningInv'
  BY <1>1, <1>5 DEF LinkInv, LinkShapes, RunningInv, Member, Link
<1>10. Reciprocal'
  <2> SUFFICES ASSUME NEW t \in Sites, NEW l \in running[t], published'[l.site].id = l.id
               PROVE  [site |-> t, id |-> published'[t].id] \in published'[l.site].links
    BY <1>1 DEF Reciprocal
  <2>1. l.site \in Sites /\ l.id \in Nat /\ l.id <= ids
    BY DEF LinkInv, LinkShapes, Link, RunningInv
  <2>2. published[l.site].id = l.id
    BY <1>5, <2>1 DEF LinkInv, LinkShapes
  <2>3. published'[t].id = published[t].id
    BY <1>5 DEF LinkInv, RunningInv
  <2>4. [site |-> t, id |-> published[t].id] \in published[l.site].links
    BY <2>2 DEF LinkInv, Reciprocal
  <2> QED
    BY <1>5, <2>1, <2>3, <2>4
<1> QED
  BY <1>4, <1>7, <1>8, <1>9, <1>10 DEF LinkInv

\* render has seen the other end of every link, and a status never takes a link back.
LEMMA DeployStep ==
  ASSUME LinkInv, NEW s \in Sites, Deploy(s)
  PROVE  LinkInv'
<1> DEFINE mine == {[site |-> p.site, id |-> p.id] : p \in snapshot[s].peers}
<1>1. /\ running' = [running EXCEPT ![s] = mine]
      /\ UNCHANGED <<native, published, snapshot, listed, ids>>
      /\ published[s].id # 0
  BY DEF Deploy
<1>2. \A t \in Sites : running'[t] = IF t = s THEN mine ELSE running[t]
  BY <1>1 DEF LinkInv, LinkShapes
<1>3. LinkShapes'
  <2>1. mine \subseteq Link
    BY DEF LinkInv, LinkShapes, Snapshot, Peer, Link
  <2> QED
    BY <1>1, <2>1 DEF LinkInv, LinkShapes
<1>4. ListedInv' /\ PeersInv'
  BY <1>1 DEF LinkInv, ListedInv, PeersInv, Outlived
<1>5. RunningInv'
  BY <1>1, <1>2 DEF LinkInv, RunningInv, PeersInv, Outlived
<1>6. ASSUME NEW p \in snapshot[s].peers, published[p.site].id = p.id
      PROVE  [site |-> s, id |-> published[s].id] \in published[p.site].links
  BY <1>6 DEF Deploy, Complete, LinkInv, PeersInv, Outlived
<1>7. Reciprocal'
  BY <1>1, <1>2, <1>6 DEF LinkInv, Reciprocal
<1> QED
  BY <1>3, <1>4, <1>5, <1>7 DEF LinkInv

\* A site that parts forgets its member; the IDs still on the way never come back.
LEMMA RetireStep ==
  ASSUME LinkInv, NEW s \in Sites, Retire(s)
  PROVE  LinkInv'
<1>1. /\ published' = [published EXCEPT ![s] = Nobody]
      /\ running' = [running EXCEPT ![s] = {}]
      /\ UNCHANGED <<native, snapshot, listed, ids>>
  BY DEF Retire
<1>2. \A t \in Sites : /\ published'[t] = IF t = s THEN Nobody ELSE published[t]
                       /\ running'[t] = IF t = s THEN {} ELSE running[t]
  BY <1>1 DEF LinkInv, LinkShapes
<1>3. LinkShapes'
  BY <1>1 DEF LinkInv, LinkShapes, Nobody, Member
<1>4. ASSUME NEW t \in Sites, NEW x, Outlived(t, x) PROVE Outlived(t, x)'
  BY <1>1, <1>2, <1>4 DEF Outlived, Nobody
<1>5. ListedInv'
  BY <1>1, <1>4 DEF LinkInv, ListedInv
<1>6. PeersInv'
  BY <1>1, <1>4 DEF LinkInv, LinkShapes, PeersInv, Snapshot, Peer
<1>7. RunningInv'
  BY <1>1, <1>2 DEF LinkInv, LinkShapes, RunningInv, Nobody
<1>8. Reciprocal'
  BY <1>2 DEF LinkInv, LinkShapes, RunningInv, Reciprocal, Nobody, Link
<1> QED
  BY <1>3, <1>5, <1>6, <1>7, <1>8 DEF LinkInv

\* Every step of sites and authority preserves the invariant.
LEMMA NextLinks == LinkInv /\ [DiscoveryNext]_discoveryVars => LinkInv'
<1> SUFFICES ASSUME LinkInv, [DiscoveryNext]_discoveryVars PROVE LinkInv'
  OBVIOUS
<1>1. CASE Toggle \/ UNCHANGED discoveryVars
  <2>1. UNCHANGED <<native, published, snapshot, listed, running, ids>>
    BY <1>1 DEF Toggle, discoveryVars
  <2> QED
    BY <2>1 DEF LinkInv, LinkShapes, ListedInv, PeersInv, RunningInv, Reciprocal, Outlived
<1> QED
  BY <1>1, ListStep, WriteStep, RegisterStep, DeployStep, RetireStep DEF DiscoveryNext

\* The inductive invariant holds of every behaviour of sites and authority.
THEOREM LinksInvariant == DiscoverySpec => []LinkInv
  BY InitLinks, NextLinks, PTL DEF DiscoverySpec

\* Statuses, specs and running links name members that were drawn, at other sites.
THEOREM LinksTyped == DiscoverySpec => []DiscoveryTypeOK
<1>1. LinkInv => DiscoveryTypeOK
  BY DEF LinkInv, LinkShapes, Member, Snapshot, Peer, Link, PeersInv, RunningInv, Outlived, DiscoveryTypeOK
<1> QED
  BY LinksInvariant, <1>1, PTL

\* render: no link runs before its other end is allocated, for any number of sites,
\* through every join and parting and with every delay of specs and statuses.
THEOREM EndsMeet == DiscoverySpec => []Reciprocal
<1>1. LinkInv => Reciprocal
  BY DEF LinkInv
<1> QED
  BY LinksInvariant, <1>1, PTL
=============================================================================
