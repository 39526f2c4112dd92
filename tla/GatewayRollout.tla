--------------------------- MODULE GatewayRollout ---------------------------
(***************************************************************************)
(* How the managed gateway members of one binding get their Pods and move  *)
(* from one runtime generation to the next (the second half of             *)
(* managedgateway.Ensure): immutable per-generation ConfigMaps, one Pod    *)
(* per member, replaced one at a time behind readiness and a native probe, *)
(* and the removal of unused configurations.                               *)
(*                                                                         *)
(* A generation stands for the hash of a member's rendered configuration,  *)
(* runtime files and image; equal content is the same generation.          *)
(***************************************************************************)
EXTENDS Integers, FiniteSets

CONSTANTS
    Procs,       \* operator processes; two run only while leadership moves
    Members,     \* the members of the ledger, 1..Replicas
    Settings     \* the worlds to start in: see setting

SettingType == [procs : Nat, next : SUBSET Nat, bad : SUBSET Nat, failures : Int, crashes : Int]
ASSUME SettingAssumption == Settings \subseteq SettingType

VARIABLES
    desired,     \* the generation the current snapshot renders to
    answered,    \* generations whose peers have published reciprocal links
    pod,         \* the Pod of every member
    configs,     \* the runtime ConfigMaps that exist, as <<member, generation>>
    at, seen,    \* where a process is in Ensure, and what it has read
    setting      \* [procs: how many run at once; next: the generations still to
                 \*  come; bad: those that never become ready; failures, crashes]

rolloutVars == <<desired, answered, pod, configs, at, seen, setting>>

Absent == [gen |-> 0, phase |-> "absent"]
Unseen == [gen |-> 0, pods |-> [m \in Members |-> Absent], i |-> 1, changed |-> FALSE, doomed |-> {}]

\* A connected binding: every member serves the first generation.
RolloutInit ==
    /\ desired = 1 /\ answered = {1}
    /\ pod = [m \in Members |-> [gen |-> 1, phase |-> "converged"]]
    /\ configs = {<<m, 1>> : m \in Members}
    /\ at = [p \in Procs |-> "idle"] /\ seen = [p \in Procs |-> Unseen]
    /\ setting \in Settings

-----------------------------------------------------------------------------
\* podReady: Ready and not terminating.  The probe asks for convergence too.
Ready(x) == x.phase \in {"ready", "recovering", "converged"}
Healthy(x) == x.phase = "converged"

Siblings(m) == Members \ {m}

\* Mutant: the outdated Pod itself has to be ready too.
BlockedByAny(v, m) == \E j \in Members : ~Ready(v.pods[j])

\* Why a member with an outdated Pod is not replaced in this pass.
Blocked(v, m) ==
    \/ ~\E j \in Siblings(m) : Ready(v.pods[j])      \* UpdateBlockedByUnavailableSibling
    \/ \E j \in Siblings(m) : ~Ready(v.pods[j])      \* WaitingForSiblingRecovery

\* Mutant: Pod readiness is taken for convergence.
ProbedReady(m) == \A j \in Siblings(m) : Ready(pod[j])

\* The native probe of every survivor.
Probed(m) == \A j \in Siblings(m) : Healthy(pod[j])

\* The delete carries the UID and resourceVersion that were read.
SamePod(v, m) == pod[m] = v.pods[m]

Go(p, label, v) == at' = [at EXCEPT ![p] = label] /\ seen' = [seen EXCEPT ![p] = v]
Return(p) == Go(p, "idle", Unseen)

\* The next member of the loop, or the end of it.
Continue(p, v) == IF v.i = Cardinality(Members) THEN Go(p, "prune", v)
                  ELSE Go(p, "config", [v EXCEPT !.i = @ + 1])

-----------------------------------------------------------------------------
\* Everything in place.  A pass that starts here is left out, and with it an old
\* leader that still holds an earlier snapshot when the new one begins.
Settled == /\ \A m \in Members : pod[m] = [gen |-> desired, phase |-> "converged"]
           /\ configs = {<<m, desired>> : m \in Members}

Begin(p) ==
    /\ at[p] = "idle" /\ ~Settled
    /\ Cardinality({q \in Procs : at[q] # "idle"}) < setting.procs
    /\ Go(p, "read", [Unseen EXCEPT !.gen = desired])
    /\ UNCHANGED <<desired, answered, pod, configs>>

\* Get and verifyPod: a Pod whose accepted configuration is gone is an error.
ReadPod(p) ==
    /\ at[p] = "read"
    /\ LET v == seen[p]  m == v.i  w == [v EXCEPT !.pods[m] = pod[m]]
       IN  IF pod[m] # Absent /\ <<m, pod[m].gen>> \notin configs THEN Return(p)
           ELSE IF m < Cardinality(Members) THEN Go(p, "read", [w EXCEPT !.i = @ + 1])
           ELSE IF v.gen \notin answered THEN Return(p)     \* DiscoveringPeerAllocations
           ELSE Go(p, "config", [w EXCEPT !.i = 1])
    /\ UNCHANGED <<desired, answered, pod, configs>>

EnsureConfig(p) ==
    /\ at[p] = "config"
    /\ configs' = configs \cup {<<seen[p].i, seen[p].gen>>}
    /\ Go(p, "pod", seen[p])
    /\ UNCHANGED <<desired, answered, pod>>

\* A member without a Pod, as far as the pass knows, gets one.
CreatePod(p) ==
    /\ at[p] = "pod" /\ seen[p].pods[seen[p].i] = Absent
    /\ LET m == seen[p].i IN
        pod' = IF pod[m] = Absent THEN [pod EXCEPT ![m] = [gen |-> seen[p].gen, phase |-> "starting"]] ELSE pod
    /\ Continue(p, [seen[p] EXCEPT !.changed = TRUE])
    /\ UNCHANGED <<desired, answered, configs>>

\* A terminating Pod is waited for; one of the wanted generation is kept; an
\* outdated one is replaced if its siblings carry the traffic.
ExaminePod(p) ==
    /\ at[p] = "pod" /\ seen[p].pods[seen[p].i] # Absent
    /\ LET v == seen[p]  old == v.pods[v.i]
       IN  IF old.phase = "terminating" THEN Continue(p, [v EXCEPT !.changed = TRUE])
           ELSE IF old.gen = v.gen THEN Continue(p, v)
           ELSE IF Blocked(v, v.i) THEN Return(p)
           ELSE Go(p, "probe", v)
    /\ UNCHANGED <<desired, answered, pod, configs>>

Probe(p) ==
    /\ at[p] = "probe"
    /\ IF Probed(seen[p].i) THEN Go(p, "retire", seen[p]) ELSE Return(p)
    /\ UNCHANGED <<desired, answered, pod, configs>>

\* RollingGatewayGeneration: one Pod per pass.
RetirePod(p) ==
    /\ at[p] = "retire"
    /\ LET m == seen[p].i IN
        pod' = IF SamePod(seen[p], m) THEN [pod EXCEPT ![m].phase = "terminating"] ELSE pod
    /\ Return(p)
    /\ UNCHANGED <<desired, answered, configs>>

\* pruneConfigs: list the Pods, then the ConfigMaps, then delete what no Pod uses.
ListPods(p) ==
    /\ at[p] = "prune"
    /\ Go(p, "list", [seen[p] EXCEPT !.pods = pod])
    /\ UNCHANGED <<desired, answered, pod, configs>>

\* Mutant: only the wanted generation is kept.
UnusedNow(v) == {c \in configs : v.gen # c[2]}

Unused(v) == {c \in configs : v.pods[c[1]].gen # c[2]}

ListConfigs(p) ==
    /\ at[p] = "list"
    /\ Go(p, "sweep", [seen[p] EXCEPT !.doomed = Unused(seen[p])])
    /\ UNCHANGED <<desired, answered, pod, configs>>

DeleteConfig(p) ==
    /\ at[p] = "sweep"
    /\ IF seen[p].doomed = {} THEN Return(p) /\ UNCHANGED configs
       ELSE \E c \in seen[p].doomed :
            /\ configs' = configs \ {c}
            /\ Go(p, "sweep", [seen[p] EXCEPT !.doomed = @ \ {c}])
    /\ UNCHANGED <<desired, answered, pod>>

Step(p) == \/ Begin(p) \/ ReadPod(p) \/ EnsureConfig(p) \/ CreatePod(p) \/ ExaminePod(p)
           \/ Probe(p) \/ RetirePod(p) \/ ListPods(p) \/ ListConfigs(p) \/ DeleteConfig(p)

-----------------------------------------------------------------------------
(* Kubelet, peers, users and faults *)

Move(m, from, to) == pod[m].phase = from /\ pod' = [pod EXCEPT ![m].phase = to]

Kubelet(m) ==
    /\ \/ pod[m].gen \notin setting.bad /\ <<m, pod[m].gen>> \in configs /\ Move(m, "starting", "ready")
       \/ Move(m, "ready", "converged")     \* BFD, BGP and FIB of all links
       \/ Move(m, "failed", "recovering")   \* restartPolicy Always
       \/ Move(m, "recovering", "converged")
       \/ pod[m].phase = "terminating" /\ pod' = [pod EXCEPT ![m] = Absent]
    /\ UNCHANGED <<desired, answered, configs, at, seen, setting>>

Fail == \E m \in Members :
    /\ setting.failures > 0 /\ (Move(m, "ready", "failed") \/ Move(m, "converged", "failed"))
    /\ setting' = [setting EXCEPT !.failures = @ - 1]
    /\ UNCHANGED <<desired, answered, configs, at, seen>>

\* A new snapshot, image or runtime; it may return to an earlier generation.
Change == \E g \in setting.next :
    /\ desired' = g /\ setting' = [setting EXCEPT !.next = @ \ {g}]
    /\ UNCHANGED <<answered, pod, configs, at, seen>>

Answer ==
    /\ desired \notin answered /\ answered' = answered \cup {desired}
    /\ UNCHANGED <<desired, pod, configs, at, seen, setting>>

Crash == \E p \in Procs :
    /\ setting.crashes > 0 /\ at[p] # "idle" /\ Return(p)
    /\ setting' = [setting EXCEPT !.crashes = @ - 1]
    /\ UNCHANGED <<desired, answered, pod, configs>>

Pass(p) == Step(p) /\ UNCHANGED setting

RolloutNext ==
    \/ \E p \in Procs : Pass(p)
    \/ \E m \in Members : Kubelet(m)
    \/ Fail \/ Change \/ Answer \/ Crash

RolloutSpec == RolloutInit /\ [][RolloutNext]_rolloutVars

\* Passes are requeued; Pods of a good generation get ready; peers answer.
RolloutFairness == /\ WF_rolloutVars(Answer)
                   /\ \A p \in Procs : WF_rolloutVars(Pass(p))
                   /\ \A m \in Members : WF_rolloutVars(Kubelet(m))

-----------------------------------------------------------------------------
\* Pods, configurations and views have the shape the actions rely on.
RolloutTypeOK ==
    /\ configs \subseteq Members \X (1..9)
    /\ \A m \in Members : pod[m].gen = 0 <=> pod[m].phase = "absent"
    /\ \A p \in Procs : seen[p].i \in Members

(***************************************************************************)
(* Ensure: "At most one old generation is retired per pass; its            *)
(* replacement must be Ready before any other member may be replaced."     *)
(* Whatever fails, crashes or changes on the way, at most one member is    *)
(* out of service for any other reason than its own failure.               *)
(***************************************************************************)
OneAtATime ==
    Cardinality({m \in Members : pod[m].phase \notin {"converged", "failed", "recovering"}}) <= 1

\* A Pod whose configuration is gone.
Stranded == \E m \in Members : pod[m] # Absent /\ <<m, pod[m].gen>> \notin configs

(***************************************************************************)
(* pruneConfigs and verifyPod: with one process, no Pod ever loses the     *)
(* configuration it runs or is about to mount, which would stop both the   *)
(* Pod and every later pass.                                               *)
(***************************************************************************)
ConfigInUse == setting.procs = 1 => ~Stranded

(***************************************************************************)
(* The rollout finishes: once the snapshots stop changing, every member    *)
(* serves the wanted generation and old configurations are gone, also when *)
(* a generation in between never became ready.  The one exception is a Pod *)
(* stranded by a second process that prunes while the first creates it.    *)
(***************************************************************************)
RolloutCompletes == <>[](desired \in setting.bad \/ Settled \/ Stranded)
=============================================================================
