-------------------------- MODULE NativeExtension --------------------------
(***************************************************************************)
(* The installer of the native extension: the Helm hook Job that adds two  *)
(* schema properties to the Vpc CRD, replaces the Kube-OVN controller's    *)
(* image by a patched one, and takes both back.                            *)
(*                                                                         *)
(* The hook is a sequence of API calls and may end between any two of them *)
(* (deadline, failed call).  What it needs to go on or back is a receipt   *)
(* Secret with the active and the pending plan; a plan names its image and *)
(* embeds the plan before it.  Meanwhile the Deployment rolls out, tenants *)
(* change their route intent and the patched controller works on it.       *)
(*                                                                         *)
(* One hook runs at a time: the Job has a deadline and Helm deletes the    *)
(* earlier Job first.  Dry runs, owners and foreign drift are left out.    *)
(***************************************************************************)
EXTENDS Naturals, Sequences

CONSTANTS
    Stock,     \* the original controller image
    Images,    \* patched images, one per chart revision
    Releases   \* the worlds to start in: see world

VARIABLES
    schema,    \* the CRD has the extension's properties
    deployment,       \* the controller Deployment: [image, rv]
    pods,      \* the images its Pods run
    secret,    \* the receipt: [active, pending], each a plan
    vpc,       \* a Vpc: [intent, gen, ack]; ack 0 is no acknowledgement
    rows,      \* OVN holds routes or BFD rows of the Vpc
    worker,    \* the patched controller's reconcile: [at, gen, intent]
    hook,      \* where the hook is
    helm,      \* the operation asked for: [act, image, done]
    world      \* [bad: images that never get ready; budgets requests, aborts,
               \*  churn, edits]

extensionVars == <<schema, deployment, pods, secret, vpc, rows, worker, hook, helm, world>>

\* A plan: the images from the first installation on, and the Deployment's
\* resourceVersion that the first plan saw.
NoPlan == [chain |-> <<>>, rv |-> 0]
Idle == [at |-> "idle", gen |-> 0, intent |-> FALSE]
NoHook == [at |-> "idle", plan |-> NoPlan, then |-> "", all |-> FALSE, empty |-> FALSE, rv |-> 0]

ExtensionInit ==
    /\ world \in Releases
    /\ schema = FALSE /\ deployment = [image |-> Stock, rv |-> 1] /\ pods = {Stock}
    /\ secret = [active |-> NoPlan, pending |-> NoPlan]
    /\ vpc = [intent |-> FALSE, gen |-> 1, ack |-> 0] /\ rows = FALSE
    /\ worker = Idle /\ hook = NoHook
    /\ helm = [act |-> "uninstall", image |-> Stock, done |-> TRUE]

-----------------------------------------------------------------------------
(* Plans *)

Depth(p) == Len(p.chain)
First(p) == Depth(p) = 1
Image(p) == IF p = NoPlan THEN Stock ELSE p.chain[Depth(p)]
Previous(p) == IF Depth(p) < 2 THEN NoPlan ELSE [p EXCEPT !.chain = SubSeq(@, 1, Depth(p) - 1)]
Original(p) == Image(Previous(p))
HasImage(p, image) == \E i \in 1..Depth(p) : p.chain[i] = image

\* nativeRestoreTarget; all stands for uninstall.
ToStock(p, all) == all \/ First(p)
Target(p, all) == IF all THEN Stock ELSE Original(p)

-----------------------------------------------------------------------------
(* What the hook checks.  Without the schema neither intent nor status is visible. *)

Intent == schema /\ vpc.intent

\* Mutant: a Vpc that never used the extension must be acknowledged too.
AckedAlways == schema => vpc.ack = vpc.gen

\* nativeACK: not configured, or acknowledged in its current generation.
Acked == schema /\ (vpc.intent \/ vpc.ack # 0) => vpc.ack = vpc.gen

\* nativeAllACKs
AllACKs(empty) == Acked /\ ~(empty /\ Intent)

\* nativeInstallIntentPreflight
Preflight(p) == IF First(p) THEN ~Intent ELSE AllACKs(FALSE)

\* Mutant: old Pods may linger.
RolledOutOnce == deployment.image \in pods

\* nativeRolloutSnapshot: exactly the desired Pods, all on the image.
RolledOut == pods = {deployment.image}

-----------------------------------------------------------------------------
(* The hook *)

HookAt(label) == hook.at = label
HookGoes(label) == hook' = [hook EXCEPT !.at = label]
Fail == hook' = NoHook
\* Check acknowledgements, and for stock the OVN rows, before label.
Verified(label) == hook' = [hook EXCEPT !.at = "acks", !.then = label]
Native == <<schema, deployment, pods, vpc, rows, worker>>

\* nativeHook up to the branch on the retained state.
Load ==
    /\ HookAt("idle") /\ ~helm.done
    /\ LET p == IF secret.pending # NoPlan THEN secret.pending ELSE secret.active
           start(label) == hook' = [NoHook EXCEPT !.at = label, !.plan = p, !.all = (helm.act = "uninstall")]
       IN  IF helm.act = "uninstall" THEN
               IF p = NoPlan THEN IF schema THEN Fail ELSE start("delete") ELSE start("restore")
           ELSE IF secret.pending = NoPlan THEN start("walk")
           ELSE IF Image(p) = helm.image THEN start("install")
           ELSE IF HasImage(Previous(p), helm.image) THEN start("restore")
           ELSE Fail                                      \* a different revision is partially applied
    /\ UNCHANGED <<Native, secret, helm, world>>

\* The plan of a first installation or of an upgrade, when its conditions hold.
Sound(a) == IF a = NoPlan THEN ~Intent /\ ~schema /\ deployment.image = Stock
            ELSE schema /\ deployment.image = Image(a) /\ RolledOut /\ AllACKs(FALSE)
MakePlan(a) == [chain |-> Append(a.chain, helm.image), rv |-> IF a = NoPlan THEN deployment.rv ELSE a.rv]

\* Back along the receipts, the verification of what is active, or a new plan.
Walk ==
    /\ HookAt("walk")
    /\ LET a == secret.active
           back == Image(a) # helm.image /\ HasImage(Previous(a), helm.image)
       IN  /\ hook' = IF back THEN [hook EXCEPT !.at = "restore", !.plan = a]
                      ELSE IF Image(a) = helm.image THEN [hook EXCEPT !.at = "verify"]
                      ELSE IF Sound(a) THEN [hook EXCEPT !.at = "save", !.plan = MakePlan(a)]
                      ELSE NoHook
           /\ secret' = IF back THEN [secret EXCEPT !.pending = a] ELSE secret
    /\ UNCHANGED <<Native, helm, world>>

\* Mutant: the receipt is written when the installation is complete.
SaveLater ==
    /\ HookAt("save") /\ HookGoes("install")
    /\ UNCHANGED <<Native, secret, helm, world>>

\* The pending plan is durable before anything is touched.
SavePending ==
    /\ HookAt("save") /\ secret' = [secret EXCEPT !.pending = hook.plan] /\ HookGoes("install")
    /\ UNCHANGED <<Native, helm, world>>

-----------------------------------------------------------------------------
(* installNativePlan *)

\* The plan is stale: nothing is applied and the Deployment was written since.
Outdated(p) == ~schema /\ deployment.rv # p.rv

Install ==
    /\ HookAt("install")
    /\ LET p == hook.plan IN
        IF /\ Preflight(p) /\ deployment.image \in {Image(p), Original(p)}
           /\ schema \/ (First(p) /\ deployment.image # Image(p) /\ ~Outdated(p))
        THEN hook' = [hook EXCEPT !.at = "preflight", !.rv = deployment.rv,
                                  !.then = IF schema THEN "" ELSE "schema"]
        ELSE Fail
    /\ UNCHANGED <<Native, secret, helm, world>>

\* Intent is checked again before each patch.
InstallPreflight ==
    /\ HookAt("preflight")
    /\ IF ~Preflight(hook.plan) THEN Fail
       ELSE HookGoes(IF hook.then = "schema" THEN "schema"
               ELSE IF deployment.image = Image(hook.plan) THEN "rollout" ELSE "image")
    /\ UNCHANGED <<Native, secret, helm, world>>

PatchSchema ==
    /\ HookAt("schema") /\ schema' = TRUE
    /\ hook' = [hook EXCEPT !.at = "preflight", !.then = ""]
    /\ UNCHANGED <<deployment, pods, secret, vpc, rows, worker, helm, world>>

\* The image, guarded by the resourceVersion that was read.
Patched(image, label) ==
    IF deployment.rv # hook.rv THEN Fail /\ UNCHANGED deployment
    ELSE deployment' = [image |-> image, rv |-> deployment.rv + 1] /\ HookGoes(label)

PatchImage ==
    /\ HookAt("image") /\ Patched(Image(hook.plan), "rollout")
    /\ UNCHANGED <<schema, pods, secret, vpc, rows, worker, helm, world>>

\* nativeWaitRollout and the final schema check, then the completed receipt.
Activate ==
    /\ HookAt("rollout")
    /\ IF deployment.image = Image(hook.plan) /\ RolledOut /\ schema
       THEN HookGoes("walk") /\ secret' = [active |-> hook.plan, pending |-> NoPlan]
       ELSE Fail /\ UNCHANGED secret
    /\ UNCHANGED <<Native, helm, world>>

Verify ==
    /\ HookAt("verify") /\ Fail
    /\ helm' = [helm EXCEPT !.done = schema /\ deployment.image = helm.image /\ RolledOut /\ AllACKs(FALSE)]
    /\ UNCHANGED <<Native, secret, world>>

-----------------------------------------------------------------------------
(* restoreNative *)

\* The states a receipt explains; anything else is drift.
Explained(p, all) ==
    /\ schema \/ ToStock(p, all)
    /\ deployment.image \in {Target(p, all), Image(p)} \cup (IF First(p) THEN {Stock} ELSE {})
    /\ ~(ToStock(p, all) /\ ~schema /\ deployment.image \notin {Target(p, all), Original(p)})

Restore ==
    /\ HookAt("restore")
    /\ LET p == hook.plan IN
        IF ~Explained(p, hook.all) THEN Fail
        ELSE hook' = [hook EXCEPT !.at = "acks", !.rv = deployment.rv, !.empty = ToStock(p, hook.all),
                        !.then = IF deployment.image = Target(p, hook.all) THEN "unroll" ELSE "again"]
    /\ UNCHANGED <<Native, secret, helm, world>>

CheckACKs ==
    /\ HookAt("acks")
    /\ IF AllACKs(hook.empty) THEN HookGoes(IF hook.empty THEN "rows" ELSE hook.then) ELSE Fail
    /\ UNCHANGED <<Native, secret, helm, world>>

\* nativeOVNEmpty
CheckRows ==
    /\ HookAt("rows") /\ (IF rows THEN Fail ELSE HookGoes(hook.then))
    /\ UNCHANGED <<Native, secret, helm, world>>

\* The same checks once more, right before the image is patched.
CheckAgain ==
    /\ HookAt("again") /\ Verified("unpatch")
    /\ UNCHANGED <<Native, secret, helm, world>>

UnpatchImage ==
    /\ HookAt("unpatch") /\ Patched(Target(hook.plan, hook.all), "unroll")
    /\ UNCHANGED <<schema, pods, secret, vpc, rows, worker, helm, world>>

\* The rollout of the restored image; the schema goes only after it, and only
\* after the checks.
WaitRestored ==
    /\ HookAt("unroll")
    /\ IF deployment.image # Target(hook.plan, hook.all) \/ ~RolledOut THEN Fail
       ELSE IF hook.empty THEN IF schema THEN Verified("unschema") ELSE HookGoes("restored")
       ELSE IF schema THEN Verified("restored") ELSE Fail
    /\ UNCHANGED <<Native, secret, helm, world>>

RemoveSchema ==
    /\ HookAt("unschema") /\ schema' = FALSE /\ HookGoes("restored")
    /\ UNCHANGED <<deployment, pods, secret, vpc, rows, worker, helm, world>>

\* The receipt after a restoration: deleted, or one plan shorter.
Restored ==
    /\ HookAt("restored")
    /\ IF hook.all THEN HookGoes("delete") /\ UNCHANGED secret
       ELSE secret' = [active |-> Previous(hook.plan), pending |-> NoPlan] /\ HookGoes("walk")
    /\ UNCHANGED <<Native, helm, world>>

DeleteReceipt ==
    /\ HookAt("delete") /\ secret' = [active |-> NoPlan, pending |-> NoPlan]
    /\ helm' = [helm EXCEPT !.done = TRUE] /\ Fail
    /\ UNCHANGED <<Native, world>>

Hook == \/ Load \/ Walk \/ SavePending \/ Install \/ InstallPreflight \/ PatchSchema \/ PatchImage
        \/ Activate \/ Verify \/ Restore \/ CheckACKs \/ CheckRows \/ CheckAgain \/ UnpatchImage
        \/ WaitRestored \/ RemoveSchema \/ Restored \/ DeleteReceipt

-----------------------------------------------------------------------------
(* Kubernetes, the patched controller, tenants and the administrator *)

\* The new Pod first, then the old one goes, unless the image never gets ready.
Rollout ==
    /\ ~RolledOut
    /\ \/ deployment.image \notin pods /\ pods' = pods \cup {deployment.image} /\ UNCHANGED worker
       \/ deployment.image \in pods \ world.bad /\ pods' = {deployment.image} /\ worker' = Idle
    /\ deployment' = [deployment EXCEPT !.rv = @ + 1]
    /\ UNCHANGED <<schema, secret, vpc, rows, hook, helm, world>>

\* Any other write of the Deployment, its status included.
Churn ==
    /\ world.churn > 0 /\ deployment' = [deployment EXCEPT !.rv = @ + 1]
    /\ world' = [world EXCEPT !.churn = @ - 1]
    /\ UNCHANGED <<schema, pods, secret, vpc, rows, worker, hook, helm>>

Controlled == pods \ ({Stock} \cup world.bad) # {}

Control ==
    /\ Controlled
    /\ \/ /\ worker.at = "idle" /\ vpc.ack # vpc.gen
          /\ worker' = [at |-> "read", gen |-> vpc.gen, intent |-> Intent] /\ UNCHANGED <<rows, vpc>>
       \/ /\ worker.at = "read" /\ rows' = worker.intent
          /\ worker' = [worker EXCEPT !.at = "done"] /\ UNCHANGED vpc
       \/ /\ worker.at = "done" /\ worker' = Idle /\ UNCHANGED rows
          /\ vpc' = IF schema /\ vpc.gen = worker.gen THEN [vpc EXCEPT !.ack = vpc.gen] ELSE vpc
    /\ UNCHANGED <<schema, deployment, pods, secret, hook, helm, world>>

\* Tenants add routes, but not once the removal was asked for.
AddIntent ==
    /\ world.edits > 0 /\ schema /\ ~vpc.intent /\ helm.act # "uninstall"
    /\ vpc' = [vpc EXCEPT !.intent = TRUE, !.gen = @ + 1] /\ world' = [world EXCEPT !.edits = @ - 1]
    /\ UNCHANGED <<schema, deployment, pods, secret, rows, worker, hook, helm>>

\* Routes are withdrawn, in the end where the documentation asks for it.
ClearIntent ==
    /\ schema /\ vpc.intent /\ vpc' = [vpc EXCEPT !.intent = FALSE, !.gen = @ + 1]
    /\ UNCHANGED <<schema, deployment, pods, secret, rows, worker, hook, helm, world>>

\* Helm: install, upgrade or roll back to a revision, or uninstall; nothing else
\* while an uninstallation is unfinished.
Request ==
    /\ HookAt("idle") /\ world.requests > 0 /\ (helm.act = "uninstall" => helm.done)
    /\ \/ \E image \in Images : helm' = [act |-> "reconcile", image |-> image, done |-> FALSE]
       \/ helm.act = "reconcile" /\ helm' = [act |-> "uninstall", image |-> Stock, done |-> FALSE]
    /\ world' = [world EXCEPT !.requests = @ - 1]
    /\ UNCHANGED <<Native, secret, hook>>

\* The Job's deadline, a failed call or a lost response.
Abort ==
    /\ ~HookAt("idle") /\ world.aborts > 0 /\ Fail /\ world' = [world EXCEPT !.aborts = @ - 1]
    /\ UNCHANGED <<Native, secret, helm>>

ExtensionNext == Hook \/ Rollout \/ Churn \/ Control \/ AddIntent \/ ClearIntent \/ Request \/ Abort

ExtensionSpec == ExtensionInit /\ [][ExtensionNext]_extensionVars

\* The hook goes on and a failed one is retried; Kubernetes and the controller
\* work; routes are withdrawn before a removal.
ExtensionFairness == /\ WF_extensionVars(Hook) /\ WF_extensionVars(Rollout) /\ WF_extensionVars(Control)
                     /\ SF_extensionVars(ClearIntent /\ (helm.act = "uninstall" \/ secret.active = NoPlan))

-----------------------------------------------------------------------------
(***************************************************************************)
(* restoreNative: the schema, without which routes can neither be seen nor *)
(* acknowledged, is there as long as a patched controller or what it wrote *)
(* into OVN is.                                                            *)
(***************************************************************************)
SchemaLast == ~schema => pods = {Stock} /\ deployment.image = Stock /\ ~rows

(***************************************************************************)
(* nativeSaveHookState: whatever was changed is named by the receipt that  *)
(* the next hook will read, wherever the last one was cut off.             *)
(***************************************************************************)
Receipted ==
    LET p == IF secret.pending # NoPlan THEN secret.pending ELSE secret.active
    IN  schema \/ deployment.image # Stock => p # NoPlan /\ (deployment.image = Stock \/ HasImage(p, deployment.image))

\* What no retry of the same operation overcomes.
Refused ==
    LET p == secret.pending IN
    \/ p # NoPlan /\ First(p) /\ Outdated(p) /\ helm.image = Image(p)       \* stale plan
    \/ p # NoPlan /\ ~First(p) /\ helm.act = "uninstall" /\ deployment.image = Original(p)
    \/ p # NoPlan /\ helm.act = "reconcile" /\ ~HasImage(p, helm.image)     \* other revision pending
    \/ helm.act = "uninstall" /\ pods = {Stock} /\ rows    \* rows of a reconcile in flight

(***************************************************************************)
(* nativeHook: an operation that is retried completes, from wherever       *)
(* earlier operations were cut off, except for the refusals above and for  *)
(* images that never get ready.                                            *)
(***************************************************************************)
HookCompletes == <>[](helm.done \/ Refused \/ helm.image \in world.bad)

(***************************************************************************)
(* "Failed hooks keep it and can be retried with Helm"                     *)
(* (charts/kube-ovn-global-vpc-extension/README.md:19).                    *)
(***************************************************************************)
RetriesComplete == <>[]helm.done
=============================================================================
