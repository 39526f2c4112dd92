----------------------- MODULE NativeExtensionProofs -----------------------
(***************************************************************************)
(* For any images and any number of Helm operations, aborts, writes of the *)
(* Deployment and route changes: the schema outlives everything that needs *)
(* it, and the receipt names whatever was changed.                         *)
(***************************************************************************)
EXTENDS NativeExtension, SequenceTheorems, TLAPS

AnyImage == Images \cup {Stock}
\* A plan is none, or names at least its own image.
Plan == {NoPlan} \cup [chain : Seq(AnyImage) \ {<< >>}, rv : Nat]

Installing == {"install", "preflight", "schema", "image", "rollout"}
\* restoreNative, from its checks on.
Checking == {"acks", "rows", "again", "unpatch", "unroll", "unschema", "restored"}
Restoring == {"restore"} \cup Checking
Labels == {"idle", "walk", "save", "verify", "delete"} \cup Installing \cup Restoring
Thens == {"", "schema", "unroll", "again", "unpatch", "unschema", "restored"}
HookType == [at : Labels, plan : Plan, then : Thens, all : BOOLEAN, empty : BOOLEAN, rv : Nat]

Shapes ==
    /\ schema \in BOOLEAN
    /\ deployment \in [image : AnyImage, rv : Nat]
    /\ pods \in SUBSET AnyImage
    /\ secret \in [active : Plan, pending : Plan]
    /\ hook \in HookType
    /\ helm \in [act : {"reconcile", "uninstall"}, image : AnyImage, done : BOOLEAN]

\* The plan that the next hook will read.
Receipt == IF secret.pending # NoPlan THEN secret.pending ELSE secret.active

\* The plan a hook works on is the receipt, or about to become it.
PlanInv ==
    /\ hook.at \in {"walk", "save"} => secret.pending = NoPlan
    /\ hook.at = "save" => hook.plan.chain = Append(secret.active.chain, helm.image)
    /\ hook.at \in Installing => hook.plan = secret.pending /\ hook.plan # NoPlan
    /\ hook.at \in Restoring => hook.plan = Receipt /\ hook.plan # NoPlan

\* The installation patches an image only with the schema in place.
InstallInv ==
    /\ hook.at = "preflight" /\ hook.then # "schema" => schema
    /\ hook.at \in {"image", "rollout"} => schema

\* The restoration goes on without the schema only towards the original image, and
\* removes it only when that image runs alone and has left no rows.
RestoreInv ==
    /\ hook.at \in Checking => /\ hook.empty = ToStock(hook.plan, hook.all)
                               /\ schema \/ hook.empty
    /\ hook.at \in {"acks", "rows"} =>
        /\ hook.then \in {"unroll", "again", "unpatch", "unschema", "restored"}
        /\ hook.then = "unschema" => hook.empty /\ deployment.image = Stock /\ pods = {Stock}
        /\ hook.then = "restored" => ~hook.empty /\ deployment.image = Target(hook.plan, hook.all)
    /\ hook.at = "rows" => hook.empty
    /\ hook.at = "unschema" => hook.empty /\ deployment.image = Stock /\ pods = {Stock} /\ ~rows
    /\ hook.at = "restored" => /\ deployment.image = Target(hook.plan, hook.all)
                               /\ hook.empty => ~schema
    /\ hook.at = "delete" => ~schema

IInv == Shapes /\ PlanInv /\ InstallInv /\ RestoreInv /\ SchemaLast /\ Receipted
-----------------------------------------------------------------------------
(* Plans *)

\* Every plan has a chain of images, the empty plan an empty one.
LEMMA PlanChain ==
  ASSUME NEW p \in Plan
  PROVE  p.chain \in Seq(AnyImage) /\ p.rv \in Nat
<1>1. << >> \in Seq(AnyImage)
  OBVIOUS
<1>2. CASE p = NoPlan
  BY <1>1, <1>2 DEF NoPlan
<1> QED
  BY <1>2 DEF Plan

\* A plan's own image is in its chain.
LEMMA OwnImage ==
  ASSUME NEW p \in Plan
  PROVE  /\ Image(p) \in AnyImage
         /\ p # NoPlan => HasImage(p, Image(p)) /\ Depth(p) \in Nat \ {0}
<1>1. CASE p = NoPlan
  BY <1>1 DEF Image, AnyImage
<1>2. CASE p # NoPlan
  <2>1. p.chain \in Seq(AnyImage) /\ p.chain # << >>
    BY <1>2 DEF Plan
  <2>2. Len(p.chain) \in Nat \ {0} /\ p.chain[Len(p.chain)] \in AnyImage
    BY <2>1
  <2> QED
    BY <1>2, <2>1, <2>2 DEF Image, HasImage, Depth
<1> QED
  BY <1>1, <1>2

\* The plan before it: none for a first installation, else a shorter chain whose image is
\* in the plan's own chain.
LEMMA PreviousPlan ==
  ASSUME NEW p \in Plan
  PROVE  /\ Previous(p) \in Plan
         /\ Original(p) \in AnyImage
         /\ First(p) => Previous(p) = NoPlan /\ Original(p) = Stock
         /\ p # NoPlan /\ ~First(p) => Previous(p) # NoPlan
         /\ Original(p) = Stock \/ HasImage(p, Original(p))
         /\ p # NoPlan /\ ~First(p) => HasImage(Previous(p), Original(p))
<1>1. CASE Depth(p) < 2
  <2>1. Previous(p) = NoPlan /\ Original(p) = Stock
    BY <1>1 DEF Previous, Original, Image
  <2>2. p = NoPlan \/ First(p)
    BY <1>1, OwnImage DEF First
  <2> QED
    BY <2>1, <2>2 DEF Plan, AnyImage
<1>2. CASE ~(Depth(p) < 2)
  <2> DEFINE n == Depth(p) - 1
             q == [chain |-> SubSeq(p.chain, 1, n), rv |-> p.rv]
  <2>1. p # NoPlan
    BY <1>2 DEF NoPlan, Depth
  <2>2. p.chain \in Seq(AnyImage) /\ p.rv \in Nat /\ p = [chain |-> p.chain, rv |-> p.rv]
    BY <2>1 DEF Plan
  <2>3. n \in Nat \ {0} /\ n < Len(p.chain) /\ Depth(p) \in Nat
    <3> DEFINE k == Len(p.chain)
    <3>1. Depth(p) = k /\ n = k - 1
      BY DEF Depth
    <3>2. k \in Nat /\ ~(k < 2)
      BY <1>2, <2>2 DEF Depth
    <3> HIDE DEF k, n
    <3>3. n \in Nat \ {0} /\ n < k /\ Depth(p) \in Nat
      BY <3>1, <3>2
    <3> QED
      BY <3>3 DEF k
  <2>4. /\ SubSeq(p.chain, 1, n) \in Seq(AnyImage)
        /\ Len(SubSeq(p.chain, 1, n)) = n
        /\ \A i \in 1..n : SubSeq(p.chain, 1, n)[i] = p.chain[i]
    BY <2>2, <2>3
  <2>5. Previous(p) = q
    BY <1>2, <2>2 DEF Previous
  <2> HIDE DEF n
  <2>6. q \in Plan /\ q # NoPlan
    BY <2>2, <2>3, <2>4 DEF Plan, NoPlan
  <2>7. Image(q) = p.chain[n] /\ Depth(q) = n
    BY <2>3, <2>4, <2>6 DEF Image, Depth
  <2>8. HasImage(p, Image(q)) /\ HasImage(q, Image(q))
    BY <2>3, <2>4, <2>7 DEF HasImage, Depth
  <2>9. ~First(p) /\ Image(q) \in AnyImage
    BY <1>2, <2>3, <2>6, OwnImage DEF First
  <2> QED
    BY <2>1, <2>5, <2>6, <2>8, <2>9 DEF Original
<1> QED
  BY <1>1, <1>2

\* A new plan keeps the images of the one it embeds.
LEMMA Embeds ==
  ASSUME NEW a \in Plan, NEW p \in Plan, NEW image \in AnyImage, p.chain = Append(a.chain, image)
  PROVE  p # NoPlan /\ \A i : HasImage(a, i) => HasImage(p, i)
<1>1. a.chain \in Seq(AnyImage)
  BY PlanChain
<1>2. /\ Len(Append(a.chain, image)) = Len(a.chain) + 1 /\ Len(a.chain) \in Nat
      /\ \A i \in 1..Len(a.chain) : Append(a.chain, image)[i] = a.chain[i]
  BY <1>1
<1> QED
  BY <1>1, <1>2 DEF HasImage, Depth, NoPlan

\* The plan of an installation or upgrade is a plan.
LEMMA NewPlan ==
  ASSUME Shapes
  PROVE  LET p == MakePlan(secret.active)
         IN  p \in Plan /\ p.chain = Append(secret.active.chain, helm.image)
<1>1. /\ secret.active.chain \in Seq(AnyImage) /\ secret.active.rv \in Nat
      /\ helm.image \in AnyImage /\ deployment.rv \in Nat
  BY PlanChain DEF Shapes
<1>2. Append(secret.active.chain, helm.image) \in Seq(AnyImage) \ {<< >>}
  BY <1>1
<1> QED
  BY <1>1, <1>2 DEF MakePlan, Plan

\* Towards stock the target of a restoration is the original image.
LEMMA StockTarget ==
  ASSUME NEW p \in Plan, NEW all \in BOOLEAN
  PROVE  /\ Target(p, all) \in AnyImage
         /\ ToStock(p, all) => Target(p, all) = Stock
         /\ p # NoPlan => Target(p, all) = Stock \/ HasImage(p, Target(p, all))
  BY PreviousPlan DEF Target, ToStock, AnyImage

-----------------------------------------------------------------------------
(* Steps *)

\* Before the first operation nothing is installed.
LEMMA InitInv == ExtensionInit => IInv
<1> SUFFICES ASSUME ExtensionInit PROVE IInv
  OBVIOUS
<1>1. NoPlan \in Plan
  BY DEF Plan
<1>2. Shapes
  BY <1>1 DEF ExtensionInit, Shapes, NoHook, HookType, Labels, Thens, AnyImage
<1> QED
  BY <1>2 DEF ExtensionInit, NoHook, IInv, PlanInv, InstallInv, RestoreInv, Installing, Restoring, Checking,
              SchemaLast, Receipted

\* A hook that ends leaves nothing to hold but what the cluster shows.
LEMMA FailStep ==
  ASSUME IInv, hook' = NoHook, UNCHANGED <<Native, secret>>,
         helm' \in [act : {"reconcile", "uninstall"}, image : AnyImage, done : BOOLEAN]
  PROVE  IInv'
<1>1. NoHook \in HookType
  BY DEF NoHook, HookType, Labels, Thens, Plan
<1>2. Shapes'
  BY <1>1 DEF IInv, Shapes, Native
<1>3. SchemaLast' /\ Receipted'
  BY DEF IInv, Native, SchemaLast, Receipted
<1>4. PlanInv' /\ InstallInv' /\ RestoreInv'
  BY DEF NoHook, PlanInv, InstallInv, RestoreInv, Installing, Restoring, Checking
<1> QED
  BY <1>2, <1>3, <1>4 DEF IInv

\* A step of the hook that only moves on.
LEMMA MoveStep ==
  ASSUME IInv, hook' \in HookType, UNCHANGED <<Native, secret, helm>>,
         PlanInv', InstallInv', RestoreInv'
  PROVE  IInv'
  BY DEF IInv, Shapes, Native, SchemaLast, Receipted

\* HookGoes changes nothing but where the hook is.
LEMMA GoFields ==
  ASSUME Shapes, NEW l \in Labels, HookGoes(l)
  PROVE  /\ hook' \in HookType /\ hook'.at = l
         /\ UNCHANGED <<hook.plan, hook.then, hook.all, hook.empty>>
  BY DEF Shapes, HookType, HookGoes

\* Verified only changes where the hook is and what comes after the checks.
LEMMA VerifiedFields ==
  ASSUME Shapes, NEW l \in Thens, Verified(l)
  PROVE  /\ hook' \in HookType /\ hook'.at = "acks" /\ hook'.then = l
         /\ UNCHANGED <<hook.plan, hook.all, hook.empty>>
  BY DEF Shapes, HookType, Labels, Restoring, Checking, Verified

\* Intent is looked at again before a patch.
LEMMA InstallPreflightStep == ASSUME IInv, InstallPreflight PROVE IInv'
<1>0. UNCHANGED <<Native, secret, helm>> /\ Shapes
  BY DEF InstallPreflight, IInv
<1>1. CASE ~Preflight(hook.plan)
  BY <1>0, <1>1, FailStep DEF InstallPreflight, Fail, Shapes
<1>2. CASE Preflight(hook.plan) /\ hook.then = "schema"
  <2>1. HookGoes("schema") /\ "schema" \in Labels
    BY <1>2 DEF InstallPreflight, HookAt, IInv, RestoreInv, Labels, Installing, Restoring, Checking, Thens
  <2>2. hook' \in HookType
    BY <1>0, <2>1, GoFields
  <2>3. PlanInv'
    BY <1>0, <1>2, <2>1, GoFields DEF InstallPreflight, HookAt, IInv, PlanInv, RestoreInv, Receipt, Installing, Restoring, Checking
  <2>4. InstallInv'
    BY <1>0, <1>2, <2>1, GoFields DEF InstallPreflight, HookAt, IInv, RestoreInv, InstallInv, Native, Restoring, Checking
  <2>5. RestoreInv'
    BY <1>0, <1>2, <2>1, GoFields DEF InstallPreflight, HookAt, IInv, RestoreInv, Native, Checking
  <2> QED
    BY <1>0, <2>2, <2>3, <2>4, <2>5, MoveStep
<1>3. CASE Preflight(hook.plan) /\ hook.then # "schema" /\ deployment.image = Image(hook.plan)
  <2>1. HookGoes("rollout") /\ "rollout" \in Labels
    BY <1>3 DEF InstallPreflight, HookAt, IInv, RestoreInv, Labels, Installing, Restoring, Checking, Thens
  <2>2. hook' \in HookType
    BY <1>0, <2>1, GoFields
  <2>3. PlanInv'
    BY <1>0, <1>3, <2>1, GoFields DEF InstallPreflight, HookAt, IInv, PlanInv, RestoreInv, Receipt, Installing, Restoring, Checking
  <2>4. InstallInv'
    BY <1>0, <1>3, <2>1, GoFields DEF InstallPreflight, HookAt, IInv, RestoreInv, InstallInv, Native, Restoring, Checking
  <2>5. RestoreInv'
    BY <1>0, <1>3, <2>1, GoFields DEF InstallPreflight, HookAt, IInv, RestoreInv, Native, Checking
  <2> QED
    BY <1>0, <2>2, <2>3, <2>4, <2>5, MoveStep
<1>4. CASE Preflight(hook.plan) /\ hook.then # "schema" /\ deployment.image # Image(hook.plan)
  <2>1. HookGoes("image") /\ "image" \in Labels
    BY <1>4 DEF InstallPreflight, HookAt, IInv, RestoreInv, Labels, Installing, Restoring, Checking, Thens
  <2>2. hook' \in HookType
    BY <1>0, <2>1, GoFields
  <2>3. PlanInv'
    BY <1>0, <1>4, <2>1, GoFields DEF InstallPreflight, HookAt, IInv, PlanInv, RestoreInv, Receipt, Installing, Restoring, Checking
  <2>4. InstallInv'
    BY <1>0, <1>4, <2>1, GoFields DEF InstallPreflight, HookAt, IInv, RestoreInv, InstallInv, Native, Restoring, Checking
  <2>5. RestoreInv'
    BY <1>0, <1>4, <2>1, GoFields DEF InstallPreflight, HookAt, IInv, RestoreInv, Native, Checking
  <2> QED
    BY <1>0, <2>2, <2>3, <2>4, <2>5, MoveStep
<1> QED
  BY <1>1, <1>2, <1>3, <1>4

\* Acknowledgements first, and towards stock the rows as well.
LEMMA CheckACKsStep == ASSUME IInv, CheckACKs PROVE IInv'
<1>0. UNCHANGED <<Native, secret, helm>> /\ Shapes
  BY DEF CheckACKs, IInv
<1>1. CASE ~AllACKs(hook.empty)
  BY <1>0, <1>1, FailStep DEF CheckACKs, Fail, Shapes
<1>2. CASE AllACKs(hook.empty) /\ hook.empty
  <2>1. HookGoes("rows") /\ "rows" \in Labels
    BY <1>2 DEF CheckACKs, HookAt, IInv, RestoreInv, Labels, Installing, Restoring, Checking, Thens
  <2>2. hook' \in HookType
    BY <1>0, <2>1, GoFields
  <2>3. PlanInv'
    BY <1>0, <1>2, <2>1, GoFields DEF CheckACKs, HookAt, IInv, PlanInv, RestoreInv, Receipt, Installing, Restoring, Checking
  <2>4. InstallInv'
    BY <1>0, <1>2, <2>1, GoFields DEF CheckACKs, HookAt, IInv, RestoreInv, InstallInv, Native, Restoring, Checking
  <2>5. RestoreInv'
    BY <1>0, <1>2, <2>1, GoFields DEF CheckACKs, HookAt, IInv, RestoreInv, Native, Checking
  <2> QED
    BY <1>0, <2>2, <2>3, <2>4, <2>5, MoveStep
<1>3. CASE AllACKs(hook.empty) /\ ~hook.empty
  <2>1. HookGoes(hook.then) /\ hook.then \in Labels
    BY <1>3 DEF CheckACKs, HookAt, IInv, RestoreInv, Labels, Installing, Restoring, Checking, Thens
  <2>2. hook' \in HookType
    BY <1>0, <2>1, GoFields
  <2>3. PlanInv'
    BY <1>0, <1>3, <2>1, GoFields DEF CheckACKs, HookAt, IInv, PlanInv, RestoreInv, Receipt, Installing, Restoring, Checking
  <2>4. InstallInv'
    BY <1>0, <1>3, <2>1, GoFields DEF CheckACKs, HookAt, IInv, RestoreInv, InstallInv, Native, Restoring, Checking
  <2>5. RestoreInv'
    BY <1>0, <1>3, <2>1, GoFields DEF CheckACKs, HookAt, IInv, RestoreInv, Native, Checking
  <2> QED
    BY <1>0, <2>2, <2>3, <2>4, <2>5, MoveStep
<1> QED
  BY <1>1, <1>2, <1>3

\* Rows that are gone stay gone once only the original image runs.
LEMMA CheckRowsStep == ASSUME IInv, CheckRows PROVE IInv'
<1>0. UNCHANGED <<Native, secret, helm>> /\ Shapes
  BY DEF CheckRows, IInv
<1>1. CASE rows
  BY <1>0, <1>1, FailStep DEF CheckRows, Fail, Shapes
<1>2. CASE ~rows
  <2>1. HookGoes(hook.then) /\ hook.then \in Labels
    BY <1>2 DEF CheckRows, HookAt, IInv, RestoreInv, Labels, Installing, Restoring, Checking, Thens
  <2>2. hook' \in HookType
    BY <1>0, <2>1, GoFields
  <2>3. PlanInv'
    BY <1>0, <1>2, <2>1, GoFields DEF CheckRows, HookAt, IInv, PlanInv, RestoreInv, Receipt, Installing, Restoring, Checking
  <2>4. InstallInv'
    BY <1>0, <1>2, <2>1, GoFields DEF CheckRows, HookAt, IInv, RestoreInv, InstallInv, Native, Restoring, Checking
  <2>5. RestoreInv'
    BY <1>0, <1>2, <2>1, GoFields DEF CheckRows, HookAt, IInv, RestoreInv, Native, Checking
  <2> QED
    BY <1>0, <2>2, <2>3, <2>4, <2>5, MoveStep
<1> QED
  BY <1>1, <1>2

\* The checks are repeated right before the image is patched.
LEMMA CheckAgainStep == ASSUME IInv, CheckAgain PROVE IInv'
<1>0. UNCHANGED <<Native, secret, helm>> /\ Shapes
  BY DEF CheckAgain, IInv
<1>1. CASE TRUE
  <2>1. Verified("unpatch") /\ "unpatch" \in Thens
    BY <1>1 DEF CheckAgain, HookAt, IInv, RestoreInv, Labels, Installing, Restoring, Checking, Thens
  <2>2. hook' \in HookType
    BY <1>0, <2>1, VerifiedFields
  <2>3. PlanInv'
    BY <1>0, <1>1, <2>1, VerifiedFields DEF CheckAgain, HookAt, IInv, PlanInv, RestoreInv, Receipt, Installing, Restoring, Checking
  <2>4. InstallInv'
    BY <1>0, <1>1, <2>1, VerifiedFields DEF CheckAgain, HookAt, IInv, RestoreInv, InstallInv, Native, Restoring, Checking
  <2>5. RestoreInv'
    BY <1>0, <1>1, <2>1, VerifiedFields DEF CheckAgain, HookAt, IInv, RestoreInv, Native, Checking
  <2> QED
    BY <1>0, <2>2, <2>3, <2>4, <2>5, MoveStep
<1> QED
  BY <1>1

\* Only a complete rollout lets the restoration go on.
LEMMA WaitRestoredStep == ASSUME IInv, WaitRestored PROVE IInv'
<1>0. UNCHANGED <<Native, secret, helm>> /\ Shapes
  BY DEF WaitRestored, IInv
<1>9. hook.empty => Target(hook.plan, hook.all) = Stock
  BY <1>0, StockTarget DEF WaitRestored, HookAt, Shapes, HookType, IInv, RestoreInv, Checking
<1>1. CASE deployment.image # Target(hook.plan, hook.all) \/ ~RolledOut
  BY <1>0, <1>1, FailStep DEF WaitRestored, Fail, Shapes
<1>2. CASE deployment.image = Target(hook.plan, hook.all) /\ RolledOut /\ hook.empty /\ schema
  <2>1. Verified("unschema") /\ "unschema" \in Thens
    BY <1>2 DEF WaitRestored, HookAt, IInv, RestoreInv, Labels, Installing, Restoring, Checking, Thens
  <2>2. hook' \in HookType
    BY <1>0, <2>1, VerifiedFields
  <2>3. PlanInv'
    BY <1>0, <1>2, <2>1, VerifiedFields DEF WaitRestored, HookAt, IInv, PlanInv, RestoreInv, Receipt, Installing, Restoring, Checking
  <2>4. InstallInv'
    BY <1>0, <1>2, <2>1, VerifiedFields DEF WaitRestored, HookAt, IInv, RestoreInv, InstallInv, Native, Restoring, Checking
  <2>5. RestoreInv'
    BY <1>0, <1>2, <2>1, VerifiedFields, <1>9 DEF WaitRestored, HookAt, IInv, RestoreInv, Native, Checking, RolledOut
  <2> QED
    BY <1>0, <2>2, <2>3, <2>4, <2>5, MoveStep
<1>3. CASE deployment.image = Target(hook.plan, hook.all) /\ RolledOut /\ hook.empty /\ ~schema
  <2>1. HookGoes("restored") /\ "restored" \in Labels
    BY <1>3 DEF WaitRestored, HookAt, IInv, RestoreInv, Labels, Installing, Restoring, Checking, Thens
  <2>2. hook' \in HookType
    BY <1>0, <2>1, GoFields
  <2>3. PlanInv'
    BY <1>0, <1>3, <2>1, GoFields DEF WaitRestored, HookAt, IInv, PlanInv, RestoreInv, Receipt, Installing, Restoring, Checking
  <2>4. InstallInv'
    BY <1>0, <1>3, <2>1, GoFields DEF WaitRestored, HookAt, IInv, RestoreInv, InstallInv, Native, Restoring, Checking
  <2>5. RestoreInv'
    <3>1. /\ hook'.at = "restored" /\ hook'.plan = hook.plan /\ hook'.all = hook.all
          /\ hook'.empty = hook.empty /\ hook.at = "unroll"
          /\ UNCHANGED <<schema, deployment>>
      BY <1>0, <2>1, GoFields DEF WaitRestored, HookAt, Native
    <3>2. hook.empty = ToStock(hook.plan, hook.all)
      BY <3>1 DEF IInv, RestoreInv, Checking
    <3> QED
      BY <1>3, <3>1, <3>2 DEF RestoreInv
  <2> QED
    BY <1>0, <2>2, <2>3, <2>4, <2>5, MoveStep
<1>4. CASE deployment.image = Target(hook.plan, hook.all) /\ RolledOut /\ ~hook.empty /\ schema
  <2>1. Verified("restored") /\ "restored" \in Thens
    BY <1>4 DEF WaitRestored, HookAt, IInv, RestoreInv, Labels, Installing, Restoring, Checking, Thens
  <2>2. hook' \in HookType
    BY <1>0, <2>1, VerifiedFields
  <2>3. PlanInv'
    BY <1>0, <1>4, <2>1, VerifiedFields DEF WaitRestored, HookAt, IInv, PlanInv, RestoreInv, Receipt, Installing, Restoring, Checking
  <2>4. InstallInv'
    BY <1>0, <1>4, <2>1, VerifiedFields DEF WaitRestored, HookAt, IInv, RestoreInv, InstallInv, Native, Restoring, Checking
  <2>5. RestoreInv'
    BY <1>0, <1>4, <2>1, VerifiedFields, <1>9 DEF WaitRestored, HookAt, IInv, RestoreInv, Native, Checking, RolledOut
  <2> QED
    BY <1>0, <2>2, <2>3, <2>4, <2>5, MoveStep
<1>5. CASE ~hook.empty /\ ~schema /\ deployment.image = Target(hook.plan, hook.all) /\ RolledOut
  BY <1>0, <1>5, FailStep DEF WaitRestored, Fail, Shapes
<1> QED
  BY <1>1, <1>2, <1>3, <1>4, <1>5

\* The verification of what is active ends the hook.
LEMMA VerifyStep == ASSUME IInv, Verify PROVE IInv'
  BY FailStep DEF Verify, Fail, IInv, Shapes

\* A cut-off hook leaves everything to the next one.
LEMMA AbortStep == ASSUME IInv, Abort PROVE IInv'
  BY FailStep DEF Abort, Fail, IInv, Shapes

\* nativeHook starts from the receipt, with nothing remembered of an earlier run.
LEMMA LoadStep == ASSUME IInv, Load PROVE IInv'
<1>0. UNCHANGED <<Native, secret, helm>> /\ Shapes /\ Receipt \in Plan
  BY DEF Load, IInv, Shapes, Receipt
<1> DEFINE start(label) == hook' = [NoHook EXCEPT !.at = label, !.plan = Receipt, !.all = (helm.act = "uninstall")]
<1>1. ASSUME NEW label \in Labels, start(label)
      PROVE  hook' \in HookType /\ hook'.at = label /\ hook'.plan = Receipt
  BY <1>0, <1>1 DEF NoHook, HookType, Thens
<1>2. CASE Fail
  BY <1>0, <1>2, FailStep DEF Fail, Shapes
<1>3. CASE start("restore") /\ Receipt # NoPlan
  <2>1. PlanInv' /\ InstallInv' /\ RestoreInv'
    BY <1>0, <1>1, <1>3 DEF PlanInv, InstallInv, RestoreInv, Receipt, Labels, Installing, Restoring, Checking
  <2> QED
    BY <1>0, <1>1, <1>3, <2>1, MoveStep DEF Labels, Restoring
<1>4. CASE start("delete") /\ ~schema
  <2>1. PlanInv' /\ InstallInv' /\ RestoreInv'
    BY <1>0, <1>1, <1>4 DEF Native, PlanInv, InstallInv, RestoreInv, Labels, Installing, Restoring, Checking
  <2> QED
    BY <1>0, <1>1, <1>4, <2>1, MoveStep DEF Labels
<1>5. CASE start("walk") /\ secret.pending = NoPlan
  <2>1. PlanInv' /\ InstallInv' /\ RestoreInv'
    BY <1>0, <1>1, <1>5 DEF PlanInv, InstallInv, RestoreInv, Labels, Installing, Restoring, Checking
  <2> QED
    BY <1>0, <1>1, <1>5, <2>1, MoveStep DEF Labels
<1>6. CASE start("install") /\ secret.pending # NoPlan
  <2>1. PlanInv' /\ InstallInv' /\ RestoreInv'
    BY <1>0, <1>1, <1>6 DEF PlanInv, InstallInv, RestoreInv, Receipt, Labels, Installing, Restoring, Checking
  <2> QED
    BY <1>0, <1>1, <1>6, <2>1, MoveStep DEF Labels, Installing
<1>7. \/ Fail
      \/ start("restore") /\ Receipt # NoPlan
      \/ start("delete") /\ ~schema
      \/ start("walk") /\ secret.pending = NoPlan
      \/ start("install") /\ secret.pending # NoPlan
  BY DEF Load, Receipt
<1> QED
  BY <1>2, <1>3, <1>4, <1>5, <1>6, <1>7

\* Walk keeps a receipt at hand: the active plan becomes pending before it is undone.
LEMMA WalkStep == ASSUME IInv, Walk PROVE IInv'
<1> DEFINE a == secret.active
           back == Image(a) # helm.image /\ HasImage(Previous(a), helm.image)
<1>0. /\ UNCHANGED <<Native, helm>> /\ Shapes
      /\ hook.at = "walk" /\ secret.pending = NoPlan /\ a \in Plan /\ hook \in HookType
  BY DEF Walk, HookAt, IInv, Shapes, PlanInv
<1>1. CASE back
  <2>1. a # NoPlan
    <3>1. CASE a = NoPlan
      <4>1. Previous(a) = NoPlan
        BY <3>1, PreviousPlan DEF NoPlan, Depth, Previous
      <4> QED
        BY <1>1, <4>1 DEF HasImage, NoPlan, Depth
    <3> QED
      BY <3>1
  <2>2. /\ hook' = [hook EXCEPT !.at = "restore", !.plan = a]
        /\ secret' = [secret EXCEPT !.pending = a]
    BY <1>1 DEF Walk
  <2>3. /\ hook' \in HookType /\ hook'.at = "restore" /\ hook'.plan = a
        /\ secret'.pending = a /\ secret'.active = a /\ secret' \in [active : Plan, pending : Plan]
    BY <1>0, <2>2 DEF HookType, Labels, Restoring, Shapes
  <2>4. Shapes'
    BY <1>0, <2>3 DEF Shapes, Native
  <2>5. PlanInv' /\ InstallInv' /\ RestoreInv'
    BY <2>1, <2>3 DEF PlanInv, InstallInv, RestoreInv, Receipt, Installing, Restoring, Checking
  <2>6. SchemaLast' /\ Receipted'
    BY <1>0, <2>1, <2>3 DEF IInv, Native, SchemaLast, Receipted
  <2> QED
    BY <2>4, <2>5, <2>6 DEF IInv
<1>2. CASE ~back
  <2>0. UNCHANGED secret
    BY <1>2 DEF Walk
  <2>1. CASE hook' = [hook EXCEPT !.at = "verify"]
    <3>1. hook' \in HookType /\ hook'.at = "verify"
      BY <1>0, <2>1 DEF HookType, Labels
    <3>2. PlanInv' /\ InstallInv' /\ RestoreInv'
      BY <3>1 DEF PlanInv, InstallInv, RestoreInv, Installing, Restoring, Checking
    <3> QED
      BY <1>0, <2>0, <3>1, <3>2, MoveStep
  <2>2. CASE hook' = [hook EXCEPT !.at = "save", !.plan = MakePlan(a)]
    <3>1. MakePlan(a) \in Plan /\ MakePlan(a).chain = Append(a.chain, helm.image)
      BY <1>0, NewPlan
    <3>2. hook' \in HookType /\ hook'.at = "save" /\ hook'.plan = MakePlan(a)
      BY <1>0, <2>2, <3>1 DEF HookType, Labels
    <3>3. PlanInv' /\ InstallInv' /\ RestoreInv'
      BY <1>0, <2>0, <3>1, <3>2 DEF PlanInv, InstallInv, RestoreInv, Installing, Restoring, Checking
    <3> QED
      BY <1>0, <2>0, <3>2, <3>3, MoveStep
  <2>3. CASE hook' = NoHook
    BY <1>0, <2>0, <2>3, FailStep DEF Shapes
  <2> QED
    BY <1>2, <2>1, <2>2, <2>3 DEF Walk
<1> QED
  BY <1>1, <1>2

\* The pending plan, durable before anything is touched, embeds the active one.
LEMMA SavePendingStep == ASSUME IInv, SavePending PROVE IInv'
<1>0. /\ UNCHANGED <<Native, helm>> /\ Shapes /\ HookGoes("install")
      /\ hook.at = "save" /\ secret.pending = NoPlan
      /\ hook.plan \in Plan /\ secret.active \in Plan /\ helm.image \in AnyImage
      /\ hook.plan.chain = Append(secret.active.chain, helm.image)
  BY DEF SavePending, HookAt, IInv, Shapes, PlanInv, HookType
<1>1. hook.plan # NoPlan /\ \A i : HasImage(secret.active, i) => HasImage(hook.plan, i)
  BY <1>0, Embeds
<1>2. /\ secret'.pending = hook.plan /\ secret'.active = secret.active
      /\ secret' \in [active : Plan, pending : Plan]
  BY <1>0 DEF SavePending, Shapes
<1>3. hook' \in HookType /\ hook'.at = "install" /\ hook'.plan = hook.plan
  BY <1>0, GoFields DEF Labels, Installing
<1>4. Shapes'
  BY <1>0, <1>2, <1>3 DEF Shapes, Native
<1>5. PlanInv' /\ InstallInv' /\ RestoreInv'
  BY <1>1, <1>2, <1>3 DEF PlanInv, InstallInv, RestoreInv, Installing, Restoring, Checking
<1>6. SchemaLast' /\ Receipted'
  BY <1>0, <1>1, <1>2 DEF IInv, Native, SchemaLast, Receipted
<1> QED
  BY <1>4, <1>5, <1>6 DEF IInv

\* Without the schema the installation starts with the schema.
LEMMA InstallStep == ASSUME IInv, Install PROVE IInv'
<1>0. UNCHANGED <<Native, secret, helm>> /\ Shapes /\ hook \in HookType /\ hook.at = "install"
  BY DEF Install, HookAt, IInv, Shapes
<1>1. CASE Fail
  BY <1>0, <1>1, FailStep DEF Fail, Shapes
<1>2. CASE hook' = [hook EXCEPT !.at = "preflight", !.rv = deployment.rv,
                                !.then = IF schema THEN "" ELSE "schema"]
  <2>1. /\ hook' \in HookType /\ hook'.at = "preflight" /\ hook'.plan = hook.plan
        /\ hook'.then # "schema" => schema
    BY <1>0, <1>2 DEF HookType, Labels, Installing, Thens, Shapes
  <2>2. PlanInv' /\ InstallInv' /\ RestoreInv'
    BY <1>0, <2>1 DEF IInv, Native, PlanInv, InstallInv, RestoreInv, Installing, Restoring, Checking
  <2> QED
    BY <1>0, <2>1, <2>2, MoveStep
<1> QED
  BY <1>1, <1>2 DEF Install

\* A restoration starts only from a state its receipt explains.
LEMMA RestoreStep == ASSUME IInv, Restore PROVE IInv'
<1>0. UNCHANGED <<Native, secret, helm>> /\ Shapes /\ hook \in HookType /\ hook.at = "restore"
  BY DEF Restore, HookAt, IInv, Shapes
<1>1. CASE ~Explained(hook.plan, hook.all)
  BY <1>0, <1>1, FailStep DEF Restore, Fail, Shapes
<1>2. CASE Explained(hook.plan, hook.all)
  <2> DEFINE stock == ToStock(hook.plan, hook.all)
             then == IF deployment.image = Target(hook.plan, hook.all) THEN "unroll" ELSE "again"
  <2>0. hook' = [hook EXCEPT !.at = "acks", !.rv = deployment.rv, !.empty = stock, !.then = then]
    BY <1>2 DEF Restore
  <2>1. stock \in BOOLEAN /\ then \in {"unroll", "again"} /\ deployment.rv \in Nat
    BY <1>0 DEF ToStock, First, Shapes, HookType
  <2> HIDE DEF stock, then
  <2>2. /\ hook' \in HookType /\ hook'.at = "acks" /\ hook'.plan = hook.plan /\ hook'.all = hook.all
        /\ hook'.then = then /\ hook'.empty = stock
    BY <1>0, <2>0, <2>1 DEF HookType, Labels, Restoring, Checking, Thens
  <2>3. schema \/ stock
    BY <1>2 DEF Explained, stock
  <2>4. PlanInv' /\ InstallInv'
    BY <1>0, <2>2 DEF IInv, PlanInv, InstallInv, Receipt, Installing, Restoring, Checking
  <2>5. hook'.empty = ToStock(hook'.plan, hook'.all)
    BY <2>2 DEF stock
  <2>6. RestoreInv'
    BY <1>0, <2>1, <2>2, <2>3, <2>5 DEF Native, RestoreInv, Checking
  <2> QED
    BY <1>0, <2>2, <2>4, <2>6, MoveStep
<1> QED
  BY <1>1, <1>2

\* The schema comes first: nothing but the original image runs by then.
LEMMA PatchSchemaStep == ASSUME IInv, PatchSchema PROVE IInv'
<1>0. /\ UNCHANGED <<deployment, pods, secret, vpc, rows, worker, helm>> /\ Shapes
      /\ hook \in HookType /\ hook.at = "schema" /\ schema' = TRUE
      /\ hook' = [hook EXCEPT !.at = "preflight", !.then = ""]
  BY DEF PatchSchema, HookAt, IInv, Shapes
<1>1. hook' \in HookType /\ hook'.at = "preflight" /\ hook'.plan = hook.plan
  BY <1>0 DEF HookType, Labels, Installing, Thens
<1>2. Shapes'
  BY <1>0, <1>1 DEF Shapes
<1>3. PlanInv' /\ InstallInv' /\ RestoreInv'
  BY <1>0, <1>1 DEF IInv, PlanInv, InstallInv, RestoreInv, Installing, Restoring, Checking
<1>4. SchemaLast' /\ Receipted'
  BY <1>0 DEF IInv, PlanInv, Installing, SchemaLast, Receipted
<1> QED
  BY <1>2, <1>3, <1>4 DEF IInv

\* The patched image is the pending plan's.
LEMMA PatchImageStep == ASSUME IInv, PatchImage PROVE IInv'
<1>0. /\ UNCHANGED <<schema, pods, secret, vpc, rows, worker, helm>> /\ Shapes
      /\ hook \in HookType /\ hook.at = "image" /\ schema /\ Patched(Image(hook.plan), "rollout")
      /\ hook.plan = secret.pending /\ hook.plan # NoPlan /\ hook.plan \in Plan
  BY DEF PatchImage, HookAt, IInv, Shapes, PlanInv, InstallInv, Installing, HookType
<1>1. CASE deployment.rv # hook.rv
  BY <1>0, <1>1, FailStep DEF Patched, Fail, Native, Shapes
<1>2. CASE deployment.rv = hook.rv
  <2>1. deployment' = [image |-> Image(hook.plan), rv |-> deployment.rv + 1] /\ HookGoes("rollout")
    BY <1>0, <1>2 DEF Patched
  <2>2. Image(hook.plan) \in AnyImage /\ HasImage(hook.plan, Image(hook.plan))
    BY <1>0, OwnImage
  <2>3. hook' \in HookType /\ hook'.at = "rollout" /\ hook'.plan = hook.plan
    BY <1>0, <2>1, GoFields DEF Labels, Installing
  <2>4. Shapes'
    BY <1>0, <2>1, <2>2, <2>3 DEF Shapes
  <2>5. PlanInv' /\ InstallInv' /\ RestoreInv'
    BY <1>0, <2>3 DEF PlanInv, InstallInv, RestoreInv, Installing, Restoring, Checking
  <2>6. SchemaLast' /\ Receipted'
    BY <1>0, <2>1, <2>2 DEF SchemaLast, Receipted
  <2> QED
    BY <2>4, <2>5, <2>6 DEF IInv
<1> QED
  BY <1>1, <1>2

\* The pending plan becomes the active one once its image runs.
LEMMA ActivateStep == ASSUME IInv, Activate PROVE IInv'
<1>0. /\ UNCHANGED <<Native, helm>> /\ Shapes /\ hook.at = "rollout"
      /\ hook.plan = secret.pending /\ hook.plan # NoPlan /\ hook.plan \in Plan
  BY DEF Activate, HookAt, IInv, Shapes, PlanInv, Installing, HookType
<1>1. CASE ~(deployment.image = Image(hook.plan) /\ RolledOut /\ schema)
  BY <1>0, <1>1, FailStep DEF Activate, Fail, Shapes
<1>2. CASE deployment.image = Image(hook.plan) /\ RolledOut /\ schema
  <2>1. HookGoes("walk") /\ secret' = [active |-> hook.plan, pending |-> NoPlan]
    BY <1>2 DEF Activate
  <2>2. hook' \in HookType /\ hook'.at = "walk"
    BY <1>0, <2>1, GoFields DEF Labels
  <2>3. HasImage(hook.plan, deployment.image)
    BY <1>0, <1>2, OwnImage
  <2>4. Shapes'
    BY <1>0, <2>1, <2>2 DEF Shapes, Native, Plan
  <2>5. PlanInv' /\ InstallInv' /\ RestoreInv'
    BY <2>1, <2>2 DEF PlanInv, InstallInv, RestoreInv, Installing, Restoring, Checking
  <2>6. SchemaLast' /\ Receipted'
    BY <1>0, <2>1, <2>3 DEF IInv, Native, SchemaLast, Receipted
  <2> QED
    BY <2>4, <2>5, <2>6 DEF IInv
<1> QED
  BY <1>1, <1>2

\* The restored image is stock or one the receipt names; without the schema it is stock.
LEMMA UnpatchImageStep == ASSUME IInv, UnpatchImage PROVE IInv'
<1> DEFINE target == Target(hook.plan, hook.all)
<1>0. /\ UNCHANGED <<schema, pods, secret, vpc, rows, worker, helm>> /\ Shapes
      /\ hook \in HookType /\ hook.at = "unpatch" /\ Patched(target, "unroll")
      /\ hook.plan = Receipt /\ hook.plan # NoPlan /\ hook.plan \in Plan /\ hook.all \in BOOLEAN
      /\ hook.empty = ToStock(hook.plan, hook.all) /\ (schema \/ hook.empty)
  BY DEF UnpatchImage, HookAt, IInv, Shapes, PlanInv, RestoreInv, Restoring, Checking, HookType
<1>1. CASE deployment.rv # hook.rv
  BY <1>0, <1>1, FailStep DEF Patched, Fail, Native, Shapes
<1>2. CASE deployment.rv = hook.rv
  <2>1. deployment' = [image |-> target, rv |-> deployment.rv + 1] /\ HookGoes("unroll")
    BY <1>0, <1>2 DEF Patched
  <2>2. /\ target \in AnyImage /\ (target = Stock \/ HasImage(hook.plan, target))
        /\ ~schema => target = Stock
    BY <1>0, StockTarget
  <2> HIDE DEF target
  <2>3. /\ hook' \in HookType /\ hook'.at = "unroll" /\ hook'.plan = hook.plan
        /\ hook'.all = hook.all /\ hook'.empty = hook.empty
    BY <1>0, <2>1, GoFields DEF Labels, Restoring, Checking
  <2>4. Shapes'
    BY <1>0, <2>1, <2>2, <2>3 DEF Shapes
  <2>5. PlanInv' /\ InstallInv' /\ RestoreInv'
    BY <1>0, <2>3 DEF PlanInv, InstallInv, RestoreInv, Receipt, Installing, Restoring, Checking
  <2>6. SchemaLast' /\ Receipted'
    BY <1>0, <2>1, <2>2 DEF IInv, SchemaLast, Receipted, Receipt
  <2> QED
    BY <2>4, <2>5, <2>6 DEF IInv
<1> QED
  BY <1>1, <1>2

\* The schema goes last.
LEMMA RemoveSchemaStep == ASSUME IInv, RemoveSchema PROVE IInv'
<1>0. /\ UNCHANGED <<deployment, pods, secret, vpc, rows, worker, helm>> /\ Shapes
      /\ hook \in HookType /\ hook.at = "unschema" /\ schema' = FALSE /\ HookGoes("restored")
      /\ deployment.image = Stock /\ pods = {Stock} /\ ~rows /\ hook.empty
      /\ hook.plan = Receipt /\ hook.plan # NoPlan /\ hook.plan \in Plan /\ hook.all \in BOOLEAN
      /\ hook.empty = ToStock(hook.plan, hook.all)
  BY DEF RemoveSchema, HookAt, IInv, Shapes, HookType, PlanInv, RestoreInv, Restoring, Checking
<1>1. /\ hook' \in HookType /\ hook'.at = "restored" /\ hook'.plan = hook.plan
      /\ hook'.all = hook.all /\ hook'.empty = hook.empty
  BY <1>0, GoFields DEF Labels, Restoring, Checking
<1>2. Target(hook.plan, hook.all) = Stock
  BY <1>0, StockTarget
<1>3. Shapes'
  BY <1>0, <1>1 DEF Shapes
<1>4. PlanInv' /\ InstallInv'
  BY <1>0, <1>1 DEF PlanInv, InstallInv, Receipt, Installing, Restoring, Checking
<1>5. RestoreInv'
  BY <1>0, <1>1, <1>2 DEF RestoreInv
<1>6. SchemaLast' /\ Receipted'
  BY <1>0 DEF SchemaLast, Receipted
<1> QED
  BY <1>3, <1>4, <1>5, <1>6 DEF IInv

\* One plan shorter: the receipt names what was restored.
LEMMA RestoredStep == ASSUME IInv, Restored PROVE IInv'
<1>0. /\ UNCHANGED <<Native, helm>> /\ Shapes
      /\ hook \in HookType /\ hook.at = "restored"
      /\ hook.plan = Receipt /\ hook.plan # NoPlan /\ hook.plan \in Plan /\ hook.all \in BOOLEAN
      /\ hook.empty = ToStock(hook.plan, hook.all) /\ (hook.empty => ~schema)
      /\ deployment.image = Target(hook.plan, hook.all)
  BY DEF Restored, HookAt, IInv, Shapes, HookType, PlanInv, RestoreInv, Restoring, Checking
<1>1. CASE hook.all
  <2>1. HookGoes("delete") /\ UNCHANGED secret /\ ~schema
    BY <1>0, <1>1 DEF Restored, ToStock
  <2>2. hook' \in HookType /\ hook'.at = "delete"
    BY <1>0, <2>1, GoFields DEF Labels
  <2>3. PlanInv' /\ InstallInv' /\ RestoreInv'
    BY <1>0, <2>1, <2>2 DEF Native, PlanInv, InstallInv, RestoreInv, Installing, Restoring, Checking
  <2> QED
    BY <1>0, <2>1, <2>2, <2>3, MoveStep
<1>2. CASE ~hook.all
  <2>1. HookGoes("walk") /\ secret' = [active |-> Previous(hook.plan), pending |-> NoPlan]
    BY <1>2 DEF Restored
  <2>2. hook' \in HookType /\ hook'.at = "walk"
    BY <1>0, <2>1, GoFields DEF Labels
  <2>3. Previous(hook.plan) \in Plan /\ NoPlan \in Plan
    BY <1>0, PreviousPlan DEF Plan
  <2>4. secret'.active = Previous(hook.plan) /\ secret'.pending = NoPlan
    BY <2>1
  <2>5. Shapes'
    BY <1>0, <2>1, <2>2, <2>3 DEF Shapes, Native
  <2>6. PlanInv' /\ InstallInv' /\ RestoreInv'
    BY <2>2, <2>4 DEF PlanInv, InstallInv, RestoreInv, Installing, Restoring, Checking
  <2>7. SchemaLast'
    BY <1>0 DEF IInv, Native, SchemaLast
  <2>8. CASE First(hook.plan)
    <3>1. ~schema /\ deployment.image = Stock
      BY <1>0, <2>8 DEF ToStock, IInv, SchemaLast
    <3> QED
      BY <1>0, <2>5, <2>6, <2>7, <3>1 DEF IInv, Native, Receipted
  <2>9. CASE ~First(hook.plan)
    <3>1. Previous(hook.plan) # NoPlan /\ HasImage(Previous(hook.plan), deployment.image)
      BY <1>0, <1>2, <2>9, PreviousPlan DEF Target
    <3> QED
      BY <1>0, <2>4, <2>5, <2>6, <2>7, <3>1 DEF IInv, Native, Receipted
  <2> QED
    BY <2>8, <2>9
<1> QED
  BY <1>1, <1>2

\* The receipt is deleted when nothing is left to name.
LEMMA DeleteReceiptStep == ASSUME IInv, DeleteReceipt PROVE IInv'
<1>0. /\ UNCHANGED Native /\ Shapes /\ ~schema /\ hook' = NoHook
      /\ secret' = [active |-> NoPlan, pending |-> NoPlan]
      /\ helm' = [helm EXCEPT !.done = TRUE]
  BY DEF DeleteReceipt, HookAt, Fail, IInv, RestoreInv
<1>1. NoHook \in HookType /\ NoPlan \in Plan
  BY DEF NoHook, HookType, Labels, Thens, Plan
<1>2. Shapes'
  BY <1>0, <1>1 DEF Shapes, Native
<1>3. PlanInv' /\ InstallInv' /\ RestoreInv'
  BY <1>0 DEF NoHook, PlanInv, InstallInv, RestoreInv, Installing, Restoring, Checking
<1>4. SchemaLast' /\ Receipted'
  BY <1>0 DEF IInv, Native, SchemaLast, Receipted
<1> QED
  BY <1>2, <1>3, <1>4 DEF IInv

-----------------------------------------------------------------------------
(* Kubernetes, the patched controller, tenants and the administrator *)

\* What the cluster and its users do while the hook is where it is: the schema, the
\* image and the receipt stay, and a rolled-out original image with all its rows gone
\* stays that way.
LEMMA OutsideStep ==
  ASSUME IInv, Shapes',
         UNCHANGED <<schema, deployment.image, secret, hook>>,
         hook.at = "save" => UNCHANGED helm.image,
         pods = {Stock} /\ deployment.image = Stock => UNCHANGED <<pods, rows>>
  PROVE  IInv'
<1>1. PlanInv' /\ InstallInv'
  BY DEF IInv, PlanInv, InstallInv, Receipt
<1>2. RestoreInv'
  BY DEF IInv, RestoreInv
<1>3. SchemaLast' /\ Receipted'
  BY DEF IInv, SchemaLast, Receipted
<1> QED
  BY <1>1, <1>2, <1>3 DEF IInv

\* A rollout has work to do only while other images than the wanted one run.
LEMMA RolloutStep == ASSUME IInv, Rollout PROVE IInv'
<1>0. /\ UNCHANGED <<schema, secret, vpc, rows, hook, helm>> /\ Shapes
      /\ deployment' = [deployment EXCEPT !.rv = @ + 1] /\ ~RolledOut
      /\ pods' \in {pods \cup {deployment.image}, {deployment.image}}
  BY DEF Rollout, IInv
<1>1. UNCHANGED deployment.image /\ Shapes'
  <2>1. deployment' \in [image : AnyImage, rv : Nat] /\ UNCHANGED deployment.image
    BY <1>0 DEF Shapes
  <2>2. pods' \in SUBSET AnyImage
    BY <1>0 DEF Shapes
  <2> QED
    BY <1>0, <2>1, <2>2 DEF Shapes
<1>2. ~(pods = {Stock} /\ deployment.image = Stock)
  BY <1>0 DEF RolledOut
<1> QED
  BY <1>0, <1>1, <1>2, OutsideStep

\* Other writes of the Deployment leave its image alone.
LEMMA ChurnStep == ASSUME IInv, Churn PROVE IInv'
<1>1. UNCHANGED <<schema, pods, secret, vpc, rows, worker, hook, helm>> /\ Shapes
  BY DEF Churn, IInv
<1>2. UNCHANGED deployment.image /\ Shapes'
  BY <1>1 DEF Churn, Shapes
<1> QED
  BY <1>1, <1>2, OutsideStep

\* Only a patched controller writes rows.
LEMMA ControlStep == ASSUME IInv, Control PROVE IInv'
<1>1. UNCHANGED <<schema, deployment, pods, secret, hook, helm>> /\ Shapes /\ pods # {Stock}
  BY DEF Control, Controlled, IInv
<1>2. Shapes'
  BY <1>1 DEF Shapes
<1> QED
  BY <1>1, <1>2, OutsideStep

\* Tenants change their intent, not the installation.
LEMMA AddIntentStep == ASSUME IInv, AddIntent PROVE IInv'
<1>1. UNCHANGED <<schema, deployment, pods, secret, rows, hook, helm>> /\ Shapes
  BY DEF AddIntent, IInv
<1>2. Shapes'
  BY <1>1 DEF Shapes
<1> QED
  BY <1>1, <1>2, OutsideStep

\* So they do when they withdraw their routes.
LEMMA ClearIntentStep == ASSUME IInv, ClearIntent PROVE IInv'
<1>1. UNCHANGED <<schema, deployment, pods, secret, rows, hook, helm>> /\ Shapes
  BY DEF ClearIntent, IInv
<1>2. Shapes'
  BY <1>1 DEF Shapes
<1> QED
  BY <1>1, <1>2, OutsideStep

\* A new operation is asked for only between hooks.
LEMMA RequestStep == ASSUME IInv, Request PROVE IInv'
<1>1. UNCHANGED <<schema, deployment, pods, secret, vpc, rows, worker, hook>> /\ hook.at = "idle" /\ Shapes
  BY DEF Request, HookAt, Native, IInv
<1>2. helm' \in [act : {"reconcile", "uninstall"}, image : AnyImage, done : BOOLEAN]
  <2>1. CASE \E image \in Images : helm' = [act |-> "reconcile", image |-> image, done |-> FALSE]
    <3>1. PICK image \in Images : helm' = [act |-> "reconcile", image |-> image, done |-> FALSE]
      BY <2>1
    <3>2. image \in AnyImage /\ FALSE \in BOOLEAN
      BY DEF AnyImage
    <3> QED
      BY <3>1, <3>2
  <2>2. CASE helm' = [act |-> "uninstall", image |-> Stock, done |-> FALSE]
    BY <2>2 DEF AnyImage
  <2> QED
    BY <2>1, <2>2 DEF Request
<1>3. Shapes'
  BY <1>1, <1>2 DEF Shapes
<1> QED
  BY <1>1, <1>3, OutsideStep

-----------------------------------------------------------------------------

\* Every step of hook, cluster and users preserves the invariant.
LEMMA NextInv == IInv /\ [ExtensionNext]_extensionVars => IInv'
<1> SUFFICES ASSUME IInv, [ExtensionNext]_extensionVars PROVE IInv'
  OBVIOUS
<1>1. CASE Hook
  BY <1>1, LoadStep, WalkStep, SavePendingStep, InstallStep, InstallPreflightStep, PatchSchemaStep,
     PatchImageStep, ActivateStep, VerifyStep, RestoreStep, CheckACKsStep, CheckRowsStep,
     CheckAgainStep, UnpatchImageStep, WaitRestoredStep, RemoveSchemaStep, RestoredStep,
     DeleteReceiptStep DEF Hook
<1>2. CASE UNCHANGED extensionVars
  <2>1. UNCHANGED <<schema, deployment, pods, secret, vpc, rows, worker, hook, helm>>
    BY <1>2 DEF extensionVars
  <2>2. Shapes'
    BY <2>1 DEF IInv, Shapes
  <2> QED
    BY <2>1, <2>2, OutsideStep
<1> QED
  BY <1>1, <1>2, RolloutStep, ChurnStep, ControlStep, AddIntentStep, ClearIntentStep,
     RequestStep, AbortStep DEF ExtensionNext

\* The inductive invariant holds whatever is asked of Helm and wherever hooks are cut off.
THEOREM Invariant == ExtensionSpec => []IInv
  BY InitInv, NextInv, PTL DEF ExtensionSpec

\* restoreNative: the schema is there as long as a patched controller, its image in the
\* Deployment, or what it wrote into OVN is.
THEOREM SchemaOutlives == ExtensionSpec => []SchemaLast
<1>1. IInv => SchemaLast
  BY DEF IInv
<1> QED
  BY Invariant, <1>1, PTL

\* nativeSaveHookState: the receipt names whatever was changed, wherever a hook was cut off.
THEOREM NothingUnreceipted == ExtensionSpec => []Receipted
<1>1. IInv => Receipted
  BY DEF IInv
<1> QED
  BY Invariant, <1>1, PTL
=============================================================================
