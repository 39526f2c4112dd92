----------------------- MODULE GatewayRegistryProofs -----------------------
(***************************************************************************)
(* For any operators, bindings, peers, members, pools, crashes and         *)
(* destroyed objects: no announced address or port is announced for        *)
(* anything else, an identity keeps its public key, and recovery is asked  *)
(* for only after damage.                                                  *)
(***************************************************************************)
EXTENDS GatewayRegistry, FiniteSetTheorems, WellFoundedInduction, TLAPS

Partial(D, S) == UNION {[E -> S] : E \in SUBSET D}

ClaimType == [b : Bindings, node : Nat, id : Nat, peer : Peers \cup {Health}]
Reg == [uid : Nat, addr : Partial(ClaimType, Addresses), port : Partial(ClaimType, Ports)]
Link == [ip : Nat, port : Nat]
Member == [id : Nat, health : Nat, key : Nat, links : Partial(Peers, Link)]
Members == Partial(Nat, Member)
SpecType == [cross : BOOLEAN, peers : SUBSET Peers]
Secret == [b : Bindings, id : Nat, key : Nat \ {0}]
Pod == [b : Bindings, id : Nat, up : BOOLEAN]
ReceiptType == [claim : ClaimType, ip : Nat, port : Nat, key : Nat]
Asking == {"list", "listBindings", "listPods", "listKeys", "identity", "registry", "create", "anchor", "claim"}
Deleting == {"delete", "keys", "forget", "gone"}
Labels == {"idle", "ledger", "resources", "draft", "work", "pods", "report"} \cup Asking \cup Deleting
View == [b : Bindings, spec : SpecType, status : Members, mem : Members, keyed : SUBSET Nat,
         goal : {"validate", "claim"}, evidence : BOOLEAN, receipts : SUBSET ReceiptType,
         identity : Nat, reg : Reg, tries : Nat, doomed : SUBSET (Pod \cup Secret)]

\* The types of everything that is stored.
Shapes ==
    /\ world \in World /\ Nodes # {}
    /\ registry \in Reg /\ identity \in Nat /\ drawn \in Nat
    /\ ledger \in [Bindings -> Members] /\ status \in [Bindings -> Members]
    /\ spec \in [Bindings -> SpecType]
    /\ secrets \subseteq Secret /\ pods \subseteq Pod /\ announced \subseteq ReceiptType

(***************************************************************************)
(* Where a pass is                                                         *)
(***************************************************************************)

\* Members whose health address is not claimed yet.
Drafts(v) == {n \in DOMAIN v.mem : v.mem[n].health = 0}

\* Before the ledger exists; at most one member waits for its health address.
Early(v) == /\ DOMAIN v.mem \subseteq Nodes /\ v.keyed = {}
            /\ \A n \in DOMAIN v.mem : DOMAIN v.mem[n].links = {}
OneDraft(v) == Early(v) /\ \E n \in Nodes : Drafts(v) = {n}

\* With a ledger; only links to present peers wait for their ports.
Tidy(v) ==
    /\ DOMAIN v.mem = Nodes /\ Drafts(v) = {}
    /\ \A n \in Nodes : \A q \in DOMAIN v.mem[n].links :
        v.mem[n].links[q].port = 0 => q \in v.spec.peers
Linking(v) == Tidy(v) /\ Unfinished(v) # {} /\ First(Unfinished(v)) \in v.keyed

\* A list of members with everything claimed.
Whole(m) ==
    /\ DOMAIN m = Nodes
    /\ \A n \in Nodes : m[n].health # 0 /\ \A q \in DOMAIN m[n].links : m[n].links[q].port # 0
Ready(v) == Whole(v.mem) /\ \A n \in Nodes : v.mem[n].key # 0

Local(l, v) ==
    /\ v.keyed \subseteq Nodes
    /\ \A n \in v.keyed : n \in DOMAIN v.mem /\ v.mem[n].key # 0
    /\ l \in Asking => IF v.goal = "validate" THEN v.keyed = {} ELSE OneDraft(v) \/ Linking(v)
    /\ l \in {"create", "claim"} => v.goal = "claim"
    /\ l \in {"anchor", "claim"} => v.reg.uid # 0
    /\ l \in {"ledger", "resources"} \cup Deleting => v.keyed = {}
    /\ l = "resources" => DOMAIN v.mem = {}
    /\ l = "draft" => Early(v) /\ Drafts(v) = {}
    /\ l = "work" => Tidy(v)
    /\ l \in {"pods", "report"} => Ready(v)

(***************************************************************************)
(* What was granted: g holds every claim the registry ever held            *)
(***************************************************************************)

HasAddr(g, c, ip) == c \in DOMAIN g.addr /\ g.addr[c] = ip
HasPort(g, c, port) == c \in DOMAIN g.port /\ g.port[c] = port

\* One address per claim, one port per claim and node.
Grants(g) ==
    /\ g \in Reg
    /\ DOMAIN g.port \subseteq DOMAIN g.addr
    /\ \A c, d \in DOMAIN g.addr : g.addr[c] = g.addr[d] => c = d
    /\ \A c, d \in DOMAIN g.port : g.port[c] = g.port[d] /\ c.node = d.node => c = d

Within(r, g) ==
    /\ \A c \in DOMAIN r.addr : HasAddr(g, c, r.addr[c])
    /\ \A c \in DOMAIN r.port : HasPort(g, c, r.port[c])

\* What the members m of binding b hold was granted to them.
HoldsHealth(g, b, n, x) == x.health # 0 => HasAddr(g, Claim(b, n, x.id, Health), x.health)
HoldsLink(g, b, n, x, q) ==
    /\ HasAddr(g, Claim(b, n, x.id, q), x.links[q].ip)
    /\ x.links[q].port # 0 => HasPort(g, Claim(b, n, x.id, q), x.links[q].port)
Holds(g, b, m) == \A n \in DOMAIN m :
    HoldsHealth(g, b, n, m[n]) /\ \A q \in DOMAIN m[n].links : HoldsLink(g, b, n, m[n], q)

\* The ledgers and what was reported are complete lists of members.
Listed(g, b, m) == m = << >> \/ (Whole(m) /\ Holds(g, b, m))
Records(g) == \A b \in Bindings : Listed(g, b, ledger[b]) /\ Listed(g, b, status[b])

Reported(g) == \A r \in announced :
    Retains(g, r) /\ r.key # 0 /\ (r.port = 0 <=> r.claim.peer = Health)

(***************************************************************************)
(* The registry and its identity                                           *)
(***************************************************************************)

\* What was destroyed is on record, and one of the two is still there.
Damaged == /\ ~("registry" \in hurt /\ "identity" \in hurt)
           /\ "registry" \in hurt \/ "identity" \in hurt => "damage" \in hurt

\* A UID stands for one registry; an absent registry is empty.
UIDs == /\ registry.uid <= drawn /\ identity <= drawn
        /\ registry.uid = 0 => registry = NoRegistry
        /\ registry.addr = << >> \/ DOMAIN registry.addr # {}
        /\ DOMAIN registry.port \subseteq DOMAIN registry.addr

\* Nothing is claimed before the identity pins a registry.
Pinned(g) == "identity" \notin hurt =>
    /\ "registry" \notin hurt => identity \in {0, registry.uid}
    /\ identity = 0 => DOMAIN g.addr = {} /\ pods = {} /\ secrets = {}

\* The registry that passes can write to holds everything that was granted.
Kept(g) == "registry" \notin hurt \/ (identity = registry.uid /\ identity # 0) => Within(g, registry)

Registered(g) == Damaged /\ UIDs /\ Pinned(g) /\ Kept(g) /\ Within(registry, g)

Stored(g) == Shapes /\ Grants(g) /\ Records(g) /\ Reported(g) /\ Registered(g)

(***************************************************************************)
(* What a pass holds                                                       *)
(***************************************************************************)

\* A pass may write only to the registry the identity pins.
Seen(l, v) ==
    /\ v.reg.uid <= drawn
    /\ "registry" \notin hurt => v.reg.uid \in {0, registry.uid}
    /\ "identity" \notin hurt =>
        /\ v.identity # 0 => v.identity = identity
        /\ l = "claim" => v.reg.uid = identity

Placed(g, l, v) == v \in View /\ l \in Labels /\ Local(l, v) /\ Within(v.reg, g) /\ Holds(g, v.b, v.mem)

Passes(g) == /\ pc \in [Operators -> Labels] /\ view \in [Operators -> View]
             /\ \A p \in Operators : Placed(g, pc[p], view[p]) /\ Seen(pc[p], view[p])

Inv(g) == Stored(g) /\ Passes(g)
IInv == \E g : Inv(g)

(***************************************************************************)
(* Members and keys                                                        *)
(***************************************************************************)

\* A single process: whoever acts has nobody beside it.
Alone == world.procs <= 1 => \A p, q \in Operators : pc[p] # "idle" /\ pc[q] # "idle" => p = q

\* The passes that work with a copy of the members, and with a ledger.
Making(l) == l \in Asking \cup {"draft", "work", "pods", "report"}
Recorded(l, v) == l \in {"work", "pods", "report"} \/ (l \in Asking /\ v.goal = "claim" /\ Drafts(v) = {})
Removing(l) == l \in {"keys", "forget"}

\* Every key a member of binding b has recorded is among the secrets S.
Keyed(S, b, m) == \A n \in DOMAIN m : m[n].key # 0 => [b |-> b, id |-> m[n].id, key |-> m[n].key] \in S

\* The binding whose keys a process with nobody beside it is deleting.
Erasing(b) == world.procs <= 1 /\ \E p \in Operators : Removing(pc[p]) /\ view[p].b = b

\* What the copy of a pass has to do with keys, ledgers and Pods.
Backed(S, led, l, v) ==
    /\ Making(l) => Keyed(S, v.b, v.mem)
    /\ Recorded(l, v) => led[v.b] # << >>
Inventory(l, v) ==
    /\ l = "keys" => /\ Resources(v.b) \subseteq v.doomed /\ \A x \in v.doomed : x.b = v.b
                     /\ \A x \in pods : x.b # v.b
    /\ l = "forget" => Resources(v.b) = {} /\ v.mem = ledger[v.b]

MBody ==
    /\ \A b \in Bindings : ledger[b] = << >> => Resources(b) = {}
    /\ \A b \in Bindings : Keyed(secrets, b, ledger[b]) \/ Erasing(b)
    /\ \A p \in Operators : Backed(secrets, ledger, pc[p], view[p])
    /\ world.procs <= 1 => \A p \in Operators : Inventory(pc[p], view[p])
MInv == hurt = {} => MBody

\* Identities are drawn once, and a copy has those of its ledger.
Drawn(d, m) == \A n \in DOMAIN m : m[n].id <= d
Apiece(led, b, m) ==
    /\ \A n, k \in DOMAIN m : m[n].id = m[k].id => n = k
    /\ \A c \in Bindings : \A n \in DOMAIN m, k \in DOMAIN led[c] : m[n].id = led[c][k].id => c = b /\ n = k

\* What the receipts R say of a member's key is what its copy says.
Faithful(R, m) == \A r \in R : \A n \in DOMAIN m : r.claim.id = m[n].id => r.key = m[n].key

Own(d, led, R, l, v) ==
    /\ Drawn(d, v.mem)
    /\ Making(l) => Apiece(led, v.b, v.mem) /\ Faithful(R, v.mem)
    /\ l \in {"pods", "report"} => led[v.b] \in {<< >>, v.mem}

KBody ==
    /\ \A r \in announced : r.claim.id <= drawn
    /\ \A r, s \in announced : r.claim.id = s.claim.id => r.key = s.key
    /\ \A b \in Bindings : Drawn(drawn, ledger[b]) /\ Apiece(ledger, b, ledger[b]) /\ Faithful(announced, ledger[b])
    /\ \A p \in Operators : Own(drawn, ledger, announced, pc[p], view[p])
KInv == world.procs = 1 => KBody

\* A step that only carries the copy of the members along, or drops it.
Alike(m, k) == DOMAIN m = DOMAIN k /\ \A n \in DOMAIN m : m[n].id = k[n].id /\ m[n].key = k[n].key
Follows(l, v, k, w) ==
    /\ ~Removing(k)
    /\ \/ DOMAIN w.mem = {} /\ ~Recorded(k, w)
       \/ /\ Alike(w.mem, v.mem) /\ w.b = v.b
          /\ Making(k) => Making(l)
          /\ Recorded(k, w) => Recorded(l, v)
          /\ k \in {"pods", "report"} => l \in {"pods", "report"} /\ w.mem = v.mem
Quiet(p) ==
    /\ ~Removing(pc[p])
    /\ UNCHANGED <<ledger, secrets, announced>> /\ drawn' \in Nat /\ drawn <= drawn'
    /\ \A b \in Bindings :
        Resources(b)' = {} \/ Resources(b) # {} \/ (Recorded(pc[p], view[p]) /\ b = view[p].b)
    /\ \E l, w : GoTo(p, l, w) /\ Follows(pc[p], view[p], l, w)

\* Nobody acts beside p.
Solo(p) == world.procs <= 1 => \A q \in Operators : q # p => pc[q] = "idle"

-----------------------------------------------------------------------------
(* Functions with a part of a set as domain *)

\* Every set of numbers that is not empty has a first one.
LEMMA FirstIn ==
  ASSUME NEW S \in SUBSET Nat, S # {}
  PROVE  First(S) \in S
<1>1. \E x \in S : \A y \in S : ~(<<y, x>> \in OpToRel(<, Nat))
  BY NatLessThanWellFounded, WFMin
<1>2. \A x, y \in Nat : x < y => <<x, y>> \in OpToRel(<, Nat)
  BY Zenon DEF OpToRel
<1>3. \E x \in S : \A y \in S : ~(y < x)
  BY <1>1, <1>2, Zenon
<1>4. \E x \in S : \A y \in S : x <= y
  BY <1>3
<1> QED
  BY <1>4 DEF First

\* Nothing recorded is a function without arguments.
LEMMA Nothing == \A D, S : << >> \in Partial(D, S) /\ DOMAIN << >> = {}
<1>1. \A S : << >> \in [{} -> S] /\ DOMAIN << >> = {}
  OBVIOUS
<1> QED
  BY <1>1 DEF Partial

\* The arguments and values of a function on a part of D.
LEMMA PartialElim ==
  ASSUME NEW D, NEW S, NEW f \in Partial(D, S)
  PROVE  f \in [DOMAIN f -> S] /\ DOMAIN f \subseteq D /\ \A x \in DOMAIN f : f[x] \in S
  BY DEF Partial

\* A function on a part of D.
LEMMA PartialIntro ==
  ASSUME NEW D, NEW S, NEW E \in SUBSET D, NEW f \in [E -> S]
  PROVE  f \in Partial(D, S)
  BY DEF Partial

\* Put adds one argument or replaces its value (registry.go:254-287).
LEMMA PutPartial ==
  ASSUME NEW D, NEW S, NEW f \in Partial(D, S), NEW x \in D, NEW v \in S
  PROVE  Put(f, x, v) \in Partial(D, S)
<1>1. f \in [DOMAIN f -> S] /\ {x} \cup DOMAIN f \in SUBSET D
  BY PartialElim
<1>2. Put(f, x, v) \in [{x} \cup DOMAIN f -> S]
  BY <1>1 DEF Put
<1> QED
  BY <1>1, <1>2, PartialIntro

\* EXCEPT replaces one value and no argument (reconciler.go:590-622).
LEMMA ExceptPartial ==
  ASSUME NEW D, NEW S, NEW f \in Partial(D, S), NEW x \in DOMAIN f, NEW v \in S
  PROVE  [f EXCEPT ![x] = v] \in Partial(D, S)
<1>1. f \in [DOMAIN f -> S] /\ DOMAIN f \in SUBSET D
  BY PartialElim
<1>2. [f EXCEPT ![x] = v] \in [DOMAIN f -> S]
  BY <1>1
<1> QED
  BY <1>1, <1>2, PartialIntro

-----------------------------------------------------------------------------
(* Typing of what a pass derives *)

\* A pass that has not begun holds nothing (registry.go:103-112).
LEMMA NoViewType ==
  /\ NoRegistry \in Reg /\ NoRegistry.uid = 0
  /\ DOMAIN NoRegistry.addr = {} /\ DOMAIN NoRegistry.port = {}
  /\ NoView \in View /\ NoView.mem = << >> /\ NoView.keyed = {} /\ NoView.goal = "validate"
  /\ NoView.reg = NoRegistry /\ NoView.identity = 0
<1>1. (CHOOSE b \in Bindings : TRUE) \in Bindings
  BY RegistryAssumption
<1>2. NoRegistry \in Reg
  BY Nothing DEF NoRegistry, Reg
<1>3. << >> \in Members
  BY Nothing DEF Members
<1>4. Apart \in SpecType
  BY DEF Apart, SpecType
<1>5. NoView \in View
  BY <1>1, <1>2, <1>3, <1>4 DEF NoView, View
<1> QED
  BY <1>2, <1>5, Nothing DEF NoView, NoRegistry

\* A member and its links (reconciler.go:56-63).
LEMMA MemberFacts ==
  ASSUME NEW m \in Members, NEW n \in DOMAIN m
  PROVE  /\ n \in Nat /\ m[n] \in Member /\ m[n].id \in Nat /\ m[n].health \in Nat
         /\ m[n].key \in Nat /\ DOMAIN m[n].links \subseteq Peers
         /\ m[n].links \in Partial(Peers, Link)
         /\ \A q \in DOMAIN m[n].links : m[n].links[q] \in Link
<1>1. n \in Nat /\ m[n] \in Member
  BY PartialElim DEF Members
<1>2. m[n].links \in Partial(Peers, Link)
  BY <1>1 DEF Member
<1> QED
  BY <1>1, <1>2, PartialElim DEF Member

\* What the members of a binding hold (registry.go:211-231).
LEMMA ReceiptElim ==
  ASSUME NEW b \in Bindings, NEW m \in Members, NEW r \in Receipts(b, m)
  PROVE  \E n \in DOMAIN m :
            \/ r = Receipt(Claim(b, n, m[n].id, Health), m[n].health, 0, m[n].key)
            \/ \E q \in DOMAIN m[n].links :
                r = Receipt(Claim(b, n, m[n].id, q), m[n].links[q].ip, m[n].links[q].port, m[n].key)
  BY DEF Receipts

\* Receipts have the type of a receipt.
LEMMA ReceiptsType ==
  ASSUME NEW b \in Bindings, NEW m \in Members
  PROVE  Receipts(b, m) \subseteq ReceiptType
<1> SUFFICES ASSUME NEW r \in Receipts(b, m) PROVE r \in ReceiptType
  OBVIOUS
<1>1. PICK n \in DOMAIN m :
            \/ r = Receipt(Claim(b, n, m[n].id, Health), m[n].health, 0, m[n].key)
            \/ \E q \in DOMAIN m[n].links :
                r = Receipt(Claim(b, n, m[n].id, q), m[n].links[q].ip, m[n].links[q].port, m[n].key)
  BY ReceiptElim
<1>2. n \in Nat /\ m[n].id \in Nat /\ m[n].health \in Nat /\ m[n].key \in Nat
  BY MemberFacts
<1>3. CASE r = Receipt(Claim(b, n, m[n].id, Health), m[n].health, 0, m[n].key)
  BY <1>2, <1>3 DEF Receipt, Claim, ReceiptType, ClaimType
<1>4. ASSUME NEW q \in DOMAIN m[n].links,
             r = Receipt(Claim(b, n, m[n].id, q), m[n].links[q].ip, m[n].links[q].port, m[n].key)
      PROVE  r \in ReceiptType
  <2>1. q \in Peers /\ m[n].links[q] \in Link
    BY MemberFacts
  <2> QED
    BY <1>2, <1>4, <2>1 DEF Receipt, Claim, ReceiptType, ClaimType, Link
<1> QED
  BY <1>1, <1>3, <1>4

-----------------------------------------------------------------------------
(* What a step of one pass leaves alone *)

SameDamage == /\ \A x \in {"registry", "identity"} : x \in hurt' <=> x \in hurt
              /\ "damage" \in hurt => "damage" \in hurt'
SameNodes == world' \in World /\ world'.nodes = world.nodes

\* The phase of a pass depends on the selected nodes, its copy and its peers only.
LEMMA SameWork ==
  ASSUME NEW v, NEW w, w.mem = v.mem, w.keyed = v.keyed, w.spec = v.spec
  PROVE  /\ Drafts(w) = Drafts(v) /\ (Early(w) <=> Early(v)) /\ (OneDraft(w) <=> OneDraft(v))
         /\ (Tidy(w) <=> Tidy(v)) /\ (Linking(w) <=> Linking(v)) /\ (Ready(w) <=> Ready(v))
<1>1. Drafts(w) = Drafts(v)
  BY DEF Drafts
<1>2. Unfinished(w) = Unfinished(v)
  BY DEF Unfinished, Unlinked
<1> QED
  BY <1>1, <1>2 DEF Early, OneDraft, Tidy, Linking, Ready

\* A pass waits where it is while nodes stay selected.
LEMMA LocalKept ==
  ASSUME SameNodes, NEW l, NEW v
  PROVE  Local(l, v)' <=> Local(l, v)
<1>1. Nodes' = Nodes
  BY DEF SameNodes, Nodes
<1>2. Unfinished(v)' = Unfinished(v)
  BY <1>1 DEF Unfinished, Unlinked
<1>3. (Early(v)' <=> Early(v)) /\ (Tidy(v)' <=> Tidy(v)) /\ (Ready(v)' <=> Ready(v)) /\ Drafts(v)' = Drafts(v)
  BY <1>1 DEF Early, Tidy, Ready, Whole, Drafts
<1>4. (OneDraft(v)' <=> OneDraft(v)) /\ (Linking(v)' <=> Linking(v))
  BY <1>1, <1>2, <1>3 DEF OneDraft, Linking
<1> QED
  BY <1>1, <1>3, <1>4 DEF Local

\* Grants only grow.
LEMMA WithinGrows ==
  ASSUME NEW g, NEW h, Within(g, h), NEW r, Within(r, g)
  PROVE  Within(r, h)
  BY DEF Within, HasAddr, HasPort

LEMMA HoldsGrows ==
  ASSUME NEW g, NEW h, Within(g, h), NEW b, NEW m, Holds(g, b, m)
  PROVE  Holds(h, b, m)
<1>1. \A c, ip : HasAddr(g, c, ip) => HasAddr(h, c, ip)
  BY DEF Within, HasAddr
<1>2. \A c, port : HasPort(g, c, port) => HasPort(h, c, port)
  BY DEF Within, HasPort
<1> QED
  BY <1>1, <1>2 DEF Holds, HoldsHealth, HoldsLink

\* A step of p: the others wait with what they hold.
LEMMA OthersWait ==
  ASSUME NEW g, NEW h, Inv(g), Within(g, h), NEW p \in Operators, NEW l, NEW w, GoTo(p, l, w),
         SameNodes, Placed(h, l, w), Seen(l, w)', Stored(h)',
         \A k, v : Placed(g, k, v) /\ Seen(k, v) => Seen(k, v)'
  PROVE  Inv(h)'
<1> USE DEF Inv, Passes
<1>1. pc' \in [Operators -> Labels] /\ view' \in [Operators -> View]
  BY DEF GoTo, Placed
<1>2. ASSUME NEW q \in Operators PROVE (Placed(h, pc[q], view[q]) /\ Seen(pc[q], view[q]))'
  <2>1. PICK k, v : k = pc'[q] /\ v = view'[q]
    OBVIOUS
  <2>2. (k = l /\ v = w) \/ (k = pc[q] /\ v = view[q])
    BY <2>1 DEF GoTo
  <2>3. Placed(h, k, v)
    BY <2>2, WithinGrows, HoldsGrows DEF Placed
  <2>4. Placed(h, k, v)'
    BY <2>3, LocalKept DEF Placed
  <2>5. Seen(k, v)'
    BY <2>2
  <2> QED
    BY <2>1, <2>4, <2>5
<1> QED
  BY <1>1, <1>2

Keeps == /\ SameNodes /\ SameDamage /\ drawn' \in Nat /\ drawn <= drawn'
         /\ identity' = identity /\ registry'.uid = registry.uid

LEMMA SeenKept ==
  ASSUME Shapes, Keeps, NEW l, NEW v \in View, Seen(l, v)
  PROVE  Seen(l, v)'
<1>1. v.reg.uid \in Nat /\ drawn \in Nat
  BY DEF View, Reg, Shapes
<1> QED
  BY <1>1 DEF Seen, Keeps, SameDamage

\* Such a step that writes neither the registry's nor the identity's UID.
LEMMA Advance ==
  ASSUME NEW g, NEW h, Inv(g), Within(g, h), NEW p \in Operators, NEW l, NEW w, GoTo(p, l, w),
         Keeps, Placed(h, l, w), Seen(l, w), Stored(h)'
  PROVE  Inv(h)'
<1>1. Shapes
  BY DEF Inv, Stored
<1>2. \A k, v : Placed(g, k, v) /\ Seen(k, v) => Seen(k, v)'
  BY <1>1, SeenKept DEF Placed
<1>3. Seen(l, w)'
  BY <1>1, SeenKept DEF Placed
<1> QED
  BY <1>2, <1>3, OthersWait DEF Keeps

\* What is stored keeps its properties as long as nothing is written.
LEMMA RecordsKept ==
  ASSUME NEW g, Records(g), Nodes' = Nodes, UNCHANGED <<ledger, status>>
  PROVE  Records(g)'
<1>1. \A m : Whole(m)' <=> Whole(m)
  BY DEF Whole
<1> QED
  BY <1>1 DEF Records, Listed

LEMMA RegisteredKept ==
  ASSUME NEW g, Registered(g), Shapes, drawn' \in Nat, drawn <= drawn', SameDamage,
         UNCHANGED <<registry, identity, pods, secrets>>
  PROVE  Registered(g)'
<1>1. registry.uid \in Nat /\ identity \in Nat /\ drawn \in Nat
  BY DEF Shapes, Reg
<1>2. Damaged' /\ UIDs'
  BY <1>1 DEF Registered, Damaged, UIDs, SameDamage
<1>3. Pinned(g)' /\ Kept(g)' /\ Within(registry, g)'
  BY DEF Registered, Pinned, Kept, SameDamage, Within
<1> QED
  BY <1>2, <1>3 DEF Registered

LEMMA StoredKept ==
  ASSUME NEW g, Stored(g), SameNodes, SameDamage, UNCHANGED <<store, announced>>
  PROVE  Stored(g)'
<1> USE DEF store
<1>1. Nodes' = Nodes
  BY DEF SameNodes, Nodes
<1>2. Shapes' /\ drawn' \in Nat /\ drawn <= drawn'
  BY <1>1 DEF Shapes, Stored, SameNodes
<1>3. Records(g)'
  BY <1>1, RecordsKept DEF Stored
<1>4. Registered(g)'
  BY <1>2, RegisteredKept DEF Stored
<1>5. Reported(g)'
  BY DEF Stored, Reported
<1> QED
  BY <1>2, <1>3, <1>4, <1>5 DEF Stored

LEMMA Moves ==
  ASSUME NEW g, Inv(g), NEW p \in Operators, NEW l, NEW w, GoTo(p, l, w),
         SameNodes, SameDamage, UNCHANGED <<store, announced>>, Placed(g, l, w), Seen(l, w)
  PROVE  Inv(g)'
<1>1. Stored(g)'
  BY StoredKept DEF Inv
<1>2. Keeps
  BY DEF Keeps, store, Inv, Stored, Shapes
<1>3. Within(g, g)
  BY DEF Within, HasAddr, HasPort
<1> QED
  BY <1>1, <1>2, <1>3, Advance

-----------------------------------------------------------------------------
(* Steps that only move a pass *)

\* A pass that ends holds nothing (registry.go:174-182).
LEMMA StopPlaced ==
  ASSUME NEW g, Inv(g)
  PROVE  Placed(g, "idle", NoView) /\ Seen("idle", NoView)
<1>1. Local("idle", NoView)
  BY NoViewType, Nothing DEF Local, Asking, Deleting
<1>2. Within(NoView.reg, g) /\ Holds(g, NoView.b, NoView.mem)
  BY NoViewType, Nothing DEF Within, Holds
<1>3. drawn \in Nat /\ 0 <= drawn
  BY DEF Inv, Stored, Shapes
<1> QED
  BY <1>1, <1>2, <1>3, NoViewType DEF Placed, Seen, Labels

\* What p holds, and that a binding's objects are typed.
LEMMA Holding ==
  ASSUME NEW g, Inv(g), NEW p \in Operators
  PROVE  /\ Placed(g, pc[p], view[p]) /\ Seen(pc[p], view[p]) /\ view[p] \in View
         /\ view[p].b \in Bindings /\ view[p].mem \in Members /\ view[p].reg \in Reg
         /\ view[p].status \in Members /\ view[p].spec \in SpecType /\ view[p].keyed \in SUBSET Nat
         /\ view[p].goal \in {"validate", "claim"} /\ view[p].identity \in Nat
         /\ spec[view[p].b] \in SpecType /\ ledger[view[p].b] \in Members /\ status[view[p].b] \in Members
  BY DEF Inv, Passes, Placed, View, Stored, Shapes

LEMMA BeginPassInv ==
  ASSUME NEW g, Inv(g), NEW p \in Operators, NEW b \in Bindings, BeginPass(p, b), SameNodes, SameDamage
  PROVE  Inv(g)'
<1>1. PICK l, w : /\ l = IF ~spec[b].cross THEN "delete" ELSE "list"
                  /\ w = [NoView EXCEPT !.b = b, !.spec = spec[b], !.status = status[b]]
  OBVIOUS
<1>2. GoTo(p, l, w) /\ UNCHANGED <<store, announced>>
  BY <1>1 DEF BeginPass
<1>3. spec[b] \in SpecType /\ status[b] \in Members
  BY DEF Inv, Stored, Shapes
<1>4. /\ w \in View /\ w.mem = << >> /\ w.keyed = {} /\ w.goal = "validate"
      /\ w.reg = NoRegistry /\ w.identity = 0 /\ w.b = b
  BY <1>1, <1>3, NoViewType DEF View
<1>5. Local(l, w)
  BY <1>1, <1>4, NoViewType, Nothing DEF Local, Asking, Deleting
<1>6. Within(w.reg, g) /\ Holds(g, w.b, w.mem)
  BY <1>4, NoViewType, Nothing DEF Within, Holds
<1>7. drawn \in Nat /\ 0 <= drawn
  BY DEF Inv, Stored, Shapes
<1>8. Placed(g, l, w) /\ Seen(l, w)
  BY <1>1, <1>4, <1>5, <1>6, <1>7, NoViewType DEF Placed, Seen, Labels, Asking, Deleting
<1> QED
  BY <1>2, <1>8, Moves

\* From question to question a pass keeps its copy of the members.
LEMMA AskOn ==
  ASSUME NEW g, NEW l \in Asking, NEW v, Placed(g, l, v), NEW w \in View,
         w.mem = v.mem, w.keyed = v.keyed, w.spec = v.spec, w.goal = v.goal, w.b = v.b,
         Within(w.reg, g), NEW k \in Asking, k = "create" => w.goal = "claim",
         k = "claim" => w.goal = "claim", k \in {"anchor", "claim"} => w.reg.uid # 0
  PROVE  Placed(g, k, w)
<1>1. Local(k, w)
  BY SameWork DEF Placed, Local, Asking, Deleting
<1> QED
  BY <1>1 DEF Placed, Labels

\* What the members of all bindings hold (registry.go:124, 217).
LEMMA ReceiptsListed ==
  ASSUME NEW g, Inv(g)
  PROVE  LedgerReceipts \subseteq ReceiptType /\ StatusReceipts \subseteq ReceiptType
<1>1. \A b \in Bindings : ledger[b] \in Members /\ status[b] \in Members
  BY DEF Inv, Stored, Shapes
<1> QED
  BY <1>1, ReceiptsType DEF LedgerReceipts, StatusReceipts

\* A list adds to what the pass has seen (registry.go:104-167).
LEMMA ListsInv ==
  ASSUME NEW g, Inv(g), NEW p \in Operators, pc[p] \in Asking, NEW k \in Asking,
         k \notin {"create", "anchor", "claim"}, NEW e \in BOOLEAN, NEW r \in SUBSET ReceiptType,
         Lists(p, k, e, r), SameNodes, SameDamage
  PROVE  Inv(g)'
<1>1. PICK w : w = [view[p] EXCEPT !.evidence = @ \/ e, !.receipts = @ \cup r]
  OBVIOUS
<1>2. GoTo(p, k, w) /\ UNCHANGED <<store, announced>>
  BY <1>1 DEF Lists
<1>3. /\ w \in View /\ w.mem = view[p].mem /\ w.keyed = view[p].keyed /\ w.spec = view[p].spec
      /\ w.goal = view[p].goal /\ w.b = view[p].b /\ w.reg = view[p].reg /\ w.identity = view[p].identity
  BY <1>1, Holding DEF View
<1>4. Placed(g, k, w)
  BY <1>3, Holding, AskOn DEF Placed
<1>5. Seen(k, w)
  BY <1>3, Holding DEF Seen
<1> QED
  BY <1>2, <1>4, <1>5, Moves

LEMMA ListInv ==
  ASSUME NEW g, Inv(g), NEW p \in Operators, List(p), SameNodes, SameDamage
  PROVE  Inv(g)'
<1>1. CASE ListLedgers(p)
  BY <1>1, ReceiptsListed, ListsInv DEF ListLedgers, Asking
<1>2. CASE ListBindings(p)
  <2> DEFINE own == IF view[p].goal = "validate" THEN view[p].status ELSE << >>
  <2>1. << >> \in Members
    BY Nothing DEF Members
  <2>2. own \in Members /\ view[p].b \in Bindings
    BY <2>1, Holding
  <2>3. StatusReceipts \cup Receipts(view[p].b, own) \subseteq ReceiptType
    BY <2>2, ReceiptsListed, ReceiptsType
  <2> QED
    BY <1>2, <2>3, ListsInv DEF ListBindings, Asking
<1>3. ASSUME NEW k \in {"listKeys", "identity"}, NEW S, Lists(p, k, S # {}, {}), pc[p] \in {"listPods", "listKeys"}
      PROVE  Inv(g)'
  <2>1. {} \in SUBSET ReceiptType /\ k \in Asking /\ k \notin {"create", "anchor", "claim"} /\ pc[p] \in Asking
    BY <1>3 DEF Asking
  <2>2. PICK e \in BOOLEAN : e = (S # {})
    OBVIOUS
  <2>3. Lists(p, k, e, {})
    BY <1>3, <2>2
  <2> QED
    BY <2>1, <2>3, ListsInv
<1>4. CASE ListGatewayPods(p) \/ ListKeys(p)
  BY <1>3, <1>4 DEF ListGatewayPods, ListKeys
<1> QED
  BY <1>1, <1>2, <1>3, <1>4 DEF List

LEMMA GetIdentityInv ==
  ASSUME NEW g, Inv(g), NEW p \in Operators, GetIdentity(p), SameNodes, SameDamage
  PROVE  Inv(g)'
<1>1. PICK w : w = [view[p] EXCEPT !.identity = identity]
  OBVIOUS
<1>2. GoTo(p, "registry", w) /\ UNCHANGED <<store, announced>> /\ pc[p] = "identity"
  BY <1>1 DEF GetIdentity
<1>3. identity \in Nat
  BY DEF Inv, Stored, Shapes
<1>4. /\ w \in View /\ w.mem = view[p].mem /\ w.keyed = view[p].keyed /\ w.spec = view[p].spec
      /\ w.goal = view[p].goal /\ w.b = view[p].b /\ w.reg = view[p].reg /\ w.identity = identity
  BY <1>1, <1>3, Holding DEF View
<1>5. Placed(g, "registry", w)
  BY <1>2, <1>4, Holding, AskOn DEF Asking, Placed
<1>6. Seen("registry", w)
  BY <1>2, <1>4, Holding DEF Seen
<1> QED
  BY <1>2, <1>5, <1>6, Moves

-----------------------------------------------------------------------------
(* registry(): what a pass concludes from the registry *)

\* registry() returns with the registry it accepted (registry.go:231).
LEMMA ResumePlaced ==
  ASSUME NEW g, NEW l \in Asking, NEW v, Placed(g, l, v), v.goal = "claim" => v.reg.uid # 0
  PROVE  /\ Placed(g, IF v.goal = "validate" THEN "ledger" ELSE "claim", Returned(v))
         /\ Returned(v).identity = 0
         /\ Returned(v).reg = IF v.goal = "validate" THEN NoRegistry ELSE v.reg
<1> DEFINE k == IF v.goal = "validate" THEN "ledger" ELSE "claim"
           w == Returned(v)
<1>1. v \in View
  BY DEF Placed
<1>2. /\ w \in View /\ w.mem = v.mem /\ w.keyed = v.keyed /\ w.spec = v.spec /\ w.goal = v.goal
      /\ w.b = v.b /\ w.identity = 0 /\ w.reg = IF v.goal = "validate" THEN NoRegistry ELSE v.reg
  BY <1>1, NoViewType DEF Returned, View
<1> HIDE DEF w
<1>3. Local(k, w)
  BY <1>1, <1>2, SameWork, NoViewType DEF Placed, Local, Asking, Deleting, View
<1>4. Within(w.reg, g)
  BY <1>2, NoViewType DEF Placed, Within
<1> QED
  BY <1>2, <1>3, <1>4 DEF Placed, Labels, Asking, w

\* A registry that exists is anchored, accepted or refused (registry.go:194-232).
LEMMA Examined ==
  ASSUME NEW g, Inv(g), NEW p \in Operators, NEW l \in Asking, NEW v, Placed(g, l, v),
         v.reg.uid # 0, Examine(p, v)
  PROVE  \E k, w : /\ GoTo(p, k, w) /\ Placed(g, k, w)
                   /\ w.reg = v.reg \/ w.reg = NoRegistry
                   /\ w.identity = v.identity \/ w.identity = 0
                   /\ k = "claim" => w.reg = v.reg /\ v.identity = v.reg.uid /\ v.identity # 0
<1>1. CASE Diagnosis(v, v.reg) = "anchor"
  <2>1. GoTo(p, "anchor", v)
    BY <1>1 DEF Examine
  <2>2. Placed(g, "anchor", v)
    BY AskOn DEF Placed, Asking
  <2> QED
    BY <2>1, <2>2
<1>2. CASE Diagnosis(v, v.reg) = "ok"
  <2>1. v.identity # 0 /\ v.identity = v.reg.uid
    BY <1>2 DEF Diagnosis
  <2>2. GoTo(p, IF v.goal = "validate" THEN "ledger" ELSE "claim", Returned(v))
    BY <1>2 DEF Examine, Resume
  <2> QED
    BY <2>1, <2>2, ResumePlaced
<1>3. CASE Diagnosis(v, v.reg) \notin {"anchor", "ok"}
  <2>1. GoTo(p, "idle", NoView)
    BY <1>3 DEF Examine, Stop
  <2> QED
    BY <2>1, StopPlaced, NoViewType
<1> QED
  BY <1>1, <1>2, <1>3

LEMMA GetRegistryInv ==
  ASSUME NEW g, Inv(g), NEW p \in Operators, GetRegistry(p), SameNodes, SameDamage
  PROVE  Inv(g)'
<1>1. UNCHANGED <<store, announced>> /\ pc[p] = "registry"
  BY DEF GetRegistry
<1>2. registry \in Reg /\ Within(registry, g) /\ registry.uid \in Nat /\ registry.uid <= drawn
  BY DEF Inv, Stored, Shapes, Registered, UIDs, Reg
<1>3. CASE registry.uid # 0
  <2>1. PICK v : v = [view[p] EXCEPT !.reg = registry]
    OBVIOUS
  <2>2. Examine(p, v)
    BY <1>3, <2>1 DEF GetRegistry
  <2>3. /\ v \in View /\ v.mem = view[p].mem /\ v.keyed = view[p].keyed /\ v.spec = view[p].spec
        /\ v.goal = view[p].goal /\ v.b = view[p].b /\ v.reg = registry /\ v.identity = view[p].identity
    BY <2>1, <1>2, Holding DEF View
  <2>4. Placed(g, "registry", v)
    BY <1>1, <1>2, <2>3, Holding, AskOn DEF Asking, Placed
  <2>5. PICK k, w : /\ GoTo(p, k, w) /\ Placed(g, k, w)
                    /\ w.reg = v.reg \/ w.reg = NoRegistry
                    /\ w.identity = v.identity \/ w.identity = 0
                    /\ k = "claim" => w.reg = v.reg /\ v.identity = v.reg.uid /\ v.identity # 0
    BY <1>3, <2>2, <2>3, <2>4, Examined DEF Asking
  <2>6. drawn \in Nat /\ 0 <= drawn
    BY DEF Inv, Stored, Shapes
  <2>7. Seen(k, w)
    <3>1. Seen("registry", view[p]) /\ NoRegistry.uid = 0
      BY <1>1, Holding, NoViewType
    <3>2. w.reg.uid \in {0, registry.uid} /\ w.identity \in {0, view[p].identity}
      BY <2>3, <2>5, <3>1
    <3>3. k = "claim" => w.reg.uid = registry.uid /\ view[p].identity = registry.uid /\ view[p].identity # 0
      BY <2>3, <2>5
    <3> QED
      BY <1>2, <2>6, <3>1, <3>2, <3>3 DEF Seen
  <2> QED
    BY <1>1, <2>5, <2>7, Moves
<1>4. CASE registry.uid = 0 /\ (view[p].identity # 0 \/ view[p].evidence)
  BY <1>1, <1>4, StopPlaced, Moves DEF GetRegistry, Stop
<1>5. CASE registry.uid = 0 /\ ~(view[p].identity # 0 \/ view[p].evidence) /\ view[p].goal = "validate"
  <2>1. PICK w : w = Returned(view[p])
    OBVIOUS
  <2>2. GoTo(p, "ledger", w)
    BY <1>5, <2>1 DEF GetRegistry, Resume
  <2>3. Placed(g, "ledger", w) /\ w.identity = 0 /\ w.reg = NoRegistry
    BY <1>1, <1>5, <2>1, Holding, ResumePlaced DEF Asking
  <2>4. Seen("ledger", w)
    BY <2>3, NoViewType DEF Seen, Inv, Stored, Shapes
  <2> QED
    BY <1>1, <2>2, <2>3, <2>4, Moves
<1>6. CASE registry.uid = 0 /\ ~(view[p].identity # 0 \/ view[p].evidence) /\ view[p].goal # "validate"
  <2>1. PICK w : w = view[p]
    OBVIOUS
  <2>2. GoTo(p, "create", w)
    BY <1>6, <2>1 DEF GetRegistry
  <2>3. Placed(g, "create", w)
    BY <1>1, <1>6, <2>1, Holding, AskOn DEF Asking, Placed
  <2>4. Seen("create", w)
    BY <2>1, Holding DEF Seen
  <2> QED
    BY <1>1, <2>2, <2>3, <2>4, Moves
<1> QED
  BY <1>3, <1>4, <1>5, <1>6

\* A write that conflicts is tried again, or ends the pass (registry.go:239).
LEMMA ConflictPlaced ==
  ASSUME NEW g, Inv(g), NEW p \in Operators, NEW l \in Asking, NEW v, Placed(g, l, v), Seen("list", v),
         Conflict(p, v), UNCHANGED <<store, announced>>, SameNodes, SameDamage
  PROVE  Inv(g)'
<1>1. CASE v.tries + 1 < Steps
  <2>1. PICK w : w = [v EXCEPT !.tries = @ + 1]
    OBVIOUS
  <2>2. GoTo(p, "list", w)
    BY <1>1, <2>1 DEF Conflict
  <2>3. /\ w \in View /\ w.mem = v.mem /\ w.keyed = v.keyed /\ w.spec = v.spec
        /\ w.goal = v.goal /\ w.b = v.b /\ w.reg = v.reg /\ w.identity = v.identity
    BY <2>1 DEF Placed, View
  <2>4. Placed(g, "list", w)
    BY <2>3, AskOn DEF Asking, Placed
  <2>5. Seen("list", w)
    BY <2>3 DEF Seen
  <2> QED
    BY <2>2, <2>4, <2>5, Moves
<1>2. CASE ~(v.tries + 1 < Steps)
  BY <1>2, StopPlaced, Moves DEF Conflict, Stop
<1> QED
  BY <1>1, <1>2

\* Of two bootstraps one creates the registry, with a UID of its own.
LEMMA CreateRegistryInv ==
  ASSUME NEW g, Inv(g), NEW p \in Operators, CreateRegistry(p), SameNodes, SameDamage
  PROVE  Inv(g)'
<1>1. pc[p] = "create" /\ UNCHANGED <<identity, ledger, secrets, pods, spec, status, announced>>
  BY DEF CreateRegistry
<1>2. registry \in Reg /\ identity \in Nat /\ drawn \in Nat /\ Shapes /\ Stored(g)
  BY DEF Inv, Stored, Shapes
<1>3. CASE registry.uid # 0
  <2>1. Conflict(p, view[p]) /\ UNCHANGED <<store, announced>>
    BY <1>1, <1>3 DEF CreateRegistry, store
  <2>2. Placed(g, "create", view[p]) /\ Seen("list", view[p])
    BY <1>1, Holding DEF Seen
  <2> QED
    BY <2>1, <2>2, ConflictPlaced DEF Asking
<1>4. CASE registry.uid = 0
  <2>1. /\ registry' = [NoRegistry EXCEPT !.uid = drawn + 1] /\ drawn' = drawn + 1
        /\ Examine(p, [view[p] EXCEPT !.reg = registry'])
    BY <1>4 DEF CreateRegistry
  <2>2. /\ registry' \in Reg /\ registry'.uid = drawn + 1
        /\ registry'.addr = NoRegistry.addr /\ registry'.port = NoRegistry.port
    BY <1>2, <2>1, NoViewType DEF Reg
  <2>3. registry'.addr = << >> /\ DOMAIN registry'.addr = {} /\ DOMAIN registry'.port = {}
    BY <2>2, NoViewType DEF NoRegistry
  <2>4. PICK v, r : v = [view[p] EXCEPT !.reg = registry'] /\ r = registry'
    OBVIOUS
  <2>5. /\ v \in View /\ v.mem = view[p].mem /\ v.keyed = view[p].keyed /\ v.spec = view[p].spec
        /\ v.goal = view[p].goal /\ v.b = view[p].b /\ v.reg = r /\ v.identity = view[p].identity
    BY <2>2, <2>4, Holding DEF View
  <2>6. Within(r, g)
    BY <2>3, <2>4 DEF Within
  <2>7. Placed(g, "list", v)
    BY <1>1, <2>5, <2>6, Holding, AskOn DEF Asking, Placed
  <2>8. PICK k, w : /\ GoTo(p, k, w) /\ Placed(g, k, w)
                    /\ w.reg = v.reg \/ w.reg = NoRegistry
                    /\ w.identity = v.identity \/ w.identity = 0
                    /\ k = "claim" => w.reg = v.reg /\ v.identity = v.reg.uid /\ v.identity # 0
    <3>1. v.reg.uid # 0
      BY <1>2, <2>2, <2>4, <2>5
    <3>2. Examine(p, v)
      BY <2>1, <2>4
    <3> QED
      BY <2>7, <3>1, <3>2, Examined DEF Asking
  <2>9. Seen(k, w)'
    <3>1. Seen("create", view[p]) /\ NoRegistry.uid = 0 /\ r.uid = registry'.uid
      BY <1>1, <2>4, Holding, NoViewType
    <3>2. w.reg.uid \in {0, registry'.uid} /\ w.identity \in {0, view[p].identity}
      BY <2>5, <2>8, <3>1
    <3>3. k = "claim" => w.reg.uid = registry'.uid /\ view[p].identity = registry'.uid /\ view[p].identity # 0
      BY <2>5, <2>8, <3>1
    <3> QED
      BY <1>1, <1>2, <2>1, <2>2, <3>1, <3>2, <3>3 DEF Seen, SameDamage
  <2>10. ASSUME NEW kk, NEW vv, Placed(g, kk, vv), Seen(kk, vv) PROVE Seen(kk, vv)'
    <3>1. vv.reg.uid \in Nat
      BY <2>10 DEF Placed, View, Reg
    <3> QED
      BY <1>1, <1>2, <1>4, <2>1, <2>2, <2>10, <3>1 DEF Seen, SameDamage
  <2>11. Stored(g)'
    <3>1. Nodes' = Nodes
      BY DEF SameNodes, Nodes
    <3>2. Shapes'
      BY <1>1, <1>2, <2>1, <2>2, <3>1 DEF Shapes, SameNodes
    <3>3. Records(g)' /\ Reported(g)'
      BY <1>1, <1>2, <3>1, RecordsKept DEF Stored, Reported
    <3>4. UIDs' /\ Damaged'
      BY <1>1, <1>2, <2>1, <2>2, <2>3 DEF Stored, Registered, UIDs, Damaged, SameDamage
    <3>5. Pinned(g)'
      BY <1>1, <1>2, <1>4 DEF Stored, Registered, Pinned, SameDamage
    <3>6. Kept(g)'
      <4>1. CASE "registry" \notin hurt
        <5>1. Within(g, registry) /\ registry = NoRegistry
          BY <1>2, <1>4, <4>1 DEF Stored, Registered, Kept, UIDs
        <5> QED
          BY <2>2, <5>1 DEF Kept, Within, HasAddr, HasPort
      <4>2. CASE "registry" \in hurt
        BY <1>1, <1>2, <2>2, <4>2 DEF Stored, Registered, Kept, UIDs, SameDamage
      <4> QED
        BY <4>1, <4>2
    <3>7. Within(registry, g)'
      BY <2>3 DEF Within
    <3> QED
      BY <1>2, <3>2, <3>3, <3>4, <3>5, <3>6, <3>7 DEF Stored, Registered
  <2>12. Within(g, g)
    BY DEF Within, HasAddr, HasPort
  <2> QED
    BY <2>8, <2>9, <2>10, <2>11, <2>12, OthersWait
<1> QED
  BY <1>3, <1>4

\* The identity pins the registry that the pass has read or created.
LEMMA CreateIdentityInv ==
  ASSUME NEW g, Inv(g), NEW p \in Operators, CreateIdentity(p), SameNodes, SameDamage
  PROVE  Inv(g)'
<1>1. pc[p] = "anchor" /\ UNCHANGED <<registry, ledger, secrets, pods, spec, status, drawn, announced>>
  BY DEF CreateIdentity
<1>2. registry \in Reg /\ identity \in Nat /\ drawn \in Nat /\ Shapes /\ Stored(g)
  BY DEF Inv, Stored, Shapes
<1>3. view[p].reg.uid # 0 /\ view[p].reg.uid \in Nat /\ Placed(g, "anchor", view[p]) /\ Seen("anchor", view[p])
  BY <1>1, Holding DEF Placed, Local, Reg
<1>4. CASE identity # 0 /\ view[p].goal = "validate"
  BY <1>1, <1>4, StopPlaced, Moves DEF CreateIdentity, Stop, store
<1>5. CASE identity # 0 /\ view[p].goal # "validate"
  <2>1. Conflict(p, view[p]) /\ UNCHANGED <<store, announced>>
    BY <1>1, <1>5 DEF CreateIdentity, store
  <2>2. Seen("list", view[p])
    BY <1>3 DEF Seen
  <2> QED
    BY <1>3, <2>1, <2>2, ConflictPlaced DEF Asking
<1>6. CASE identity = 0
  <2>1. PICK k, w : k = (IF view[p].goal = "validate" THEN "ledger" ELSE "claim") /\ w = Returned(view[p])
    OBVIOUS
  <2>2. identity' = view[p].reg.uid /\ GoTo(p, k, w)
    BY <1>6, <2>1 DEF CreateIdentity, Resume
  <2>3. /\ Placed(g, k, w) /\ w.identity = 0
        /\ w.reg = IF view[p].goal = "validate" THEN NoRegistry ELSE view[p].reg
    BY <1>3, <2>1, ResumePlaced DEF Asking
  <2>4. Seen(k, w)'
    BY <1>1, <1>2, <1>3, <2>1, <2>2, <2>3, NoViewType DEF Seen, SameDamage
  <2>5. ASSUME NEW kk, NEW vv, Placed(g, kk, vv), Seen(kk, vv) PROVE Seen(kk, vv)'
    <3>1. kk = "claim" => vv.reg.uid # 0
      BY <2>5 DEF Placed, Local
    <3>2. vv.reg.uid <= drawn' /\ ("registry" \notin hurt' => vv.reg.uid \in {0, registry'.uid})
      BY <1>1, <2>5 DEF Seen, SameDamage
    <3>3. "identity" \notin hurt' => vv.identity = 0 /\ kk # "claim"
      <4>1. "identity" \in hurt' <=> "identity" \in hurt
        BY DEF SameDamage
      <4> QED
        BY <1>6, <2>5, <3>1, <4>1 DEF Seen
    <3> QED
      BY <3>2, <3>3 DEF Seen
  <2>6. Stored(g)'
    <3>1. Nodes' = Nodes
      BY DEF SameNodes, Nodes
    <3>2. Shapes'
      BY <1>1, <1>2, <1>3, <2>2, <3>1 DEF Shapes, SameNodes
    <3>3. Records(g)' /\ Reported(g)'
      BY <1>1, <1>2, <3>1, RecordsKept DEF Stored, Reported
    <3>4. UIDs' /\ Damaged'
      BY <1>1, <1>2, <1>3, <2>2 DEF Stored, Registered, UIDs, Damaged, SameDamage, Seen
    <3>5. Pinned(g)'
      BY <1>1, <1>2, <1>3, <2>2 DEF Pinned, SameDamage, Seen
    <3>6. Kept(g)'
      <4>1. CASE "registry" \notin hurt
        BY <1>1, <1>2, <4>1 DEF Stored, Registered, Kept, Within
      <4>2. CASE "registry" \in hurt
        <5>1. DOMAIN g.addr = {} /\ DOMAIN g.port = {}
          BY <1>2, <1>6, <4>2 DEF Stored, Registered, Damaged, Pinned, Grants
        <5> QED
          BY <5>1 DEF Kept, Within
      <4> QED
        BY <4>1, <4>2
    <3>7. Within(registry, g)'
      BY <1>1, <1>2 DEF Stored, Registered, Within
    <3> QED
      BY <1>2, <3>2, <3>3, <3>4, <3>5, <3>6, <3>7 DEF Stored, Registered
  <2>7. Within(g, g)
    BY DEF Within, HasAddr, HasPort
  <2> QED
    BY <2>2, <2>3, <2>4, <2>5, <2>6, <2>7, OthersWait
<1> QED
  BY <1>4, <1>5, <1>6

-----------------------------------------------------------------------------
(* allocate(): the next claim, the registry with it, the member with it *)

\* Whatever waits for a claim is a member of the copy (reconciler.go:566-618).
LEMMA TargetFacts ==
  ASSUME Shapes, NEW v \in View, OneDraft(v) \/ Linking(v)
  PROVE  \E n \in DOMAIN v.mem, q \in Peers \cup {Health} :
            /\ Target(v) = [claim |-> Claim(v.b, n, v.mem[n].id, q), port |-> q \in DOMAIN v.mem[n].links]
            /\ Claim(v.b, n, v.mem[n].id, q) \in ClaimType
            /\ \/ q = Health /\ OneDraft(v) /\ Drafts(v) = {n} /\ q \notin DOMAIN v.mem[n].links
               \/ q # Health /\ Linking(v) /\ q \in v.spec.peers
<1>1. v.mem \in Members /\ v.b \in Bindings /\ v.spec.peers \subseteq Peers /\ Nodes \subseteq Nat
  BY DEF View, SpecType, Shapes, World, Nodes
<1>2. ASSUME NEW n \in DOMAIN v.mem, NEW q \in Peers \cup {Health}
      PROVE  Claim(v.b, n, v.mem[n].id, q) \in ClaimType
  <2>1. n \in Nat /\ v.mem[n].id \in Nat
    BY <1>1, MemberFacts
  <2> QED
    BY <1>1, <2>1 DEF Claim, ClaimType
<1>3. CASE OneDraft(v)
  <2>1. PICK n \in Nodes : Drafts(v) = {n}
    BY <1>3 DEF OneDraft
  <2>2. n \in DOMAIN v.mem /\ First(Drafts(v)) = n
    <3>1. {n} \in SUBSET Nat /\ {n} # {}
      BY <1>1
    <3>2. First({n}) \in {n}
      BY <3>1, FirstIn
    <3> QED
      BY <2>1, <3>2 DEF Drafts
  <2>3. Health \notin DOMAIN v.mem[n].links
    BY <1>3, <2>2 DEF OneDraft, Early
  <2>4. Target(v) = [claim |-> Claim(v.b, n, v.mem[n].id, Health), port |-> Health \in DOMAIN v.mem[n].links]
    BY <2>1, <2>2, Zenon DEF Target, Drafts
  <2> QED
    BY <1>2, <1>3, <2>1, <2>2, <2>3, <2>4
<1>4. CASE Linking(v)
  <2> DEFINE n == First(Unfinished(v))  q == CHOOSE q \in Unlinked(v, n) : TRUE
  <2>1. n \in Unfinished(v)
    <3>1. Unfinished(v) \in SUBSET Nat /\ Unfinished(v) # {}
      BY <1>1, <1>4 DEF Linking, Unfinished
    <3> QED
      BY <3>1, FirstIn
  <2>2. n \in Nodes /\ Unlinked(v, n) # {}
    BY <1>4, <2>1 DEF Linking, Unfinished
  <2>3. q \in Unlinked(v, n) /\ n \in DOMAIN v.mem /\ Drafts(v) = {}
    BY <1>4, <2>2 DEF Linking, Tidy
  <2>4. q \in v.spec.peers /\ q \in Peers /\ q # Health
    BY <1>1, <2>3, RegistryAssumption DEF Unlinked
  <2>5. Target(v) = [claim |-> Claim(v.b, n, v.mem[n].id, q), port |-> q \in DOMAIN v.mem[n].links]
    BY <2>3, Zenon DEF Target, Drafts
  <2> HIDE DEF n, q
  <2> QED
    BY <1>2, <1>4, <2>3, <2>4, <2>5
<1> QED
  BY <1>3, <1>4

\* A registry with one claim more.
WithAddr(r, c, ip) == [r EXCEPT !.addr = Put(@, c, ip)]
WithPort(r, c, port) == [r EXCEPT !.port = Put(@, c, port)]

\* allocate() adds at most the claim, with an address or port nobody holds
\* (registry.go:244-287).
LEMMA ExtendedFacts ==
  ASSUME NEW r \in Reg, NEW c \in ClaimType, NEW t, t.claim = c, t.port \in BOOLEAN
  PROVE  \/ Extended(r, t) = r
         \/ /\ ~t.port /\ c \notin DOMAIN r.addr
            /\ \E ip \in Addresses : /\ \A d \in DOMAIN r.addr : r.addr[d] # ip
                                     /\ Extended(r, t) = WithAddr(r, c, ip)
         \/ /\ t.port /\ c \notin DOMAIN r.port /\ c \in DOMAIN r.addr
            /\ \E port \in Ports :
                /\ \A d \in DOMAIN r.port : d.node = c.node => r.port[d] # port
                /\ Extended(r, t) = WithPort(r, c, port)
<1>1. CASE t.port
  <2> DEFINE free == FreePorts(r, c)
  <2>1. free \in SUBSET Nat /\ free \subseteq Ports
    BY RegistryAssumption DEF FreePorts
  <2>2. free # {} => First(free) \in free
    BY <2>1, FirstIn
  <2>3. \A d \in DOMAIN r.port : d.node = c.node => r.port[d] \notin free
    BY DEF FreePorts
  <2>4. Extended(r, t) = IF c \in DOMAIN r.port \/ c \notin DOMAIN r.addr \/ free = {} THEN r
                         ELSE [r EXCEPT !.port = Put(@, c, First(free))]
    BY <1>1 DEF Extended
  <2> HIDE DEF free
  <2> QED
    BY <1>1, <2>1, <2>2, <2>3, <2>4 DEF WithPort
<1>2. CASE ~t.port
  <2> DEFINE free == FreeAddresses(r, c)
  <2>1. free \in SUBSET Nat /\ free \subseteq Addresses
    BY RegistryAssumption DEF FreeAddresses
  <2>2. free # {} => First(free) \in free
    BY <2>1, FirstIn
  <2>3. \A d \in DOMAIN r.addr : r.addr[d] \notin free
    BY DEF FreeAddresses
  <2>4. Extended(r, t) = IF c \in DOMAIN r.addr \/ free = {} THEN r
                         ELSE [r EXCEPT !.addr = Put(@, c, First(free))]
    BY <1>2 DEF Extended
  <2> HIDE DEF free
  <2> QED
    BY <1>2, <2>1, <2>2, <2>3, <2>4 DEF WithAddr
<1> QED
  BY <1>1, <1>2

\* A granted address or port is granted to nobody else.
LEMMA GrantAddr ==
  ASSUME NEW g, Grants(g), NEW r \in Reg, Within(r, g), Within(g, r), NEW c \in ClaimType,
         c \notin DOMAIN r.addr, NEW ip \in Addresses, \A d \in DOMAIN r.addr : r.addr[d] # ip
  PROVE  LET h == WithAddr(g, c, ip)  s == WithAddr(r, c, ip)
         IN  /\ Grants(h) /\ Within(g, h) /\ Within(s, h) /\ Within(h, s)
             /\ s \in Reg /\ s.uid = r.uid /\ DOMAIN s.addr # {} /\ HasAddr(s, c, ip)
<1> DEFINE h == WithAddr(g, c, ip)  s == WithAddr(r, c, ip)
<1>1. /\ g \in Reg /\ g.addr \in Partial(ClaimType, Addresses) /\ g.port \in Partial(ClaimType, Ports)
      /\ r.addr \in Partial(ClaimType, Addresses) /\ r.port \in Partial(ClaimType, Ports)
  BY DEF Grants, Reg
<1>2. PICK a : a = Put(g.addr, c, ip)
  OBVIOUS
<1>3. /\ a \in Partial(ClaimType, Addresses) /\ DOMAIN a = {c} \cup DOMAIN g.addr
      /\ \A y \in DOMAIN g.addr : y # c => a[y] = g.addr[y]
      /\ a[c] = ip
  <2>1. Put(g.addr, c, ip) \in Partial(ClaimType, Addresses)
    BY <1>1, PutPartial
  <2> QED
    BY <1>2, <2>1 DEF Put
<1>4. PICK e : e = Put(r.addr, c, ip)
  OBVIOUS
<1>5. /\ e \in Partial(ClaimType, Addresses) /\ DOMAIN e = {c} \cup DOMAIN r.addr
      /\ \A y \in DOMAIN r.addr : y # c => e[y] = r.addr[y]
      /\ e[c] = ip
  <2>1. Put(r.addr, c, ip) \in Partial(ClaimType, Addresses)
    BY <1>1, PutPartial
  <2> QED
    BY <1>4, <2>1 DEF Put
<1>6. h \in Reg /\ h.addr = a /\ h.port = g.port /\ s \in Reg /\ s.addr = e /\ s.port = r.port /\ s.uid = r.uid
  BY <1>1, <1>2, <1>3, <1>4, <1>5 DEF Reg, WithAddr
<1> HIDE DEF h, s
<1>7. c \notin DOMAIN g.addr /\ \A d \in DOMAIN g.addr : d \in DOMAIN r.addr /\ g.addr[d] = r.addr[d] /\ g.addr[d] # ip
  BY DEF Within, HasAddr
<1>8. \A d \in DOMAIN r.addr : d \in DOMAIN g.addr /\ g.addr[d] = r.addr[d]
  BY DEF Within, HasAddr
<1>9. Grants(h)
  <2>1. \A x, y \in DOMAIN h.addr : h.addr[x] = h.addr[y] => x = y
    BY <1>3, <1>6, <1>7 DEF Grants
  <2> QED
    BY <1>3, <1>6, <2>1 DEF Grants
<1>10. Within(g, h) /\ Within(s, h) /\ Within(h, s)
  BY <1>3, <1>5, <1>6, <1>7, <1>8 DEF Within, HasAddr, HasPort
<1> QED
  BY <1>5, <1>6, <1>9, <1>10 DEF HasAddr, h, s

LEMMA GrantPort ==
  ASSUME NEW g, Grants(g), NEW r \in Reg, Within(r, g), Within(g, r), NEW c \in ClaimType,
         c \notin DOMAIN r.port, c \in DOMAIN r.addr,
         NEW port \in Ports, \A d \in DOMAIN r.port : d.node = c.node => r.port[d] # port
  PROVE  LET h == WithPort(g, c, port)  s == WithPort(r, c, port)
         IN  /\ Grants(h) /\ Within(g, h) /\ Within(s, h) /\ Within(h, s)
             /\ s \in Reg /\ s.uid = r.uid /\ DOMAIN s.addr # {} /\ HasPort(s, c, port)
<1> DEFINE h == WithPort(g, c, port)  s == WithPort(r, c, port)
<1>1. /\ g \in Reg /\ g.addr \in Partial(ClaimType, Addresses) /\ g.port \in Partial(ClaimType, Ports)
      /\ r.addr \in Partial(ClaimType, Addresses) /\ r.port \in Partial(ClaimType, Ports)
  BY DEF Grants, Reg
<1>2. PICK a : a = Put(g.port, c, port)
  OBVIOUS
<1>3. /\ a \in Partial(ClaimType, Ports) /\ DOMAIN a = {c} \cup DOMAIN g.port
      /\ \A y \in DOMAIN g.port : y # c => a[y] = g.port[y]
      /\ a[c] = port
  <2>1. Put(g.port, c, port) \in Partial(ClaimType, Ports)
    BY <1>1, PutPartial
  <2> QED
    BY <1>2, <2>1 DEF Put
<1>4. PICK e : e = Put(r.port, c, port)
  OBVIOUS
<1>5. /\ e \in Partial(ClaimType, Ports) /\ DOMAIN e = {c} \cup DOMAIN r.port
      /\ \A y \in DOMAIN r.port : y # c => e[y] = r.port[y]
      /\ e[c] = port
  <2>1. Put(r.port, c, port) \in Partial(ClaimType, Ports)
    BY <1>1, PutPartial
  <2> QED
    BY <1>4, <2>1 DEF Put
<1>6. h \in Reg /\ h.port = a /\ h.addr = g.addr /\ s \in Reg /\ s.port = e /\ s.addr = r.addr /\ s.uid = r.uid
  BY <1>1, <1>2, <1>3, <1>4, <1>5 DEF Reg, WithPort
<1> HIDE DEF h, s
<1>7. /\ c \notin DOMAIN g.port /\ c \in DOMAIN g.addr
      /\ \A d \in DOMAIN g.port : /\ d \in DOMAIN r.port /\ g.port[d] = r.port[d]
                                  /\ d.node = c.node => g.port[d] # port
  BY DEF Within, HasAddr, HasPort
<1>8. \A d \in DOMAIN r.port : d \in DOMAIN g.port /\ g.port[d] = r.port[d]
  BY DEF Within, HasPort
<1>9. Grants(h)
  <2>1. \A x, y \in DOMAIN h.port : h.port[x] = h.port[y] /\ x.node = y.node => x = y
    BY <1>3, <1>6, <1>7 DEF Grants
  <2>2. DOMAIN h.port \subseteq DOMAIN h.addr
    BY <1>3, <1>6, <1>7 DEF Grants
  <2> QED
    BY <1>6, <2>1, <2>2 DEF Grants
<1>10. Within(g, h) /\ Within(s, h) /\ Within(h, s)
  BY <1>3, <1>5, <1>6, <1>7, <1>8 DEF Within, HasAddr, HasPort
<1> QED
  BY <1>5, <1>6, <1>9, <1>10 DEF HasPort, h, s

\* A copy with another member n, read without the registry.
Exchanged(m, n, x) == [m EXCEPT ![n] = x]
WithMember(v, n, x) == [[v EXCEPT !.mem[n] = x] EXCEPT !.reg = NoRegistry, !.tries = 0]
Given(v, t, r) == [Filled(v, t, r) EXCEPT !.reg = NoRegistry, !.tries = 0]

LEMMA Replaced ==
  ASSUME NEW v \in View, NEW n \in DOMAIN v.mem, NEW x \in Member,
         NEW w, w = WithMember(v, n, x)
  PROVE  /\ w \in View /\ w.b = v.b /\ w.spec = v.spec /\ w.keyed = v.keyed /\ w.identity = v.identity
         /\ w.reg = NoRegistry /\ w.mem = Exchanged(v.mem, n, x)
<1>1. v.mem \in Members
  BY DEF View
<1>2. PICK mem : mem = [v.mem EXCEPT ![n] = x]
  OBVIOUS
<1>3. mem \in Members
  BY <1>1, <1>2, ExceptPartial DEF Members
<1>4. [v EXCEPT !.mem[n] = x] = [v EXCEPT !.mem = mem]
  BY <1>2
<1>5. w = [[v EXCEPT !.mem = mem] EXCEPT !.reg = NoRegistry, !.tries = 0]
  BY <1>4 DEF WithMember
<1> QED
  BY <1>2, <1>3, <1>5, NoViewType DEF View, Exchanged

\* The member gets the address or the port of its claim (reconciler.go:590-622).
LEMMA FilledPlaced ==
  ASSUME Shapes, NEW h, NEW v \in View, Local("claim", v), Holds(h, v.b, v.mem),
         NEW r \in Reg, Within(r, h), NEW t, t = Target(v),
         t.claim \in DOMAIN (IF t.port THEN r.port ELSE r.addr),
         NEW back, back = IF t.claim.peer = Health THEN "draft" ELSE "work",
         NEW w, w = Given(v, t, r)
  PROVE  Placed(h, back, w) /\ w.reg = NoRegistry /\ w.identity = v.identity
<1>0. OneDraft(v) \/ Linking(v)
  BY DEF Local, Asking, View
<1>1. PICK n \in DOMAIN v.mem, q \in Peers \cup {Health} :
            /\ t = [claim |-> Claim(v.b, n, v.mem[n].id, q), port |-> q \in DOMAIN v.mem[n].links]
            /\ Claim(v.b, n, v.mem[n].id, q) \in ClaimType
            /\ \/ q = Health /\ OneDraft(v) /\ Drafts(v) = {n} /\ q \notin DOMAIN v.mem[n].links
               \/ q # Health /\ Linking(v) /\ q \in v.spec.peers
  BY <1>0, TargetFacts
<1> DEFINE m == v.mem[n]
           c == Claim(v.b, n, m.id, q)
           x == IF q = Health THEN [m EXCEPT !.health = r.addr[c]]
                ELSE IF t.port THEN [m EXCEPT !.links[q].port = r.port[c]]
                ELSE [m EXCEPT !.links = Put(@, q, [ip |-> r.addr[c], port |-> 0])]
<1>2. t.claim = c /\ c.node = n /\ c.peer = q /\ t.port = (q \in DOMAIN m.links)
  BY <1>1 DEF Claim
<1>3. Filled(v, t, r) = [v EXCEPT !.mem[n] = x]
  BY <1>2 DEF Filled
<1>4. w = [[v EXCEPT !.mem[n] = x] EXCEPT !.reg = NoRegistry, !.tries = 0]
  BY <1>3 DEF Given
<1>5. /\ v.mem \in Members /\ m \in Member /\ m.id \in Nat /\ m.links \in Partial(Peers, Link)
      /\ \A l \in DOMAIN m.links : m.links[l] \in Link
  BY MemberFacts DEF View
<1>6. \A d \in DOMAIN r.addr : r.addr[d] \in Nat /\ r.addr[d] # 0
  BY PartialElim, RegistryAssumption DEF Reg
<1>7. \A d \in DOMAIN r.port : r.port[d] \in Nat /\ r.port[d] # 0
  BY PartialElim, RegistryAssumption DEF Reg
<1>8. \A d \in DOMAIN r.addr : HasAddr(h, d, r.addr[d])
  BY DEF Within
<1>9. \A d \in DOMAIN r.port : HasPort(h, d, r.port[d])
  BY DEF Within
<1>10. Within(NoRegistry, h)
  BY NoViewType DEF Within
<1>11. \A k \in DOMAIN v.mem : /\ HoldsHealth(h, v.b, k, v.mem[k])
                               /\ \A l \in DOMAIN v.mem[k].links : HoldsLink(h, v.b, k, v.mem[k], l)
  BY DEF Holds
<1>12. CASE q = Health
  <2>1. PICK y : y = [m EXCEPT !.health = r.addr[c]]
    OBVIOUS
  <2>2. c \in DOMAIN r.addr /\ OneDraft(v) /\ Drafts(v) = {n} /\ back = "draft"
    BY <1>1, <1>2, <1>12, RegistryAssumption
  <2>3. /\ y \in Member /\ y.id = m.id /\ y.key = m.key /\ y.links = m.links
        /\ y.health = r.addr[c] /\ y.health # 0
    BY <1>5, <1>6, <2>1, <2>2 DEF Member
  <2>4. w = WithMember(v, n, y)
    BY <1>4, <1>12, <2>1 DEF WithMember
  <2>5. /\ w \in View /\ w.b = v.b /\ w.spec = v.spec /\ w.keyed = v.keyed /\ w.identity = v.identity
        /\ w.reg = NoRegistry /\ w.mem[n] = y /\ DOMAIN w.mem = DOMAIN v.mem
        /\ \A k \in DOMAIN v.mem : k # n => w.mem[k] = v.mem[k]
    <3>1. /\ w \in View /\ w.b = v.b /\ w.spec = v.spec /\ w.keyed = v.keyed /\ w.identity = v.identity
          /\ w.reg = NoRegistry /\ w.mem = Exchanged(v.mem, n, y)
      BY <2>3, <2>4, Replaced
    <3> QED
      BY <3>1 DEF Exchanged
  <2>6. Early(w)
    BY <2>2, <2>3, <2>5 DEF OneDraft, Early
  <2>7. Drafts(w) = {}
    BY <2>2, <2>3, <2>5 DEF Drafts
  <2>8. Local("draft", w)
    BY <2>6, <2>7 DEF Local, Early, Asking, Deleting
  <2>9. Holds(h, w.b, w.mem)
    <3>1. HoldsHealth(h, w.b, n, w.mem[n])
      BY <1>8, <1>12, <2>2, <2>3, <2>5 DEF HoldsHealth
    <3>2. \A l \in DOMAIN w.mem[n].links : HoldsLink(h, w.b, n, w.mem[n], l)
      BY <1>11, <2>3, <2>5 DEF HoldsLink
    <3> QED
      BY <1>11, <2>5, <3>1, <3>2 DEF Holds
  <2> QED
    BY <1>10, <2>2, <2>5, <2>8, <2>9 DEF Placed, Labels
<1>13. ASSUME q # Health, NEW y \in Member, y.id = m.id, y.key = m.key, y.health = m.health,
              w = WithMember(v, n, y),
              \A l \in DOMAIN y.links : /\ HoldsLink(h, v.b, n, y, l)
                                        /\ y.links[l].port = 0 => l \in v.spec.peers
       PROVE  Placed(h, back, w) /\ w.reg = NoRegistry /\ w.identity = v.identity
  <2>1. Linking(v) /\ back = "work"
    BY <1>1, <1>2, <1>13
  <2>2. /\ w \in View /\ w.b = v.b /\ w.spec = v.spec /\ w.keyed = v.keyed /\ w.identity = v.identity
        /\ w.reg = NoRegistry /\ w.mem[n] = y /\ DOMAIN w.mem = DOMAIN v.mem
        /\ \A k \in DOMAIN v.mem : k # n => w.mem[k] = v.mem[k]
    <3>1. /\ w \in View /\ w.b = v.b /\ w.spec = v.spec /\ w.keyed = v.keyed /\ w.identity = v.identity
          /\ w.reg = NoRegistry /\ w.mem = Exchanged(v.mem, n, y)
      BY <1>13, Replaced
    <3> QED
      BY <3>1 DEF Exchanged
  <2>3. Tidy(w)
    BY <1>13, <2>1, <2>2 DEF Linking, Tidy, Drafts
  <2>4. \A k \in w.keyed : k \in DOMAIN w.mem /\ w.mem[k].key # 0
    BY <1>13, <2>2 DEF Local
  <2>5. Local("work", w)
    BY <2>2, <2>3, <2>4 DEF Local, Asking, Deleting
  <2>6. Holds(h, w.b, w.mem)
    <3>1. HoldsHealth(h, w.b, n, w.mem[n])
      BY <1>11, <1>13, <2>2 DEF HoldsHealth
    <3> QED
      BY <1>11, <1>13, <2>2, <3>1 DEF Holds
  <2> QED
    BY <1>10, <2>1, <2>2, <2>5, <2>6 DEF Placed, Labels
<1>14. CASE q # Health /\ ~t.port
  <2>1. c \in DOMAIN r.addr /\ q \notin DOMAIN m.links /\ q \in Peers /\ q \in v.spec.peers
    BY <1>1, <1>2, <1>14
  <2>2. PICK k : k = [ip |-> r.addr[c], port |-> 0]
    OBVIOUS
  <2>3. k \in Link /\ k.ip = r.addr[c] /\ k.port = 0
    BY <1>6, <2>1, <2>2 DEF Link
  <2>4. PICK links : links = Put(m.links, q, k)
    OBVIOUS
  <2>5. links \in Partial(Peers, Link)
    BY <1>5, <2>1, <2>3, <2>4, PutPartial
  <2>6. /\ DOMAIN links = {q} \cup DOMAIN m.links /\ links[q] = k
        /\ \A l \in DOMAIN m.links : links[l] = m.links[l]
    BY <2>1, <2>4 DEF Put
  <2>7. PICK y : y = [m EXCEPT !.links = links]
    OBVIOUS
  <2>8. y \in Member /\ y.id = m.id /\ y.key = m.key /\ y.health = m.health /\ y.links = links
    BY <1>5, <2>5, <2>7 DEF Member
  <2>9. w = WithMember(v, n, y)
    BY <1>4, <1>14, <2>2, <2>4, <2>7 DEF WithMember
  <2>11. ASSUME NEW l \in DOMAIN m.links
         PROVE  HoldsLink(h, v.b, n, y, l) /\ (y.links[l].port = 0 => l \in v.spec.peers)
    BY <1>1, <1>11, <1>14, <2>6, <2>8 DEF HoldsLink, Linking, Tidy
  <2>12. HoldsLink(h, v.b, n, y, q)
    BY <1>8, <2>1, <2>3, <2>6, <2>8 DEF HoldsLink
  <2> QED
    BY <1>13, <1>14, <2>1, <2>6, <2>8, <2>9, <2>11, <2>12
<1>15. CASE q # Health /\ t.port
  <2>1. c \in DOMAIN r.port /\ q \in DOMAIN m.links
    BY <1>2, <1>15
  <2>2. PICK k : k = [m.links[q] EXCEPT !.port = r.port[c]]
    OBVIOUS
  <2>3. k \in Link /\ k.ip = m.links[q].ip /\ k.port = r.port[c] /\ k.port # 0
    BY <1>5, <1>7, <2>1, <2>2 DEF Link
  <2>4. PICK links : links = [m.links EXCEPT ![q] = k]
    OBVIOUS
  <2>5. links \in Partial(Peers, Link)
    BY <1>5, <2>1, <2>3, <2>4, ExceptPartial
  <2>6. /\ DOMAIN links = DOMAIN m.links /\ links[q] = k
        /\ \A l \in DOMAIN m.links : l # q => links[l] = m.links[l]
    BY <2>1, <2>4
  <2>7. PICK y : y = [m EXCEPT !.links = links]
    OBVIOUS
  <2>8. y \in Member /\ y.id = m.id /\ y.key = m.key /\ y.health = m.health /\ y.links = links
    BY <1>5, <2>5, <2>7 DEF Member
  <2>9. [m EXCEPT !.links[q].port = r.port[c]] = y
    BY <2>2, <2>4, <2>7
  <2>10. w = WithMember(v, n, y)
    BY <1>4, <1>15, <2>9 DEF WithMember
  <2>11. HoldsLink(h, v.b, n, y, q)
    BY <1>9, <1>11, <2>1, <2>3, <2>6, <2>8 DEF HoldsLink
  <2>12. ASSUME NEW l \in DOMAIN m.links, l # q
         PROVE  HoldsLink(h, v.b, n, y, l) /\ (y.links[l].port = 0 => l \in v.spec.peers)
    BY <1>1, <1>11, <1>15, <2>6, <2>8, <2>12 DEF HoldsLink, Linking, Tidy
  <2>13. y.links[q].port # 0
    BY <2>3, <2>6, <2>8
  <2> QED
    BY <1>13, <1>15, <2>6, <2>8, <2>10, <2>11, <2>12, <2>13
<1> QED
  BY <1>12, <1>14, <1>15

\* One claim at a time reaches the registry, and only an unchanged one.
LEMMA AllocateInv ==
  ASSUME NEW g, Inv(g), NEW p \in Operators, Allocate(p), SameNodes, SameDamage
  PROVE  \E h : Inv(h)'
<1> DEFINE v == view[p]  t == Target(v)  r == Extended(v.reg, t)
           there == t.claim \in DOMAIN (IF t.port THEN r.port ELSE r.addr)
           back == IF t.claim.peer = Health THEN "draft" ELSE "work"
           w == Given(v, t, r)
<1>1. /\ pc[p] = "claim"
      /\ UNCHANGED <<identity, ledger, secrets, pods, spec, status, drawn, announced>>
  BY DEF Allocate
<1>2. /\ Shapes /\ Stored(g) /\ Grants(g) /\ Registered(g)
      /\ v \in View /\ v.reg \in Reg /\ v.reg.uid # 0 /\ Within(v.reg, g) /\ Holds(g, v.b, v.mem)
      /\ Local("claim", v) /\ (OneDraft(v) \/ Linking(v)) /\ Seen("claim", v)
  BY <1>1, Holding DEF Inv, Stored, Placed, Local, Asking
<1>3. t.claim \in ClaimType /\ t.port \in BOOLEAN
  <2>1. PICK n \in DOMAIN v.mem, q \in Peers \cup {Health} :
            /\ t = [claim |-> Claim(v.b, n, v.mem[n].id, q), port |-> q \in DOMAIN v.mem[n].links]
            /\ Claim(v.b, n, v.mem[n].id, q) \in ClaimType
    BY <1>2, TargetFacts
  <2> HIDE DEF t, v
  <2> QED
    BY <2>1
<1>4. Within(g, g)
  BY DEF Within, HasAddr, HasPort
<1>5. \/ Stop(p) /\ UNCHANGED registry
      \/ there /\ r = v.reg /\ registry' = registry /\ GoTo(p, back, w)
      \/ there /\ r # v.reg /\ registry = v.reg /\ registry' = r /\ GoTo(p, back, w)
      \/ Conflict(p, [v EXCEPT !.reg = NoRegistry]) /\ UNCHANGED registry
  BY Zenon DEF Allocate, RegistryUnchanged, Given
<1>6. CASE Stop(p) /\ UNCHANGED registry
  <2>1. UNCHANGED <<store, announced>>
    BY <1>1, <1>6 DEF store
  <2> QED
    BY <1>6, <2>1, StopPlaced, Moves DEF Stop
<1>7. CASE Conflict(p, [v EXCEPT !.reg = NoRegistry]) /\ UNCHANGED registry
  <2>1. PICK u : u = [v EXCEPT !.reg = NoRegistry]
    OBVIOUS
  <2>2. UNCHANGED <<store, announced>> /\ Conflict(p, u)
    BY <1>1, <1>7, <2>1 DEF store
  <2>3. /\ u \in View /\ u.mem = v.mem /\ u.keyed = v.keyed /\ u.spec = v.spec
        /\ u.goal = v.goal /\ u.b = v.b /\ u.reg = NoRegistry /\ u.identity = v.identity
    BY <1>2, <2>1, NoViewType DEF View
  <2>4. Within(u.reg, g)
    BY <2>3, NoViewType DEF Within
  <2>5. Placed(g, "claim", v)
    BY <1>1, Holding
  <2>6. Placed(g, "list", u)
    BY <2>3, <2>4, <2>5, AskOn DEF Asking
  <2>7. NoRegistry.uid = 0 /\ 0 <= drawn
    BY <1>2, NoViewType DEF Shapes
  <2>8. Seen("list", u)
    BY <1>2, <2>3, <2>7 DEF Seen
  <2> QED
    BY <2>2, <2>6, <2>8, ConflictPlaced DEF Asking
<1>8. PICK rr, tt, ww, kk : rr = r /\ tt = t /\ ww = w /\ kk = back
  OBVIOUS
<1>9. rr \in Reg /\ rr.uid = v.reg.uid
  <2>1. v.reg.addr \in Partial(ClaimType, Addresses) /\ v.reg.port \in Partial(ClaimType, Ports)
    BY <1>2 DEF Reg
  <2>2. \A ip \in Addresses : Put(v.reg.addr, t.claim, ip) \in Partial(ClaimType, Addresses)
    BY <1>3, <2>1, PutPartial
  <2>3. \A port \in Ports : Put(v.reg.port, t.claim, port) \in Partial(ClaimType, Ports)
    BY <1>3, <2>1, PutPartial
  <2>4. \/ r = v.reg
        \/ \E ip \in Addresses : r = WithAddr(v.reg, t.claim, ip)
        \/ \E port \in Ports : r = WithPort(v.reg, t.claim, port)
    BY <1>2, <1>3, ExtendedFacts
  <2> HIDE DEF t, r
  <2> QED
    BY <1>2, <1>8, <2>2, <2>3, <2>4 DEF Reg, WithAddr, WithPort
<1>10. ASSUME NEW h, Within(g, h), Within(rr, h), there PROVE Placed(h, kk, ww) /\ Seen(kk, ww)
  <2>1. Holds(h, v.b, v.mem)
    BY <1>2, <1>10, HoldsGrows
  <2>2. Placed(h, kk, ww) /\ ww.reg = NoRegistry /\ ww.identity = v.identity
    <3> HIDE DEF v, r
    <3>1. t = Target(v) /\ rr = r /\ ww = Given(v, t, rr) /\ tt = t
      BY <1>8
    <3>2. kk = IF tt.claim.peer = Health THEN "draft" ELSE "work"
      BY <1>8
    <3>3. tt.claim \in DOMAIN (IF tt.port THEN rr.port ELSE rr.addr)
      BY <1>8, <1>10
    <3> HIDE DEF t
    <3> QED
      BY <1>2, <1>9, <1>10, <2>1, <3>1, <3>2, <3>3, FilledPlaced
  <2>3. NoRegistry.uid = 0 /\ 0 <= drawn
    BY <1>2, NoViewType DEF Shapes
  <2>4. kk # "claim"
    BY <1>8
  <2> QED
    BY <1>2, <2>2, <2>3, <2>4 DEF Seen
<1>11. CASE there /\ r = v.reg /\ registry' = registry /\ GoTo(p, back, w)
  <2>1. UNCHANGED <<store, announced>> /\ GoTo(p, kk, ww)
    BY <1>1, <1>8, <1>11 DEF store
  <2>2. Within(rr, g)
    BY <1>2, <1>8, <1>11
  <2>3. Placed(g, kk, ww) /\ Seen(kk, ww)
    BY <1>4, <1>10, <1>11, <2>2
  <2>4. Inv(g)'
    BY <2>1, <2>3, Moves
  <2> QED
    BY <2>4
<1>12. CASE there /\ r # v.reg /\ registry = v.reg /\ registry' = r /\ GoTo(p, back, w)
  <2>1. "registry" \notin hurt \/ (identity = registry.uid /\ identity # 0)
    BY <1>2, <1>12 DEF Registered, Damaged, Seen
  <2>2. Within(g, v.reg)
    BY <1>2, <1>12, <2>1 DEF Registered, Kept
  <2>3. \E h : /\ Grants(h) /\ Within(g, h) /\ Within(rr, h) /\ Within(h, rr)
               /\ DOMAIN rr.addr # {}
    <3>1. PICK c : c = t.claim
      OBVIOUS
    <3>2. CASE ~t.port /\ c \notin DOMAIN v.reg.addr
               /\ \E ip \in Addresses : /\ \A d \in DOMAIN v.reg.addr : v.reg.addr[d] # ip
                                        /\ r = WithAddr(v.reg, c, ip)
      <4>1. PICK ip \in Addresses : /\ \A d \in DOMAIN v.reg.addr : v.reg.addr[d] # ip
                                    /\ r = WithAddr(v.reg, c, ip)
        BY <3>2
      <4>2. LET h == WithAddr(g, c, ip)  s == WithAddr(v.reg, c, ip)
            IN  /\ Grants(h) /\ Within(g, h) /\ Within(s, h) /\ Within(h, s)
                /\ s \in Reg /\ s.uid = v.reg.uid /\ DOMAIN s.addr # {} /\ HasAddr(s, c, ip)
        BY <1>2, <1>3, <2>2, <3>1, <3>2, <4>1, GrantAddr
      <4> QED
        BY <1>8, <4>1, <4>2
    <3>3. CASE t.port /\ c \notin DOMAIN v.reg.port /\ c \in DOMAIN v.reg.addr
               /\ \E port \in Ports :
                    /\ \A d \in DOMAIN v.reg.port : d.node = c.node => v.reg.port[d] # port
                    /\ r = WithPort(v.reg, c, port)
      <4>1. PICK port \in Ports : /\ \A d \in DOMAIN v.reg.port : d.node = c.node => v.reg.port[d] # port
                                  /\ r = WithPort(v.reg, c, port)
        BY <3>3
      <4>2. LET h == WithPort(g, c, port)  s == WithPort(v.reg, c, port)
            IN  /\ Grants(h) /\ Within(g, h) /\ Within(s, h) /\ Within(h, s)
                /\ s \in Reg /\ s.uid = v.reg.uid /\ DOMAIN s.addr # {} /\ HasPort(s, c, port)
        BY <1>2, <1>3, <2>2, <3>1, <3>3, <4>1, GrantPort
      <4> QED
        BY <1>8, <4>1, <4>2
    <3> QED
      BY <1>2, <1>3, <1>12, <3>1, <3>2, <3>3, ExtendedFacts
  <2>4. PICK h : /\ Grants(h) /\ Within(g, h) /\ Within(rr, h) /\ Within(h, rr)
                 /\ DOMAIN rr.addr # {}
    BY <2>3
  <2>5. Placed(h, kk, ww) /\ Seen(kk, ww) /\ GoTo(p, kk, ww)
    BY <1>8, <1>10, <1>12, <2>4
  <2>6. registry' = rr /\ registry'.uid = registry.uid /\ registry.uid # 0
    BY <1>2, <1>8, <1>9, <1>12
  <2> HIDE DEF v, t, r, there, back, w
  <2>7. Keeps
    BY <1>1, <1>2, <2>6 DEF Keeps, Shapes
  <2>8. Stored(h)'
    <3>1. Nodes' = Nodes
      BY DEF SameNodes, Nodes
    <3>2. Shapes'
      BY <1>1, <1>2, <1>9, <2>6, <3>1 DEF Shapes, SameNodes
    <3>3. \A b, m : Listed(g, b, m) => Listed(h, b, m)
      BY <2>4, HoldsGrows DEF Listed
    <3>4. Records(h)
      BY <1>2, <3>3 DEF Stored, Records
    <3>5. Records(h)'
      BY <1>1, <3>1, <3>4, RecordsKept
    <3>6. \A c \in DOMAIN g.addr : HasAddr(h, c, g.addr[c])
      BY <2>4 DEF Within
    <3>7. \A c \in DOMAIN g.port : HasPort(h, c, g.port[c])
      BY <2>4 DEF Within
    <3>8. \A x : Retains(g, x) => Retains(h, x)
      BY <3>6, <3>7 DEF Retains, HasAddr, HasPort
    <3>9. Reported(h)'
      BY <1>1, <1>2, <3>8 DEF Stored, Reported
    <3>10. UIDs' /\ Damaged'
      <4>1. DOMAIN rr.port \subseteq DOMAIN rr.addr
        BY <2>4 DEF Grants, Within, HasAddr, HasPort
      <4> QED
        BY <1>1, <1>2, <2>4, <2>6, <4>1 DEF Registered, UIDs, Damaged, SameDamage
    <3>11. Pinned(h)'
      <4>1. "identity" \notin hurt => identity # 0 /\ identity = registry.uid
        BY <1>2, <1>12, <2>6 DEF Seen, v
      <4> QED
        BY <1>1, <2>6, <4>1 DEF Pinned, SameDamage
    <3>12. Kept(h)' /\ Within(registry, h)'
      BY <2>4, <2>6 DEF Kept, Within
    <3> QED
      BY <2>4, <3>2, <3>5, <3>9, <3>10, <3>11, <3>12 DEF Stored, Registered
  <2>9. Inv(h)'
    BY <2>4, <2>5, <2>7, <2>8, Advance
  <2> QED
    BY <2>9
<1> QED
  BY <1>5, <1>6, <1>7, <1>11, <1>12

-----------------------------------------------------------------------------
(* Writes beside the registry *)

\* Ledgers and statuses remain complete lists of granted claims; Pods and keys
\* appear only once something was granted (reconciler.go:405-560).
LEMMA StoredWritten ==
  ASSUME NEW g, Stored(g), SameNodes, SameDamage, UNCHANGED <<registry, identity>>,
         drawn' \in Nat, drawn <= drawn', spec' \in [Bindings -> SpecType],
         ledger' \in [Bindings -> Members], status' \in [Bindings -> Members],
         secrets' \subseteq Secret, pods' \subseteq Pod, announced' \subseteq ReceiptType,
         \A b \in Bindings : Listed(g, b, ledger'[b]) /\ Listed(g, b, status'[b]), Reported(g)',
         ((pods = {} => pods' = {}) /\ (secrets = {} => secrets' = {})) \/ DOMAIN g.addr # {}
  PROVE  Stored(g)'
<1>1. Nodes' = Nodes
  BY DEF SameNodes, Nodes
<1>2. Shapes'
  BY <1>1 DEF Shapes, Stored, SameNodes
<1>3. Records(g)'
  <2>1. \A m : Whole(m)' <=> Whole(m)
    BY <1>1 DEF Whole
  <2> QED
    BY <2>1 DEF Records, Listed
<1>4. Registered(g)'
  <2>1. registry.uid \in Nat /\ identity \in Nat /\ drawn \in Nat
    BY DEF Stored, Shapes, Reg
  <2>2. Damaged' /\ UIDs'
    BY <2>1 DEF Stored, Registered, Damaged, UIDs, SameDamage
  <2>3. Pinned(g)'
    BY DEF Stored, Registered, Pinned, SameDamage
  <2>4. Kept(g)' /\ Within(registry, g)'
    BY DEF Stored, Registered, Kept, SameDamage, Within
  <2> QED
    BY <2>2, <2>3, <2>4 DEF Registered
<1> QED
  BY <1>2, <1>3, <1>4 DEF Stored

\* A step of p that writes beside the registry.
LEMMA Writes ==
  ASSUME NEW g, Inv(g), NEW p \in Operators, NEW l, NEW w, GoTo(p, l, w), Placed(g, l, w), Seen(l, w),
         SameNodes, SameDamage, UNCHANGED <<registry, identity, spec>>, drawn' \in Nat, drawn <= drawn',
         ledger' \in [Bindings -> Members], status' \in [Bindings -> Members],
         secrets' \subseteq Secret, pods' \subseteq Pod, announced' \subseteq ReceiptType,
         \A b \in Bindings : Listed(g, b, ledger'[b]) /\ Listed(g, b, status'[b]), Reported(g)',
         ((pods = {} => pods' = {}) /\ (secrets = {} => secrets' = {})) \/ DOMAIN g.addr # {}
  PROVE  Inv(g)'
<1>1. Stored(g) /\ spec' \in [Bindings -> SpecType]
  BY DEF Inv, Stored, Shapes
<1>2. Stored(g)'
  BY <1>1, StoredWritten
<1>3. Keeps
  BY DEF Keeps, Inv, Stored, Shapes
<1>4. Within(g, g)
  BY DEF Within, HasAddr, HasPort
<1> QED
  BY <1>2, <1>3, <1>4, Advance

\* What Writes asks of the parts that a step leaves alone.
LEMMA Untouched ==
  ASSUME NEW g, Inv(g)
  PROVE  /\ drawn \in Nat /\ drawn <= drawn /\ spec \in [Bindings -> SpecType]
         /\ ledger \in [Bindings -> Members] /\ status \in [Bindings -> Members]
         /\ secrets \subseteq Secret /\ pods \subseteq Pod /\ announced \subseteq ReceiptType
         /\ \A b \in Bindings : Listed(g, b, ledger[b]) /\ Listed(g, b, status[b])
         /\ announced' = announced => Reported(g)'
<1>1. announced' = announced => Reported(g)'
  BY DEF Inv, Stored, Reported
<1> QED
  BY <1>1 DEF Inv, Stored, Shapes, Records

\* A copy with a ledger holds granted claims (reconciler.go:508).
LEMMA Granted ==
  ASSUME NEW g, Inv(g), NEW l, NEW v, Placed(g, l, v), Tidy(v) \/ Ready(v)
  PROVE  DOMAIN g.addr # {}
<1>1. PICK n \in Nodes : TRUE
  BY DEF Inv, Stored, Shapes
<1>2. n \in DOMAIN v.mem /\ v.mem[n].health # 0
  BY <1>1 DEF Tidy, Drafts, Ready, Whole
<1>3. HoldsHealth(g, v.b, n, v.mem[n])
  BY <1>2 DEF Placed, Holds
<1> QED
  BY <1>2, <1>3 DEF HoldsHealth, HasAddr

-----------------------------------------------------------------------------
(* members(): the ledger, the resources, a draft *)

LEMMA GetLedgerInv ==
  ASSUME NEW g, Inv(g), NEW p \in Operators, GetLedger(p), SameNodes, SameDamage
  PROVE  Inv(g)'
<1>1. PICK m, l, w : /\ m = ledger[view[p].b] /\ l = (IF m = << >> THEN "resources" ELSE "work")
                     /\ w = [view[p] EXCEPT !.mem = m]
  OBVIOUS
<1>2. pc[p] = "ledger" /\ GoTo(p, l, w) /\ UNCHANGED <<store, announced>>
  BY <1>1 DEF GetLedger
<1>3. m \in Members /\ Listed(g, view[p].b, m)
  BY <1>1, Holding, Untouched
<1>4. /\ w \in View /\ w.mem = m /\ w.keyed = view[p].keyed /\ w.spec = view[p].spec
      /\ w.goal = view[p].goal /\ w.b = view[p].b /\ w.reg = view[p].reg /\ w.identity = view[p].identity
  BY <1>1, <1>3, Holding DEF View
<1>5. w.keyed = {} /\ Within(w.reg, g) /\ Seen("ledger", view[p])
  BY <1>2, <1>4, Holding DEF Placed, Local
<1>6. CASE m = << >>
  <2>1. DOMAIN m = {} /\ l = "resources"
    BY <1>1, <1>6, Nothing
  <2>2. Placed(g, l, w)
    BY <1>4, <1>5, <2>1 DEF Placed, Local, Holds, Labels, Asking, Deleting
  <2>3. Seen(l, w)
    BY <1>4, <1>5, <2>1 DEF Seen
  <2> QED
    BY <1>2, <2>2, <2>3, Moves
<1>7. CASE m # << >>
  <2>1. Whole(m) /\ Holds(g, w.b, m) /\ l = "work"
    BY <1>1, <1>3, <1>4, <1>7 DEF Listed
  <2>2. Tidy(w)
    BY <1>4, <2>1 DEF Whole, Tidy, Drafts
  <2>3. Placed(g, l, w)
    BY <1>4, <1>5, <2>1, <2>2 DEF Placed, Local, Labels, Asking, Deleting
  <2>4. Seen(l, w)
    BY <1>4, <1>5, <2>1 DEF Seen
  <2> QED
    BY <1>2, <2>3, <2>4, Moves
<1> QED
  BY <1>6, <1>7

LEMMA ListResourcesInv ==
  ASSUME NEW g, Inv(g), NEW p \in Operators, ListResources(p), SameNodes, SameDamage
  PROVE  Inv(g)'
<1>1. pc[p] = "resources" /\ UNCHANGED <<store, announced>>
  BY DEF ListResources
<1>2. CASE Stop(p)
  BY <1>1, <1>2, StopPlaced, Moves DEF Stop
<1>3. CASE ~Stop(p)
  <2>1. PICK w : w = [view[p] EXCEPT !.goal = "claim"]
    OBVIOUS
  <2>2. GoTo(p, "draft", w)
    BY <1>3, <2>1 DEF ListResources
  <2>3. /\ w \in View /\ w.mem = view[p].mem /\ w.keyed = view[p].keyed
        /\ w.b = view[p].b /\ w.reg = view[p].reg /\ w.identity = view[p].identity
    BY <2>1, Holding DEF View
  <2>4. Placed(g, "resources", view[p]) /\ Seen("resources", view[p])
    BY <1>1, Holding
  <2>5. DOMAIN w.mem = {} /\ w.keyed = {}
    BY <2>3, <2>4 DEF Placed, Local
  <2>6. Early(w) /\ Drafts(w) = {}
    BY <2>5 DEF Early, Drafts
  <2>7. Placed(g, "draft", w)
    BY <2>3, <2>4, <2>5, <2>6 DEF Placed, Local, Labels, Asking, Deleting
  <2>8. Seen("draft", w)
    BY <2>3, <2>4 DEF Seen
  <2> QED
    BY <1>1, <2>2, <2>7, <2>8, Moves
<1> QED
  BY <1>2, <1>3

\* Random IDs are drawn; a member waits for its health address (reconciler.go:566-589).
LEMMA DraftMemberInv ==
  ASSUME NEW g, Inv(g), NEW p \in Operators, DraftMember(p), SameNodes, SameDamage
  PROVE  Inv(g)'
<1>1. PICK v, n, x, m, w :
         /\ v = view[p] /\ n = First(Unplaced(v))
         /\ x = [id |-> drawn + 1, health |-> 0, key |-> 0, links |-> << >>]
         /\ m = Put(v.mem, n, x) /\ w = [v EXCEPT !.mem = m]
  OBVIOUS
<1>2. /\ pc[p] = "draft" /\ Unplaced(v) # {} /\ drawn' = drawn + 1
      /\ UNCHANGED <<registry, identity, ledger, secrets, pods, spec, status, announced>>
      /\ GoTo(p, "list", w)
  BY <1>1 DEF DraftMember
<1>3. v \in View /\ v.mem \in Members /\ Placed(g, "draft", v) /\ Seen("draft", v) /\ Early(v) /\ Drafts(v) = {}
  BY <1>1, <1>2, Holding DEF Placed, Local
<1>4. n \in Nodes /\ n \notin DOMAIN v.mem /\ n \in Nat
  <2>1. Nodes \subseteq Nat
    BY DEF Inv, Stored, Shapes, World, Nodes
  <2>2. Unplaced(v) \in SUBSET Nat
    BY <2>1 DEF Unplaced
  <2>3. n \in Unplaced(v)
    BY <1>1, <1>2, <2>2, FirstIn
  <2> QED
    BY <2>1, <2>3 DEF Unplaced
<1>5. drawn \in Nat
  BY DEF Inv, Stored, Shapes
<1>6. x \in Member /\ x.health = 0 /\ DOMAIN x.links = {}
  <2>1. << >> \in Partial(Peers, Link) /\ DOMAIN << >> = {}
    BY Nothing
  <2> QED
    BY <1>1, <1>5, <2>1 DEF Member
<1>7. m \in Members
  BY <1>1, <1>3, <1>4, <1>6, PutPartial DEF Members
<1>8. DOMAIN m = {n} \cup DOMAIN v.mem /\ m[n] = x /\ \A k \in DOMAIN v.mem : m[k] = v.mem[k]
  BY <1>1, <1>4 DEF Put
<1>9. /\ w \in View /\ w.mem = m /\ w.keyed = v.keyed /\ w.b = v.b
      /\ w.reg = v.reg /\ w.identity = v.identity
  BY <1>1, <1>3, <1>7 DEF View
<1>10. Early(w)
  BY <1>3, <1>4, <1>6, <1>8, <1>9 DEF Early
<1>11. Drafts(w) = {n}
  BY <1>3, <1>4, <1>6, <1>8, <1>9 DEF Drafts
<1>12. Local("list", w)
  BY <1>4, <1>10, <1>11 DEF Local, OneDraft, Early, Asking, Deleting
<1>13. Holds(g, w.b, w.mem)
  <2>1. HoldsHealth(g, v.b, n, m[n]) /\ \A q \in DOMAIN m[n].links : HoldsLink(g, v.b, n, m[n], q)
    BY <1>6, <1>8 DEF HoldsHealth
  <2> QED
    BY <1>3, <1>8, <1>9, <2>1 DEF Placed, Holds
<1>14. Placed(g, "list", w)
  BY <1>3, <1>9, <1>12, <1>13 DEF Placed, Labels, Asking
<1>15. Seen("list", w)
  BY <1>3, <1>9 DEF Seen
<1> QED
  BY <1>2, <1>5, <1>14, <1>15, Untouched, Writes

\* The first complete ledger is created, and only once (reconciler.go:508-523).
LEMMA CreateLedgerInv ==
  ASSUME NEW g, Inv(g), NEW p \in Operators, CreateLedger(p), SameNodes, SameDamage
  PROVE  Inv(g)'
<1>1. PICK v : v = view[p]
  OBVIOUS
<1>2. /\ pc[p] = "draft" /\ Unplaced(v) = {}
      /\ UNCHANGED <<registry, identity, secrets, pods, spec, status, drawn, announced>>
  BY <1>1 DEF CreateLedger
<1>3. /\ v \in View /\ v.mem \in Members /\ v.b \in Bindings /\ Placed(g, "draft", v) /\ Seen("draft", v)
      /\ Early(v) /\ Drafts(v) = {}
  BY <1>1, <1>2, Holding DEF Placed, Local
<1>4. CASE ledger[v.b] = << >>
  <2>1. ledger' = [ledger EXCEPT ![v.b] = v.mem] /\ GoTo(p, "work", v)
    BY <1>1, <1>4 DEF CreateLedger
  <2>2. DOMAIN v.mem = Nodes
    BY <1>2, <1>3 DEF Unplaced, Early
  <2>3. Tidy(v) /\ Whole(v.mem)
    BY <1>3, <2>2 DEF Early, Tidy, Whole, Drafts
  <2>4. Placed(g, "work", v)
    BY <1>3, <2>3 DEF Placed, Local, Labels, Asking, Deleting, Early
  <2>5. Seen("work", v)
    BY <1>3 DEF Seen
  <2>6. ledger' \in [Bindings -> Members]
    BY <1>3, <2>1, Untouched
  <2>7. \A b \in Bindings : Listed(g, b, ledger'[b])
    <3>1. Listed(g, v.b, v.mem)
      BY <1>3, <2>3 DEF Listed, Placed
    <3> QED
      BY <2>1, <3>1, Untouched
  <2> QED
    BY <1>2, <2>1, <2>4, <2>5, <2>6, <2>7, Untouched, Writes
<1>5. CASE ledger[v.b] # << >>
  <2>1. GoTo(p, "ledger", v) /\ UNCHANGED <<store, announced>>
    BY <1>1, <1>2, <1>5 DEF CreateLedger, store
  <2>2. Placed(g, "ledger", v)
    BY <1>3 DEF Placed, Local, Labels, Asking, Deleting, Early
  <2>3. Seen("ledger", v)
    BY <1>3 DEF Seen
  <2> QED
    BY <2>1, <2>2, <2>3, Moves
<1> QED
  BY <1>4, <1>5

-----------------------------------------------------------------------------
(* ensureKey, linkClaims, saveLedger *)

\* Some member misses its key or a link (reconciler.go:525-560).
LEMMA FirstUnfinished ==
  ASSUME Shapes, NEW v, Unfinished(v) # {}
  PROVE  First(Unfinished(v)) \in Unfinished(v) /\ First(Unfinished(v)) \in Nodes
<1>1. Unfinished(v) \in SUBSET Nat
  BY DEF Shapes, World, Nodes, Unfinished
<1>2. First(Unfinished(v)) \in Unfinished(v)
  BY <1>1, FirstIn
<1> QED
  BY <1>2 DEF Unfinished

\* A key is created or read back, and written to the copy (keys.go:40-79).
LEMMA EnsureKeyInv ==
  ASSUME NEW g, Inv(g), NEW p \in Operators, EnsureKey(p), SameNodes, SameDamage
  PROVE  Inv(g)'
<1>1. PICK v, n, old, key :
         /\ v = view[p] /\ n = First(Unfinished(v)) /\ old = SecretOf(v, n)
         /\ key = IF old = {} THEN drawn + 1 ELSE (CHOOSE s \in old : TRUE).key
  OBVIOUS
<1>2. /\ pc[p] = "work" /\ Unfinished(v) # {}
      /\ UNCHANGED <<registry, identity, ledger, pods, spec, status, announced>>
  BY <1>1 DEF EnsureKey
<1>3. /\ v \in View /\ v.mem \in Members /\ v.b \in Bindings /\ Placed(g, "work", v) /\ Seen("work", v)
      /\ Tidy(v) /\ v.keyed \in SUBSET Nat
  BY <1>1, <1>2, Holding DEF Placed, Local
<1>4. n \in Nodes /\ n \in DOMAIN v.mem /\ n \in Nat
  BY <1>1, <1>2, <1>3, FirstUnfinished, MemberFacts DEF Inv, Stored, Tidy
<1>5. drawn \in Nat /\ secrets \subseteq Secret
  BY DEF Inv, Stored, Shapes
<1>6. key \in Nat /\ key # 0
  <2>1. CASE old = {}
    BY <1>1, <1>5, <2>1
  <2>2. CASE old # {}
    <3>1. (CHOOSE s \in old : TRUE) \in old
      BY <2>2
    <3>2. old \subseteq Secret
      BY <1>1, <1>5 DEF SecretOf
    <3>3. \A s \in Secret : s.key \in Nat /\ s.key # 0
      BY DEF Secret
    <3> QED
      BY <1>1, <2>2, <3>1, <3>2, <3>3
  <2> QED
    BY <2>1, <2>2
<1>7. CASE ~KeyUsable(v.mem[n], old, key)
  <2>1. Stop(p) /\ UNCHANGED <<secrets, drawn>>
    BY <1>1, <1>7 DEF EnsureKey
  <2>2. UNCHANGED <<store, announced>>
    BY <1>2, <2>1 DEF store
  <2> QED
    BY <2>1, <2>2, StopPlaced, Moves DEF Stop
<1>8. CASE KeyUsable(v.mem[n], old, key)
  <2>1. PICK s : s = [b |-> v.b, id |-> v.mem[n].id, key |-> key]
    OBVIOUS
  <2>2. PICK w : w = [v EXCEPT !.mem[n].key = key, !.keyed = @ \cup {n}]
    OBVIOUS
  <2>3. /\ secrets' = secrets \cup {s} /\ drawn' = (IF old = {} THEN drawn + 1 ELSE drawn)
        /\ GoTo(p, "work", w)
    BY <1>1, <1>8, <2>1, <2>2 DEF EnsureKey
  <2>4. PICK x, m : x = [v.mem[n] EXCEPT !.key = key] /\ m = [v.mem EXCEPT ![n] = x]
    OBVIOUS
  <2>5. /\ x \in Member /\ x.id = v.mem[n].id /\ x.health = v.mem[n].health
        /\ x.links = v.mem[n].links /\ x.key = key /\ v.mem[n].id \in Nat
    BY <1>3, <1>4, <1>6, <2>4, MemberFacts DEF Member
  <2>6. m \in Members
    BY <1>3, <1>4, <2>4, <2>5, ExceptPartial DEF Members
  <2>7. DOMAIN m = DOMAIN v.mem /\ m[n] = x /\ \A k \in DOMAIN v.mem : k # n => m[k] = v.mem[k]
    BY <1>4, <2>4
  <2>8. w = [v EXCEPT !.mem = m, !.keyed = @ \cup {n}]
    BY <2>2, <2>4
  <2>9. /\ w \in View /\ w.mem = m /\ w.keyed = v.keyed \cup {n} /\ w.spec = v.spec
        /\ w.b = v.b /\ w.reg = v.reg /\ w.identity = v.identity
    BY <1>3, <1>4, <2>6, <2>8 DEF View
  <2>10. Tidy(w)
    BY <1>3, <1>4, <2>5, <2>7, <2>9 DEF Tidy, Drafts
  <2>11. Local("work", w)
    <3>1. w.keyed \subseteq Nodes /\ \A k \in w.keyed : k \in DOMAIN w.mem /\ w.mem[k].key # 0
      BY <1>3, <1>4, <1>6, <2>5, <2>7, <2>9 DEF Placed, Local
    <3> QED
      BY <2>10, <3>1 DEF Local, Asking, Deleting
  <2>12. Holds(g, w.b, w.mem)
    <3>1. \A k \in DOMAIN v.mem : /\ HoldsHealth(g, v.b, k, v.mem[k])
                                  /\ \A q \in DOMAIN v.mem[k].links : HoldsLink(g, v.b, k, v.mem[k], q)
      BY <1>3 DEF Placed, Holds
    <3>2. HoldsHealth(g, v.b, n, m[n]) /\ \A q \in DOMAIN m[n].links : HoldsLink(g, v.b, n, m[n], q)
      BY <1>4, <2>5, <2>7, <3>1 DEF HoldsHealth, HoldsLink
    <3> QED
      BY <2>7, <2>9, <3>1, <3>2 DEF Holds
  <2>13. Placed(g, "work", w) /\ Seen("work", w)
    BY <1>3, <2>9, <2>11, <2>12 DEF Placed, Labels, Seen
  <2>14. drawn' \in Nat /\ drawn <= drawn'
    BY <1>5, <2>3
  <2>15. s \in Secret
    BY <1>3, <1>6, <2>1, <2>5 DEF Secret
  <2>16. DOMAIN g.addr # {} /\ secrets' \subseteq Secret
    BY <1>3, <1>5, <2>3, <2>15, Granted
  <2> QED
    BY <1>2, <2>3, <2>13, <2>14, <2>16, Untouched, Writes
<1> QED
  BY <1>7, <1>8

LEMMA LinkClaimsInv ==
  ASSUME NEW g, Inv(g), NEW p \in Operators, LinkClaims(p), SameNodes, SameDamage
  PROVE  Inv(g)'
<1>1. PICK v, w : v = view[p] /\ w = [v EXCEPT !.goal = "claim"]
  OBVIOUS
<1>2. /\ pc[p] = "work" /\ Unfinished(v) # {} /\ First(Unfinished(v)) \in v.keyed
      /\ GoTo(p, "list", w) /\ UNCHANGED <<store, announced>>
  BY <1>1 DEF LinkClaims
<1>3. v \in View /\ Placed(g, "work", v) /\ Seen("work", v) /\ Tidy(v) /\ Linking(v)
  BY <1>1, <1>2, Holding DEF Placed, Local, Linking
<1>4. /\ w \in View /\ w.mem = v.mem /\ w.keyed = v.keyed /\ w.spec = v.spec /\ w.goal = "claim"
      /\ w.b = v.b /\ w.reg = v.reg /\ w.identity = v.identity
  BY <1>1, <1>3 DEF View
<1>5. Linking(w)
  BY <1>3, <1>4, SameWork
<1>6. Placed(g, "list", w) /\ Seen("list", w)
  BY <1>3, <1>4, <1>5 DEF Placed, Local, Labels, Asking, Deleting, Seen
<1> QED
  BY <1>2, <1>6, Moves

\* The ledger is overwritten with a complete copy (reconciler.go:589-622).
LEMMA SaveLedgerInv ==
  ASSUME NEW g, Inv(g), NEW p \in Operators, SaveLedger(p), SameNodes, SameDamage
  PROVE  Inv(g)'
<1>1. PICK v : v = view[p]
  OBVIOUS
<1>2. /\ pc[p] = "work" /\ Unfinished(v) = {}
      /\ UNCHANGED <<registry, identity, secrets, pods, spec, status, drawn, announced>>
  BY <1>1 DEF SaveLedger
<1>3. /\ v \in View /\ v.mem \in Members /\ v.b \in Bindings /\ Placed(g, "work", v) /\ Seen("work", v)
      /\ Tidy(v) /\ \A k \in v.keyed : k \in DOMAIN v.mem /\ v.mem[k].key # 0
  BY <1>1, <1>2, Holding DEF Placed, Local
<1>4. CASE ledger[v.b] = << >>
  <2>1. Stop(p) /\ UNCHANGED <<store, announced>>
    BY <1>1, <1>2, <1>4 DEF SaveLedger, store
  <2> QED
    BY <2>1, StopPlaced, Moves DEF Stop
<1>5. CASE ledger[v.b] # << >>
  <2>1. ledger' = [ledger EXCEPT ![v.b] = v.mem] /\ GoTo(p, "pods", v)
    BY <1>1, <1>5 DEF SaveLedger
  <2>2. \A n \in Nodes : n \in v.keyed /\ Unlinked(v, n) = {}
    BY <1>2 DEF Unfinished
  <2>3. Ready(v) /\ Whole(v.mem)
    BY <1>3, <2>2 DEF Tidy, Drafts, Unlinked, Ready, Whole
  <2>4. Placed(g, "pods", v) /\ Seen("pods", v)
    BY <1>3, <2>3 DEF Placed, Local, Labels, Asking, Deleting, Seen
  <2>5. ledger' \in [Bindings -> Members]
    BY <1>3, <2>1, Untouched
  <2>6. \A b \in Bindings : Listed(g, b, ledger'[b])
    <3>1. Listed(g, v.b, v.mem)
      BY <1>3, <2>3 DEF Listed, Placed
    <3> QED
      BY <2>1, <3>1, Untouched
  <2> QED
    BY <1>2, <2>1, <2>4, <2>5, <2>6, Untouched, Writes
<1> QED
  BY <1>4, <1>5

-----------------------------------------------------------------------------
(* Pods and the report *)

LEMMA CreatePodsInv ==
  ASSUME NEW g, Inv(g), NEW p \in Operators, CreatePods(p), SameNodes, SameDamage
  PROVE  Inv(g)'
<1>1. PICK v : v = view[p]
  OBVIOUS
<1>2. /\ pc[p] = "pods" /\ GoTo(p, "report", v)
      /\ UNCHANGED <<registry, identity, ledger, secrets, spec, status, drawn, announced>>
  BY <1>1 DEF CreatePods
<1>3. /\ v \in View /\ v.mem \in Members /\ v.b \in Bindings /\ Placed(g, "pods", v) /\ Seen("pods", v)
      /\ Ready(v)
  BY <1>1, <1>2, Holding DEF Placed, Local
<1>4. Placed(g, "report", v) /\ Seen("report", v)
  BY <1>3 DEF Placed, Local, Labels, Asking, Deleting, Seen
<1>5. PICK ids \in SUBSET {v.mem[n].id : n \in Nodes} :
        pods' = pods \cup {[b |-> v.b, id |-> i, up |-> TRUE] : i \in {j \in ids : ~\E x \in pods : x.id = j}}
  BY <1>1 DEF CreatePods
<1>6. \A i \in ids : i \in Nat
  <2>1. \A n \in Nodes : v.mem[n].id \in Nat
    BY <1>3, MemberFacts DEF Ready, Whole
  <2> QED
    BY <2>1
<1>7. pods' \subseteq Pod
  <2>1. \A i \in ids : [b |-> v.b, id |-> i, up |-> TRUE] \in Pod
    BY <1>3, <1>6 DEF Pod
  <2> QED
    BY <1>5, <2>1, Untouched
<1>8. DOMAIN g.addr # {}
  BY <1>3, Granted
<1> QED
  BY <1>2, <1>4, <1>7, <1>8, Untouched, Writes

\* What complete members say of themselves was granted (reconciler.go:320-352).
LEMMA HeldRetained ==
  ASSUME NEW g, NEW b \in Bindings, NEW m \in Members, Whole(m), Holds(g, b, m), NEW r \in Receipts(b, m)
  PROVE  /\ Retains(g, r) /\ (r.port = 0 <=> r.claim.peer = Health)
         /\ \E n \in Nodes : r.key = m[n].key /\ r.claim.id = m[n].id
<1>1. PICK n \in DOMAIN m :
        \/ r = Receipt(Claim(b, n, m[n].id, Health), m[n].health, 0, m[n].key)
        \/ \E q \in DOMAIN m[n].links :
            r = Receipt(Claim(b, n, m[n].id, q), m[n].links[q].ip, m[n].links[q].port, m[n].key)
  BY ReceiptElim
<1>2. /\ m[n].health # 0 /\ \A q \in DOMAIN m[n].links : m[n].links[q].port # 0
      /\ HoldsHealth(g, b, n, m[n]) /\ \A q \in DOMAIN m[n].links : HoldsLink(g, b, n, m[n], q)
      /\ n \in Nodes
  BY DEF Whole, Holds
<1>3. CASE r = Receipt(Claim(b, n, m[n].id, Health), m[n].health, 0, m[n].key)
  BY <1>2, <1>3 DEF Receipt, Claim, HoldsHealth, HasAddr, Retains
<1>4. ASSUME NEW q \in DOMAIN m[n].links,
             r = Receipt(Claim(b, n, m[n].id, q), m[n].links[q].ip, m[n].links[q].port, m[n].key)
      PROVE  /\ Retains(g, r) /\ (r.port = 0 <=> r.claim.peer = Health)
             /\ \E k \in Nodes : r.key = m[k].key /\ r.claim.id = m[k].id
  <2>1. q # Health
    BY MemberFacts, RegistryAssumption
  <2> QED
    BY <1>2, <1>4, <2>1 DEF Receipt, Claim, HoldsLink, HasAddr, HasPort, Retains
<1> QED
  BY <1>1, <1>3, <1>4

\* Only complete members with a key are reported (reconciler.go:320-352).
LEMMA ReportInv ==
  ASSUME NEW g, Inv(g), NEW p \in Operators, Report(p), SameNodes, SameDamage
  PROVE  Inv(g)'
<1>1. PICK v : v = view[p]
  OBVIOUS
<1>2. /\ pc[p] = "report" /\ GoTo(p, "idle", NoView)
      /\ UNCHANGED <<registry, identity, ledger, secrets, pods, spec, drawn>>
  BY DEF Report, Stop
<1>3. /\ v \in View /\ v.mem \in Members /\ v.b \in Bindings /\ Placed(g, "report", v) /\ Ready(v)
  BY <1>1, <1>2, Holding DEF Placed, Local
<1>4. CASE ~Current(v)
  <2>1. UNCHANGED <<store, announced>>
    BY <1>1, <1>2, <1>4 DEF Report, store
  <2> QED
    BY <1>2, <2>1, StopPlaced, Moves
<1>5. CASE Current(v)
  <2>1. /\ status' = [status EXCEPT ![v.b] = v.mem]
        /\ announced' = announced \cup Receipts(v.b, v.mem)
    BY <1>1, <1>5 DEF Report
  <2>2. status' \in [Bindings -> Members] /\ announced' \subseteq ReceiptType
    BY <1>3, <2>1, Untouched, ReceiptsType
  <2>3. \A b \in Bindings : Listed(g, b, status'[b])
    <3>1. Listed(g, v.b, v.mem)
      BY <1>3 DEF Listed, Placed, Ready
    <3> QED
      BY <1>3, <2>1, <3>1, Untouched
  <2>4. Reported(g)'
    <3>1. \A r \in Receipts(v.b, v.mem) : Retains(g, r) /\ r.key # 0 /\ (r.port = 0 <=> r.claim.peer = Health)
      BY <1>3, HeldRetained DEF Placed, Ready
    <3>2. Reported(g)
      BY DEF Inv, Stored
    <3> QED
      BY <2>1, <3>1, <3>2 DEF Reported
  <2> QED
    BY <1>2, <2>2, <2>3, <2>4, StopPlaced, Untouched, Writes
<1> QED
  BY <1>4, <1>5

-----------------------------------------------------------------------------
(* Delete *)

\* Whatever Delete lists is a Pod or a Secret; a deleting pass claims nothing.
LEMMA DeletingPlaced ==
  ASSUME NEW g, NEW l \in Deleting, NEW v, Placed(g, l, v), Seen(l, v), NEW w \in View, NEW k \in Deleting,
         w.keyed = v.keyed, w.b = v.b, w.reg = v.reg, w.identity = v.identity, Holds(g, w.b, w.mem)
  PROVE  Placed(g, k, w) /\ Seen(k, w)
<1>1. Local(k, w)
  BY DEF Placed, Local, Deleting, Asking
<1> QED
  BY <1>1 DEF Placed, Labels, Seen, Deleting

LEMMA DeletePodsInv ==
  ASSUME NEW g, Inv(g), NEW p \in Operators, DeletePods(p), SameNodes, SameDamage
  PROVE  Inv(g)'
<1>1. PICK v, mine, w : /\ v = view[p] /\ mine = {x \in pods : x.b = v.b}
                        /\ w = [v EXCEPT !.doomed = Resources(v.b)]
  OBVIOUS
<1>2. pc[p] = "delete" /\ UNCHANGED <<registry, identity, ledger, secrets, spec, status, drawn, announced>>
  BY DEF DeletePods
<1>3. v \in View /\ Placed(g, "delete", v) /\ Seen("delete", v) /\ pods \subseteq Pod /\ secrets \subseteq Secret
  BY <1>1, <1>2, Holding, Untouched
<1>4. CASE mine # {}
  <2>1. pods' = (pods \ mine) \cup {[x EXCEPT !.up = FALSE] : x \in mine} /\ GoTo(p, "idle", NoView)
    BY <1>1, <1>4 DEF DeletePods, Stop
  <2>2. \A x \in Pod : [x EXCEPT !.up = FALSE] \in Pod
    BY DEF Pod
  <2>3. pods' \subseteq Pod
    BY <1>1, <1>3, <2>1, <2>2
  <2>4. pods # {}
    BY <1>1, <1>4
  <2> QED
    BY <1>2, <2>1, <2>3, <2>4, StopPlaced, Untouched, Writes
<1>5. CASE mine = {}
  <2>1. GoTo(p, "keys", w) /\ UNCHANGED <<store, announced>>
    BY <1>1, <1>2, <1>5 DEF DeletePods, store
  <2>2. Resources(v.b) \subseteq Pod \cup Secret
    BY <1>3 DEF Resources
  <2>3. /\ w \in View /\ w.mem = v.mem /\ w.keyed = v.keyed
        /\ w.b = v.b /\ w.reg = v.reg /\ w.identity = v.identity
    BY <1>1, <1>3, <2>2 DEF View
  <2>4. Placed(g, "keys", w) /\ Seen("keys", w)
    BY <1>3, <2>3, DeletingPlaced DEF Deleting, Placed
  <2> QED
    BY <2>1, <2>4, Moves
<1> QED
  BY <1>4, <1>5

LEMMA DeleteKeyInv ==
  ASSUME NEW g, Inv(g), NEW p \in Operators, DeleteKey(p), SameNodes, SameDamage
  PROVE  Inv(g)'
<1>1. PICK v : v = view[p]
  OBVIOUS
<1>2. /\ pc[p] = "keys"
      /\ UNCHANGED <<registry, identity, ledger, pods, spec, status, drawn, announced>>
  BY DEF DeleteKey
<1>3. PICK s \in v.doomed : secrets' = secrets \ {s} /\ GoTo(p, "keys", [v EXCEPT !.doomed = @ \ {s}])
  BY <1>1 DEF DeleteKey
<1>4. PICK w : w = [v EXCEPT !.doomed = @ \ {s}]
  OBVIOUS
<1>5. v \in View /\ Placed(g, "keys", v) /\ Seen("keys", v)
  BY <1>1, <1>2, Holding
<1>6. /\ w \in View /\ w.mem = v.mem /\ w.keyed = v.keyed
      /\ w.b = v.b /\ w.reg = v.reg /\ w.identity = v.identity
  BY <1>4, <1>5 DEF View
<1>7. Placed(g, "keys", w) /\ Seen("keys", w)
  BY <1>5, <1>6, DeletingPlaced DEF Deleting, Placed
<1>8. secrets' \subseteq secrets /\ secrets' \subseteq Secret
  BY <1>3, Untouched
<1> QED
  BY <1>2, <1>3, <1>4, <1>7, <1>8, Untouched, Writes

LEMMA RecheckInv ==
  ASSUME NEW g, Inv(g), NEW p \in Operators, Recheck(p), SameNodes, SameDamage
  PROVE  Inv(g)'
<1>1. PICK v, w : v = view[p] /\ w = [v EXCEPT !.mem = ledger[v.b]]
  OBVIOUS
<1>2. pc[p] = "keys" /\ UNCHANGED <<store, announced>> /\ (Stop(p) \/ GoTo(p, "forget", w))
  BY <1>1 DEF Recheck
<1>3. CASE Stop(p)
  BY <1>2, <1>3, StopPlaced, Moves DEF Stop
<1>4. CASE GoTo(p, "forget", w)
  <2>1. v \in View /\ Placed(g, "keys", v) /\ Seen("keys", v) /\ v.b \in Bindings /\ ledger[v.b] \in Members
    BY <1>1, <1>2, Holding
  <2>2. /\ w \in View /\ w.mem = ledger[v.b] /\ w.keyed = v.keyed
        /\ w.b = v.b /\ w.reg = v.reg /\ w.identity = v.identity
    BY <1>1, <2>1 DEF View
  <2>3. Holds(g, w.b, w.mem)
    BY <2>1, <2>2, Untouched, Nothing DEF Listed, Holds
  <2>4. Placed(g, "forget", w) /\ Seen("forget", w)
    BY <2>1, <2>2, <2>3, DeletingPlaced DEF Deleting
  <2> QED
    BY <1>2, <1>4, <2>4, Moves
<1> QED
  BY <1>2, <1>3, <1>4

LEMMA DeleteLedgerInv ==
  ASSUME NEW g, Inv(g), NEW p \in Operators, DeleteLedger(p), SameNodes, SameDamage
  PROVE  Inv(g)'
<1>1. PICK v : v = view[p]
  OBVIOUS
<1>2. /\ pc[p] = "forget"
      /\ UNCHANGED <<registry, identity, secrets, pods, spec, status, drawn, announced>>
      /\ \/ Stop(p) /\ UNCHANGED ledger
         \/ GoTo(p, "gone", v) /\ (ledger' = ledger \/ ledger' = [ledger EXCEPT ![v.b] = << >>])
  BY <1>1 DEF DeleteLedger
<1>3. CASE Stop(p) /\ UNCHANGED ledger
  <2>1. UNCHANGED <<store, announced>>
    BY <1>2, <1>3 DEF store
  <2> QED
    BY <1>3, <2>1, StopPlaced, Moves DEF Stop
<1>4. CASE GoTo(p, "gone", v) /\ (ledger' = ledger \/ ledger' = [ledger EXCEPT ![v.b] = << >>])
  <2>1. v \in View /\ Placed(g, "forget", v) /\ Seen("forget", v) /\ << >> \in Members
    BY <1>1, <1>2, Holding, Nothing DEF Members
  <2>2. Placed(g, "gone", v) /\ Seen("gone", v)
    BY <2>1, DeletingPlaced DEF Deleting, Placed
  <2>3. ledger' \in [Bindings -> Members] /\ \A b \in Bindings : Listed(g, b, ledger'[b])
    BY <1>4, <2>1, Untouched DEF Listed
  <2> QED
    BY <1>2, <1>4, <2>2, <2>3, Untouched, Writes
<1> QED
  BY <1>2, <1>3, <1>4

LEMMA ClearStatusInv ==
  ASSUME NEW g, Inv(g), NEW p \in Operators, ClearStatus(p), SameNodes, SameDamage
  PROVE  Inv(g)'
<1>1. /\ GoTo(p, "idle", NoView)
      /\ UNCHANGED <<registry, identity, ledger, secrets, pods, spec, drawn, announced>>
      /\ status' = status \/ status' = [status EXCEPT ![view[p].b] = << >>]
  BY DEF ClearStatus, Stop
<1>2. << >> \in Members
  BY Nothing DEF Members
<1>3. status' \in [Bindings -> Members] /\ \A b \in Bindings : Listed(g, b, status'[b])
  BY <1>1, <1>2, Untouched DEF Listed
<1> QED
  BY <1>1, <1>3, StopPlaced, Untouched, Writes

-----------------------------------------------------------------------------
(* The environment *)

\* Passes stay where they are while others act.
LEMMA PassesWait ==
  ASSUME NEW g, Inv(g), SameNodes, UNCHANGED <<pc, view>>, Stored(g)',
         \A k, v : Placed(g, k, v) /\ Seen(k, v) => Seen(k, v)'
  PROVE  Inv(g)'
<1> USE DEF Inv, Passes
<1>1. ASSUME NEW p \in Operators PROVE (Placed(g, pc[p], view[p]) /\ Seen(pc[p], view[p]))'
  <2>1. PICK k, v : k = pc[p] /\ v = view[p]
    OBVIOUS
  <2>2. Placed(g, k, v) /\ Seen(k, v)
    BY <2>1
  <2>3. Placed(g, k, v)'
    BY <2>2, LocalKept DEF Placed
  <2> QED
    BY <2>1, <2>2, <2>3
<1> QED
  BY <1>1

\* Something else than the registry and its identity changes.
LEMMA Around ==
  ASSUME NEW g, Inv(g), SameNodes, SameDamage, UNCHANGED <<registry, identity, drawn, status, announced, pc, view>>,
         spec' \in [Bindings -> SpecType], ledger' \in [Bindings -> Members],
         secrets' \subseteq Secret, pods' \subseteq Pod,
         \A b \in Bindings : Listed(g, b, ledger'[b]),
         (pods = {} => pods' = {}) /\ (secrets = {} => secrets' = {})
  PROVE  Inv(g)'
<1>1. Stored(g)'
  BY Untouched, StoredWritten DEF Inv
<1>2. Shapes /\ Keeps
  BY Untouched DEF Keeps, Inv, Stored
<1>3. \A k, v : Placed(g, k, v) /\ Seen(k, v) => Seen(k, v)'
  BY <1>2, SeenKept DEF Placed
<1> QED
  BY <1>1, <1>3, PassesWait

\* Kubelet, snapshots and crashes touch no claim.
LEMMA EnvironmentInv ==
  ASSUME NEW g, Inv(g), Terminated \/ ChangeSpec \/ Abort
  PROVE  Inv(g)'
<1>1. world \in World /\ \A b \in Bindings : spec[b] \in SpecType
  BY DEF Inv, Stored, Shapes
<1>2. CASE Terminated
  <2>1. pods' \subseteq pods
    BY <1>2 DEF Terminated
  <2>2. SameNodes /\ SameDamage /\ pods' \subseteq Pod
    BY <1>1, <1>2, <2>1, Untouched DEF Terminated, SameNodes, SameDamage
  <2> QED
    BY <1>2, <2>1, <2>2, Untouched, Around DEF Terminated
<1>3. CASE ChangeSpec
  <2>1. world' = [world EXCEPT !.changes = @ - 1] /\ world.changes > 0
    BY <1>3 DEF ChangeSpec
  <2>2. SameNodes
    BY <1>1, <2>1 DEF World, SameNodes
  <2>3. SameDamage
    BY <1>3 DEF ChangeSpec, SameDamage
  <2>4. PICK b \in world.scope, new \in {Apart} \cup {[cross |-> TRUE, peers |-> S] : S \in SUBSET Peers} :
            spec' = [spec EXCEPT ![b] = new]
    BY <1>3 DEF ChangeSpec
  <2>5. new \in SpecType /\ b \in Bindings
    <3>1. world.scope \subseteq Bindings
      BY <1>1 DEF World
    <3>2. Apart \in SpecType /\ \A S \in SUBSET Peers : [cross |-> TRUE, peers |-> S] \in SpecType
      BY DEF Apart, SpecType
    <3> QED
      BY <3>1, <3>2
  <2>6. spec' \in [Bindings -> SpecType]
    BY <2>4, <2>5, Untouched
  <2> QED
    BY <1>3, <2>2, <2>3, <2>6, Untouched, Around DEF ChangeSpec
<1>4. CASE Abort
  <2>1. PICK p \in Operators :
            /\ world.aborts > 0 /\ world' = [world EXCEPT !.aborts = @ - 1]
            /\ hurt' = hurt \cup (IF pc[p] \in {"keys", "forget"} THEN {"deletion"} ELSE {})
            /\ GoTo(p, "idle", NoView) /\ UNCHANGED <<store, announced>>
    BY <1>4 DEF Abort, Stop
  <2>2. SameNodes /\ SameDamage
    BY <1>1, <2>1 DEF World, SameNodes, SameDamage
  <2> QED
    BY <2>1, <2>2, StopPlaced, Moves
<1> QED
  BY <1>2, <1>3, <1>4

\* Objects are destroyed, but never both the registry and its identity.
LEMMA LoseInv ==
  ASSUME NEW g, Inv(g), Lose
  PROVE  Inv(g)'
<1>1. /\ world.damage > 0 /\ world' = [world EXCEPT !.damage = @ - 1]
      /\ UNCHANGED <<pods, spec, status, drawn, pc, view, announced>>
  BY DEF Lose
<1>2. world \in World /\ Shapes /\ Stored(g) /\ Registered(g) /\ Damaged
  BY DEF Inv, Stored, Shapes, Registered
<1>3. SameNodes
  BY <1>1, <1>2 DEF World, SameNodes
<1>4. Nodes' = Nodes
  BY <1>3 DEF SameNodes, Nodes
<1>5. CASE /\ registry.uid # 0 /\ "identity" \notin hurt
           /\ registry' = NoRegistry /\ hurt' = hurt \cup {"damage", "registry"}
           /\ UNCHANGED <<identity, ledger, secrets>>
  <2>1. Shapes'
    BY <1>1, <1>2, <1>3, <1>4, <1>5, NoViewType DEF Shapes, SameNodes
  <2>2. Records(g)' /\ Reported(g)'
    BY <1>1, <1>2, <1>4, <1>5, RecordsKept DEF Stored, Reported
  <2>3. Damaged' /\ UIDs'
    <3>1. NoRegistry.uid = 0 /\ NoRegistry.addr = << >> /\ DOMAIN NoRegistry.port = {}
      BY NoViewType DEF NoRegistry
    <3> QED
      BY <1>1, <1>2, <1>5, <3>1 DEF Registered, Damaged, UIDs, Shapes
  <2>4. Pinned(g)' /\ Kept(g)' /\ Within(registry, g)'
    BY <1>1, <1>2, <1>5, NoViewType DEF Registered, Pinned, Kept, Within
  <2>5. Stored(g)'
    BY <1>2, <2>1, <2>2, <2>3, <2>4 DEF Stored, Registered
  <2>6. \A k, v : Placed(g, k, v) /\ Seen(k, v) => Seen(k, v)'
    BY <1>1, <1>5 DEF Seen
  <2> QED
    BY <1>1, <1>3, <2>5, <2>6, PassesWait
<1>6. CASE /\ identity # 0 /\ "registry" \notin hurt
           /\ identity' = 0 /\ hurt' = hurt \cup {"damage", "identity"}
           /\ UNCHANGED <<registry, ledger, secrets>>
  <2>1. Shapes'
    BY <1>1, <1>2, <1>3, <1>4, <1>6 DEF Shapes, SameNodes
  <2>2. Records(g)' /\ Reported(g)'
    BY <1>1, <1>2, <1>4, <1>6, RecordsKept DEF Stored, Reported
  <2>3. Damaged' /\ UIDs'
    BY <1>1, <1>2, <1>6 DEF Registered, Damaged, UIDs, Shapes
  <2>4. Pinned(g)' /\ Kept(g)' /\ Within(registry, g)'
    BY <1>1, <1>2, <1>6 DEF Registered, Pinned, Kept, Within
  <2>5. Stored(g)'
    BY <1>2, <2>1, <2>2, <2>3, <2>4 DEF Stored, Registered
  <2>6. \A k, v : Placed(g, k, v) /\ Seen(k, v) => Seen(k, v)'
    BY <1>1, <1>6 DEF Seen
  <2> QED
    BY <1>1, <1>3, <2>5, <2>6, PassesWait
<1>7. ASSUME hurt' = hurt \cup {"damage"}, UNCHANGED <<registry, identity>>, secrets' \subseteq secrets,
             ledger' \in [Bindings -> Members], \A b \in Bindings : Listed(g, b, ledger'[b])
      PROVE  Inv(g)'
  <2>1. SameDamage /\ secrets' \subseteq Secret /\ pods' \subseteq Pod /\ spec' \in [Bindings -> SpecType]
    BY <1>1, <1>7, Untouched DEF SameDamage
  <2> QED
    BY <1>1, <1>3, <1>7, <2>1, Around
<1>8. CASE /\ \E b \in Bindings : ledger[b] # << >> /\ ledger' = [ledger EXCEPT ![b] = << >>]
           /\ hurt' = hurt \cup {"damage"} /\ UNCHANGED <<registry, identity, secrets>>
  <2>1. << >> \in Members
    BY Nothing DEF Members
  <2>2. ledger' \in [Bindings -> Members] /\ \A b \in Bindings : Listed(g, b, ledger'[b])
    BY <1>8, <2>1, Untouched DEF Listed
  <2> QED
    BY <1>7, <1>8, <2>2
<1>9. CASE /\ \E s \in secrets : secrets' = secrets \ {s}
           /\ hurt' = hurt \cup {"damage"} /\ UNCHANGED <<registry, identity, ledger>>
  BY <1>7, <1>9, Untouched
<1> QED
  BY <1>5, <1>6, <1>8, <1>9 DEF Lose

-----------------------------------------------------------------------------
(* The inductive invariant *)

\* At the start nothing was granted.
LEMMA InitIInv == RegistryInit => IInv
<1> SUFFICES ASSUME RegistryInit PROVE Inv(NoRegistry)
  BY DEF IInv
<1> USE DEF RegistryInit
<1>1. NoRegistry.addr = << >> /\ << >> \in Members
  BY Nothing DEF NoRegistry, Members
<1>2. Shapes
  <2>1. world \in World /\ world.nodes # {}
    BY RegistryAssumption
  <2>2. spec \in [Bindings -> SpecType]
    BY DEF Joined, Apart, SpecType
  <2> QED
    BY <1>1, <2>1, <2>2, NoViewType DEF Shapes, Nodes
<1>3. Grants(NoRegistry)
  BY NoViewType DEF Grants
<1>4. Records(NoRegistry) /\ Reported(NoRegistry)
  BY DEF Records, Listed, Reported
<1>5. Registered(NoRegistry)
  BY <1>1, NoViewType DEF Registered, Damaged, UIDs, Pinned, Kept, Within
<1>6. Placed(NoRegistry, "idle", NoView) /\ Seen("idle", NoView)
  <2>1. Local("idle", NoView)
    BY NoViewType, Nothing DEF Local, Asking, Deleting
  <2>2. Within(NoView.reg, NoRegistry) /\ Holds(NoRegistry, NoView.b, NoView.mem)
    BY NoViewType, Nothing DEF Within, Holds
  <2> QED
    BY <2>1, <2>2, NoViewType DEF Placed, Seen, Labels
<1>7. Passes(NoRegistry)
  BY <1>6, NoViewType DEF Passes, Labels
<1> QED
  BY <1>2, <1>3, <1>4, <1>5, <1>7 DEF Inv, Stored

\* A step of a pass changes neither the selected nodes nor what was destroyed.
LEMMA RunPassKeeps ==
  ASSUME Shapes, NEW p \in Operators, RunPass(p)
  PROVE  SameNodes /\ SameDamage
  BY DEF RunPass, Shapes, SameNodes, SameDamage

\* Every step of every operator keeps the invariant, for grants that only grow.
LEMMA PassStepInv ==
  ASSUME NEW g, Inv(g), NEW p \in Operators, PassStep(p), SameNodes, SameDamage
  PROVE  \E h : Inv(h)'
<1>1. CASE Allocate(p)
  BY <1>1, AllocateInv
<1>2. CASE \E b \in Bindings : BeginPass(p, b)
  BY <1>2, BeginPassInv
<1>3. CASE List(p) \/ GetIdentity(p) \/ GetRegistry(p) \/ CreateRegistry(p) \/ CreateIdentity(p)
  BY <1>3, ListInv, GetIdentityInv, GetRegistryInv, CreateRegistryInv, CreateIdentityInv
<1>4. CASE GetLedger(p) \/ ListResources(p) \/ DraftMember(p) \/ CreateLedger(p)
  BY <1>4, GetLedgerInv, ListResourcesInv, DraftMemberInv, CreateLedgerInv
<1>5. CASE EnsureKey(p) \/ LinkClaims(p) \/ SaveLedger(p) \/ CreatePods(p) \/ Report(p)
  BY <1>5, EnsureKeyInv, LinkClaimsInv, SaveLedgerInv, CreatePodsInv, ReportInv
<1>6. CASE DeletePods(p) \/ DeleteKey(p) \/ Recheck(p) \/ DeleteLedger(p) \/ ClearStatus(p)
  BY <1>6, DeletePodsInv, DeleteKeyInv, RecheckInv, DeleteLedgerInv, ClearStatusInv
<1> QED
  BY <1>1, <1>2, <1>3, <1>4, <1>5, <1>6 DEF PassStep

LEMMA NextIInv == IInv /\ [RegistryNext]_registryVars => IInv'
<1> SUFFICES ASSUME IInv, [RegistryNext]_registryVars PROVE \E h : Inv(h)'
  BY DEF IInv
<1>1. PICK g : Inv(g)
  BY DEF IInv
<1>2. ASSUME NEW p \in Operators, RunPass(p) PROVE \E h : Inv(h)'
  <2>1. SameNodes /\ SameDamage /\ PassStep(p)
    BY <1>1, <1>2, RunPassKeeps DEF Inv, Stored, RunPass
  <2> QED
    BY <1>1, <2>1, PassStepInv
<1>3. CASE Terminated \/ ChangeSpec \/ Abort
  BY <1>1, <1>3, EnvironmentInv
<1>4. CASE Lose
  BY <1>1, <1>4, LoseInv
<1>5. CASE UNCHANGED registryVars
  <2>1. SameNodes /\ SameDamage
    BY <1>1, <1>5 DEF registryVars, SameNodes, SameDamage, Inv, Stored, Shapes
  <2>2. Inv(g)'
    BY <1>1, <1>5, <2>1, Untouched, Around DEF registryVars, store
  <2> QED
    BY <2>2
<1> QED
  BY <1>2, <1>3, <1>4, <1>5 DEF RegistryNext

\* IInv holds in every reachable state.
LEMMA Invariant == RegistrySpec => []IInv
  BY InitIInv, NextIInv, PTL DEF RegistrySpec

(***************************************************************************)
(* allocate, Delete: an address or a port of a node that was ever          *)
(* announced for a member or a link is never announced for another one.    *)
(***************************************************************************)
THEOREM AnnouncedOnce == RegistrySpec => []Exclusive
<1>1. IInv => Exclusive
  <2> SUFFICES ASSUME NEW g, Inv(g), NEW r \in announced, NEW s \in announced
               PROVE  IF r.claim = s.claim THEN r.ip = s.ip /\ r.port = s.port
                      ELSE /\ r.ip # s.ip
                           /\ r.port # 0 /\ r.claim.node = s.claim.node => r.port # s.port
    BY DEF IInv, Exclusive
  <2>1. Grants(g) /\ Reported(g)
    BY DEF Inv, Stored
  <2>2. \A x \in {r, s} : Retains(g, x) /\ (x.port = 0 <=> x.claim.peer = Health)
    BY <2>1 DEF Reported
  <2> QED
    BY <2>1, <2>2 DEF Retains, Grants
<1> QED
  BY <1>1, Invariant, PTL

(***************************************************************************)
(* The shape of every object: claims of the pools only, a port only for a  *)
(* link with an address, complete ledgers, reports with a key.             *)
(***************************************************************************)
THEOREM RegistryTyped == RegistrySpec => []RegistryTypeOK
<1>1. IInv => RegistryTypeOK
  <2> SUFFICES ASSUME NEW g, Inv(g) PROVE RegistryTypeOK
    BY DEF IInv
  <2>1. /\ Shapes /\ Grants(g) /\ Records(g) /\ Reported(g) /\ UIDs /\ g \in Reg
        /\ registry \in Reg /\ registry.uid \in Nat /\ identity \in Nat /\ drawn \in Nat
    BY DEF Inv, Stored, Registered, Shapes, Reg, Grants
  <2>2. registry.uid \in 0..drawn /\ identity \in 0..drawn
    BY <2>1 DEF UIDs
  <2>3. \A c \in DOMAIN registry.addr : c.b \in Bindings /\ registry.addr[c] \in Addresses
    <3>1. registry.addr \in Partial(ClaimType, Addresses)
      BY <2>1 DEF Reg
    <3>2. DOMAIN registry.addr \subseteq ClaimType /\ \A c \in DOMAIN registry.addr : registry.addr[c] \in Addresses
      BY <3>1, PartialElim
    <3>3. \A c \in ClaimType : c.b \in Bindings
      BY DEF ClaimType
    <3> QED
      BY <3>2, <3>3
  <2>4. \A c \in DOMAIN registry.port : c \in DOMAIN registry.addr /\ registry.port[c] \in Ports
    <3>1. registry.port \in Partial(ClaimType, Ports)
      BY <2>1 DEF Reg
    <3> QED
      BY <2>1, <3>1, PartialElim DEF UIDs
  <2>5. \A b \in Bindings : ledger[b] = << >> \/ DOMAIN ledger[b] = Nodes
    BY <2>1 DEF Records, Listed, Whole
  <2>6. \A r \in announced : r.key # 0 /\ r.ip \in Addresses
    <3>1. g.addr \in Partial(ClaimType, Addresses)
      BY <2>1 DEF Reg
    <3>2. \A c \in DOMAIN g.addr : g.addr[c] \in Addresses
      BY <3>1, PartialElim
    <3> QED
      BY <2>1, <3>2 DEF Reported, Retains
  <2>7. \A p \in Operators : view[p].b \in Bindings /\ view[p].keyed \subseteq Nodes
    BY Holding DEF Placed, Local
  <2> QED
    BY <2>2, <2>3, <2>4, <2>5, <2>6, <2>7 DEF RegistryTypeOK
<1> QED
  BY <1>1, Invariant, PTL

\* Without damage the identity pins the registry before there is anything else,
\* and what members hold is registered.
RegistryIntact ==
    /\ identity \in {0, registry.uid}
    /\ identity = 0 => /\ registry.addr = << >> /\ pods = {} /\ secrets = {}
                       /\ \A b \in Bindings : ledger[b] = << >> /\ status[b] = << >>
    /\ \A r \in LedgerReceipts \cup StatusReceipts : Retains(registry, r)

LEMMA Intact ==
  ASSUME NEW g, Inv(g), "damage" \notin hurt
  PROVE  RegistryIntact
<1>1. "registry" \notin hurt /\ "identity" \notin hurt
  BY DEF Inv, Stored, Registered, Damaged
<1>2. /\ identity \in {0, registry.uid} /\ Within(g, registry)
      /\ identity = 0 => DOMAIN g.addr = {} /\ pods = {} /\ secrets = {}
  BY <1>1 DEF Inv, Stored, Registered, Pinned, Kept
<1>3. \A b \in Bindings : /\ Listed(g, b, ledger[b]) /\ Listed(g, b, status[b])
                          /\ ledger[b] \in Members /\ status[b] \in Members
  BY DEF Inv, Stored, Records, Shapes
<1>4. ASSUME identity = 0 PROVE \A b \in Bindings : ledger[b] = << >> /\ status[b] = << >>
  <2>1. ASSUME NEW b \in Bindings, NEW m, Whole(m), Holds(g, b, m) PROVE FALSE
    <3>1. PICK n \in Nodes : TRUE
      BY DEF Inv, Stored, Shapes
    <3>2. n \in DOMAIN m /\ m[n].health # 0 /\ HoldsHealth(g, b, n, m[n])
      BY <2>1 DEF Whole, Holds
    <3> QED
      BY <1>2, <1>4, <3>2 DEF HoldsHealth, HasAddr
  <2> QED
    BY <1>3, <2>1 DEF Listed
<1>5. identity = 0 => registry.addr = << >>
  <2>1. Within(registry, g) /\ UIDs
    BY DEF Inv, Stored, Registered
  <2> QED
    BY <1>2, <2>1 DEF Within, HasAddr, UIDs
<1>6. \A r \in LedgerReceipts \cup StatusReceipts : Retains(registry, r)
  <2> SUFFICES ASSUME NEW b \in Bindings, NEW m \in {ledger[b], status[b]}, NEW r \in Receipts(b, m)
               PROVE  Retains(registry, r)
    BY DEF LedgerReceipts, StatusReceipts
  <2>1. m \in Members /\ Listed(g, b, m)
    BY <1>3
  <2>2. m # << >>
    <3>1. m = << >> => Receipts(b, m) = {}
      BY Nothing DEF Receipts
    <3> QED
      BY <3>1
  <2>3. Retains(g, r)
    BY <2>1, <2>2, HeldRetained DEF Listed
  <2> QED
    BY <1>2, <2>3 DEF Within, HasAddr, HasPort, Retains
<1> QED
  BY <1>2, <1>4, <1>5, <1>6 DEF RegistryIntact

-----------------------------------------------------------------------------
(* Steps that carry a copy along *)

\* A single process finds nobody beside it (cmd/platform-vpc-controller/main.go:81).
LEMMA AloneSolo ==
  ASSUME Alone, NEW p \in Operators, pc[p] # "idle" \/ \E b \in Bindings : BeginPass(p, b), world \in World
  PROVE  Solo(p)
<1>1. CASE pc[p] # "idle"
  BY <1>1 DEF Alone, Solo
<1>2. ASSUME NEW b \in Bindings, BeginPass(p, b), world.procs <= 1 PROVE \A q \in Operators : pc[q] = "idle"
  <2> DEFINE busy == {q \in Operators : pc[q] # "idle"}
  <2>1. IsFiniteSet(busy)
    BY RegistryAssumption, FS_Subset
  <2>2. Cardinality(busy) \in Nat /\ Cardinality(busy) < world.procs /\ world.procs \in Nat
    BY <1>2, <2>1, FS_CardinalityType DEF BeginPass, World
  <2>3. Cardinality(busy) = 0
    BY <1>2, <2>2
  <2>4. busy = {}
    BY <2>1, <2>3, FS_EmptySet
  <2> QED
    BY <2>4
<1> QED
  BY <1>1, <1>2 DEF Solo

\* Pods and keys are as they were.
LEMMA SameResources ==
  ASSUME UNCHANGED <<pods, secrets>>
  PROVE  \A b : Resources(b)' = Resources(b)
  BY DEF Resources

\* A pass that stops drops its copy.
LEMMA StopFollows ==
  ASSUME NEW l, NEW v
  PROVE  Follows(l, v, "idle", NoView)
  BY NoViewType, Nothing DEF Follows, Removing, Recorded, Asking

\* From question to question a pass carries its copy along.
LEMMA AskFollows ==
  ASSUME NEW l \in Asking, NEW v, NEW k \in Asking, NEW w, w.mem = v.mem, w.b = v.b, w.goal = v.goal
  PROVE  Follows(l, v, k, w)
<1>1. Drafts(w) = Drafts(v)
  BY DEF Drafts
<1> QED
  BY <1>1 DEF Follows, Alike, Removing, Making, Recorded, Asking

LEMMA ExamineFollows ==
  ASSUME NEW p \in Operators, NEW l \in Asking, NEW u, NEW v \in View,
         v.mem = u.mem, v.b = u.b, v.goal = u.goal, Examine(p, v)
  PROVE  \E k, w : GoTo(p, k, w) /\ Follows(l, u, k, w)
<1>1. CASE Diagnosis(v, v.reg) = "anchor"
  BY <1>1, AskFollows DEF Examine, Asking
<1>2. CASE Diagnosis(v, v.reg) = "ok"
  <2>1. PICK k, w : k = (IF v.goal = "validate" THEN "ledger" ELSE "claim") /\ w = Returned(v)
    OBVIOUS
  <2>2. GoTo(p, k, w)
    BY <1>2, <2>1 DEF Examine, Resume
  <2>3. w.mem = v.mem /\ w.b = v.b /\ w.goal = v.goal
    BY <2>1 DEF Returned, View
  <2>4. CASE k = "claim"
    BY <2>2, <2>3, <2>4, AskFollows DEF Asking
  <2>5. CASE k = "ledger"
    BY <2>2, <2>3, <2>5 DEF Follows, Alike, Removing, Making, Recorded, Asking
  <2> QED
    BY <2>1, <2>4, <2>5
<1>3. CASE Diagnosis(v, v.reg) \notin {"anchor", "ok"}
  BY <1>3, StopFollows DEF Examine, Stop
<1> QED
  BY <1>1, <1>2, <1>3

LEMMA ConflictFollows ==
  ASSUME NEW p \in Operators, NEW l \in Asking, NEW u, NEW v \in View,
         v.mem = u.mem, v.b = u.b, v.goal = u.goal, Conflict(p, v)
  PROVE  \E k, w : GoTo(p, k, w) /\ Follows(l, u, k, w)
<1>1. CASE v.tries + 1 < Steps
  <2>1. PICK w : w = [v EXCEPT !.tries = @ + 1]
    OBVIOUS
  <2>2. GoTo(p, "list", w) /\ w.mem = u.mem /\ w.b = u.b /\ w.goal = u.goal
    BY <1>1, <2>1 DEF Conflict, View
  <2> QED
    BY <2>2, AskFollows DEF Asking
<1>2. CASE ~(v.tries + 1 < Steps)
  BY <1>2, StopFollows DEF Conflict, Stop
<1> QED
  BY <1>1, <1>2

\* A claim changes neither identity nor key of a member.
LEMMA FilledFollows ==
  ASSUME Shapes, NEW v \in View, Local("claim", v), NEW r, NEW t, t = Target(v),
         NEW back, back = IF t.claim.peer = Health THEN "draft" ELSE "work",
         NEW w, w = Given(v, t, r)
  PROVE  Follows("claim", v, back, w)
<1>0. (OneDraft(v) \/ Linking(v)) /\ v.goal = "claim"
  BY DEF Local, Asking, View
<1>1. PICK n \in DOMAIN v.mem, q \in Peers \cup {Health} :
            /\ t = [claim |-> Claim(v.b, n, v.mem[n].id, q), port |-> q \in DOMAIN v.mem[n].links]
            /\ q # Health => Linking(v)
  BY <1>0, TargetFacts
<1>2. t.claim.node = n /\ t.claim.peer = q
  BY <1>1 DEF Claim
<1>3. PICK y : /\ Filled(v, t, r) = [v EXCEPT !.mem[n] = y]
               /\ y.id = v.mem[n].id /\ y.key = v.mem[n].key
  <2>1. v.mem[n] \in Member
    BY MemberFacts DEF View
  <2> DEFINE y1 == [v.mem[n] EXCEPT !.health = r.addr[t.claim]]
             y2 == [v.mem[n] EXCEPT !.links[q].port = r.port[t.claim]]
             y3 == [v.mem[n] EXCEPT !.links = Put(@, q, [ip |-> r.addr[t.claim], port |-> 0])]
  <2>2. \A y \in {y1, y2, y3} : y.id = v.mem[n].id /\ y.key = v.mem[n].key
    BY <2>1 DEF Member
  <2>3. \E y \in {y1, y2, y3} : Filled(v, t, r) = [v EXCEPT !.mem[n] = y]
    BY <1>2 DEF Filled
  <2> HIDE DEF y1, y2, y3
  <2> QED
    BY <2>2, <2>3
<1>4. PICK m : m = [v.mem EXCEPT ![n] = y]
  OBVIOUS
<1>5. DOMAIN m = DOMAIN v.mem /\ m[n] = y /\ \A k \in DOMAIN m : k # n => m[k] = v.mem[k]
  BY <1>4
<1>6. w = [[v EXCEPT !.mem = m] EXCEPT !.reg = NoRegistry, !.tries = 0]
  BY <1>3, <1>4 DEF Given
<1>7. w.mem = m /\ w.b = v.b
  BY <1>6 DEF View
<1>8. Alike(w.mem, v.mem)
  BY <1>3, <1>5, <1>7 DEF Alike
<1>9. back = "work" => Recorded("claim", v)
  BY <1>0, <1>1, <1>2 DEF Recorded, Asking, Linking, Tidy
<1>10. back \in {"draft", "work"}
  OBVIOUS
<1> QED
  BY <1>7, <1>8, <1>9, <1>10 DEF Follows, Removing, Making, Recorded, Asking

LEMMA QuietMove ==
  ASSUME NEW p \in Operators, ~Removing(pc[p]), UNCHANGED <<ledger, secrets, pods, announced>>,
         drawn' \in Nat, drawn <= drawn', NEW l, NEW w, GoTo(p, l, w), Follows(pc[p], view[p], l, w)
  PROVE  Quiet(p)
  BY SameResources DEF Quiet

\* What a list adds to a copy, and where the pass goes on (registry.go:104-167).
LEMMA Listing ==
  ASSUME NEW p \in Operators, List(p), view[p] \in View
  PROVE  \E k, w :
            /\ k \in Asking /\ GoTo(p, k, w) /\ w.mem = view[p].mem /\ w.b = view[p].b /\ w.goal = view[p].goal
            /\ w.spec = view[p].spec /\ w.status = view[p].status /\ k \notin {"registry", "resources"}
            /\ w.evidence => \/ view[p].evidence \/ view[p].status # << >> \/ pods # {} \/ secrets # {}
                             \/ \E b \in Bindings : ledger[b] # << >> \/ status[b] # << >>
            /\ w.receipts \subseteq view[p].receipts \cup LedgerReceipts \cup StatusReceipts
                                    \cup Receipts(view[p].b, view[p].status)
<1> DEFINE v == view[p]
           More(e) == e => \/ v.status # << >> \/ pods # {} \/ secrets # {}
                           \/ \E b \in Bindings : ledger[b] # << >> \/ status[b] # << >>
           Some(r) == r \subseteq LedgerReceipts \cup StatusReceipts \cup Receipts(v.b, v.status)
<1>1. \E k, e, r : k \in Asking /\ e \in BOOLEAN /\ Lists(p, k, e, r) /\ k \notin {"registry", "resources"} /\ More(e) /\ Some(r)
  <2>1. CASE ListLedgers(p)
    <3>1. PICK e \in BOOLEAN : e = (\E b \in Bindings : ledger[b] # << >>)
      OBVIOUS
    <3>2. Lists(p, "listBindings", e, LedgerReceipts)
      BY <2>1, <3>1 DEF ListLedgers
    <3>3. More(e) /\ Some(LedgerReceipts)
      BY <3>1
    <3> QED
      BY <3>2, <3>3 DEF Asking
  <2>2. CASE ListBindings(p)
    <3>1. PICK own : own = IF v.goal = "validate" THEN v.status ELSE << >>
      OBVIOUS
    <3>2. PICK e \in BOOLEAN : e = (own # << >> \/ \E b \in Bindings : status[b] # << >>)
      OBVIOUS
    <3>3. Lists(p, "listPods", e, StatusReceipts \cup Receipts(v.b, own))
      BY <2>2, <3>1, <3>2 DEF ListBindings
    <3>4. More(e)
      BY <3>1, <3>2
    <3>5. Receipts(v.b, << >>) = {}
      BY Nothing DEF Receipts
    <3>6. Some(StatusReceipts \cup Receipts(v.b, own))
      BY <3>1, <3>5
    <3> QED
      BY <3>3, <3>4, <3>6 DEF Asking
  <2>3. CASE ListGatewayPods(p)
    <3>1. PICK e \in BOOLEAN : e = (pods # {})
      OBVIOUS
    <3>2. Lists(p, "listKeys", e, {}) /\ More(e) /\ Some({})
      BY <2>3, <3>1 DEF ListGatewayPods
    <3> QED
      BY <3>2 DEF Asking
  <2>4. CASE ListKeys(p)
    <3>1. PICK e \in BOOLEAN : e = (secrets # {})
      OBVIOUS
    <3>2. Lists(p, "identity", e, {}) /\ More(e) /\ Some({})
      BY <2>4, <3>1 DEF ListKeys
    <3> QED
      BY <3>2 DEF Asking
  <2> QED
    BY <2>1, <2>2, <2>3, <2>4 DEF List
<1>2. PICK k, e, r : k \in Asking /\ e \in BOOLEAN /\ Lists(p, k, e, r) /\ k \notin {"registry", "resources"} /\ More(e) /\ Some(r)
  BY <1>1
<1>3. PICK w : w = [v EXCEPT !.evidence = @ \/ e, !.receipts = @ \cup r]
  OBVIOUS
<1>4. GoTo(p, k, w)
  BY <1>2, <1>3 DEF Lists
<1>5. /\ w.mem = v.mem /\ w.b = v.b /\ w.goal = v.goal /\ w.spec = v.spec /\ w.status = v.status
      /\ w.evidence = (v.evidence \/ e) /\ w.receipts = v.receipts \cup r
  BY <1>3 DEF View
<1> QED
  BY <1>2, <1>4, <1>5

\* Reading, claiming and reporting nothing carries the copy along.
LEMMA QuietAsking ==
  ASSUME NEW g, Inv(g), NEW p \in Operators,
         List(p) \/ GetIdentity(p) \/ GetRegistry(p) \/ CreateRegistry(p) \/ CreateIdentity(p) \/ Allocate(p)
  PROVE  Quiet(p)
<1> DEFINE v == view[p]
<1>1. /\ UNCHANGED <<ledger, secrets, pods, announced>> /\ drawn \in Nat
      /\ drawn' = drawn \/ drawn' = drawn + 1
  BY Untouched DEF List, ListLedgers, ListBindings, ListGatewayPods, ListKeys, Lists, GetIdentity, GetRegistry, CreateRegistry, CreateIdentity, Allocate, store
<1>2. drawn' \in Nat /\ drawn <= drawn'
  BY <1>1
<1>3. pc[p] \in Asking /\ ~Removing(pc[p])
  BY DEF List, ListLedgers, ListBindings, ListGatewayPods, ListKeys, Lists, GetIdentity, GetRegistry, CreateRegistry, CreateIdentity, Allocate, Asking, Removing
<1>4. v \in View
  BY Holding
<1>5. \E k, w : GoTo(p, k, w) /\ Follows(pc[p], v, k, w)
  <2>1. CASE List(p)
    <3>1. PICK k, w : k \in Asking /\ GoTo(p, k, w) /\ w.mem = v.mem /\ w.b = v.b /\ w.goal = v.goal
      BY <1>4, <2>1, Listing
    <3> QED
      BY <1>3, <3>1, AskFollows
  <2>2. CASE GetIdentity(p)
    <3>1. PICK w : /\ GoTo(p, "registry", w) /\ w.mem = v.mem /\ w.b = v.b /\ w.goal = v.goal
      BY <1>4, <2>2 DEF GetIdentity, View
    <3> QED
      BY <1>3, <3>1, AskFollows DEF Asking
  <2>3. ASSUME NEW r \in Reg, Examine(p, [v EXCEPT !.reg = r]) PROVE \E k, w : GoTo(p, k, w) /\ Follows(pc[p], v, k, w)
    <3>1. PICK u : u = [v EXCEPT !.reg = r]
      OBVIOUS
    <3>2. u \in View /\ u.mem = v.mem /\ u.b = v.b /\ u.goal = v.goal
      BY <1>4, <2>3, <3>1 DEF View
    <3>3. Examine(p, u)
      BY <2>3, <3>1
    <3> QED
      BY <1>3, <3>2, <3>3, ExamineFollows
  <2>4. ASSUME Resume(p, v) PROVE \E k, w : GoTo(p, k, w) /\ Follows(pc[p], v, k, w)
    <3>1. PICK k, w : k = (IF v.goal = "validate" THEN "ledger" ELSE "claim") /\ w = Returned(v)
      OBVIOUS
    <3>2. GoTo(p, k, w) /\ w.mem = v.mem /\ w.b = v.b /\ w.goal = v.goal
      BY <1>4, <2>4, <3>1 DEF Resume, Returned, View
    <3>3. CASE k = "claim"
      BY <1>3, <3>2, <3>3, AskFollows DEF Asking
    <3>4. CASE k = "ledger"
      BY <3>2, <3>4 DEF Follows, Alike, Removing, Making, Recorded, Asking
    <3> QED
      BY <3>1, <3>3, <3>4
  <2>5. CASE GetRegistry(p)
    <3>1. registry \in Reg
      BY DEF Inv, Stored, Shapes
    <3>2. \/ Examine(p, [v EXCEPT !.reg = registry]) \/ Stop(p) \/ Resume(p, v) \/ GoTo(p, "create", v)
      BY <2>5 DEF GetRegistry
    <3>3. Stop(p) => \E k, w : GoTo(p, k, w) /\ Follows(pc[p], v, k, w)
      BY StopFollows DEF Stop
    <3>4. GoTo(p, "create", v) => \E k, w : GoTo(p, k, w) /\ Follows(pc[p], v, k, w)
      BY <1>3, AskFollows DEF Asking
    <3> QED
      BY <2>3, <2>4, <3>1, <3>2, <3>3, <3>4
  <2>6. CASE CreateRegistry(p)
    <3>1. PICK r : r = [NoRegistry EXCEPT !.uid = drawn + 1]
      OBVIOUS
    <3>2. r \in Reg
      BY <1>1, <3>1, NoViewType DEF Reg
    <3>3. Examine(p, [v EXCEPT !.reg = r]) \/ Conflict(p, v)
      BY <2>6, <3>1 DEF CreateRegistry
    <3>4. Conflict(p, v) => \E k, w : GoTo(p, k, w) /\ Follows(pc[p], v, k, w)
      BY <1>3, <1>4, ConflictFollows
    <3> QED
      BY <2>3, <3>2, <3>3, <3>4
  <2>7. CASE CreateIdentity(p)
    <3>1. Resume(p, v) \/ Stop(p) \/ Conflict(p, v)
      BY <2>7 DEF CreateIdentity
    <3>2. Stop(p) => \E k, w : GoTo(p, k, w) /\ Follows(pc[p], v, k, w)
      BY StopFollows DEF Stop
    <3>3. Conflict(p, v) => \E k, w : GoTo(p, k, w) /\ Follows(pc[p], v, k, w)
      BY <1>3, <1>4, ConflictFollows
    <3> QED
      BY <2>4, <3>1, <3>2, <3>3
  <2>8. CASE Allocate(p)
    <3>1. PICK t, r, back, w : /\ t = Target(v) /\ r = Extended(v.reg, t) /\ w = Given(v, t, r)
                               /\ back = IF t.claim.peer = Health THEN "draft" ELSE "work"
      OBVIOUS
    <3>2. Stop(p) \/ GoTo(p, back, w) \/ Conflict(p, [v EXCEPT !.reg = NoRegistry])
      BY <2>8, <3>1, Zenon DEF Allocate, Given
    <3>3. Follows("claim", v, back, w)
      <4>1. Local("claim", v) /\ Shapes
        BY <2>8, Holding DEF Allocate, Placed, Inv, Stored
      <4> HIDE DEF v
      <4> QED
        BY <1>4, <3>1, <4>1, FilledFollows
    <3>4. ASSUME Conflict(p, [v EXCEPT !.reg = NoRegistry])
          PROVE  \E k, u : GoTo(p, k, u) /\ Follows(pc[p], v, k, u)
      <4>1. PICK u : u = [v EXCEPT !.reg = NoRegistry]
        OBVIOUS
      <4>2. u \in View /\ u.mem = v.mem /\ u.b = v.b /\ u.goal = v.goal
        BY <1>4, <4>1, NoViewType DEF View
      <4> QED
        BY <1>3, <3>4, <4>1, <4>2, ConflictFollows
    <3>5. Stop(p) => \E k, u : GoTo(p, k, u) /\ Follows(pc[p], v, k, u)
      BY StopFollows DEF Stop
    <3>6. pc[p] = "claim"
      BY <2>8 DEF Allocate
    <3> QED
      BY <3>2, <3>3, <3>4, <3>5, <3>6
  <2> QED
    BY <2>1, <2>2, <2>5, <2>6, <2>7, <2>8
<1> QED
  BY <1>1, <1>2, <1>3, <1>5, QuietMove

\* A pass that begins, ends or finds no ledger has an empty copy.
LEMMA QuietEmpty ==
  ASSUME NEW g, Inv(g), NEW p \in Operators,
         (\E b \in Bindings : BeginPass(p, b)) \/ ListResources(p) \/ LinkClaims(p) \/ ClearStatus(p)
  PROVE  Quiet(p)
<1> DEFINE v == view[p]
<1>1. /\ UNCHANGED <<ledger, secrets, pods>> /\ drawn' \in Nat /\ drawn <= drawn' /\ announced' = announced
      /\ ~Removing(pc[p])
  BY Untouched DEF BeginPass, ListResources, LinkClaims, ClearStatus, store, Removing
<1>2. v \in View
  BY Holding
<1>3. \E k, w : GoTo(p, k, w) /\ Follows(pc[p], v, k, w)
  <2>1. ASSUME NEW b \in Bindings, BeginPass(p, b) PROVE \E k, w : GoTo(p, k, w) /\ Follows(pc[p], v, k, w)
    <3>1. PICK k, w :
              k \in {"delete", "list"} /\ GoTo(p, k, w) /\ w = [NoView EXCEPT !.b = b, !.spec = spec[b], !.status = status[b]]
      BY <2>1 DEF BeginPass
    <3>2. k \in {"delete", "list"} /\ DOMAIN w.mem = {} /\ w.goal = "validate"
      BY <3>1, NoViewType, Nothing DEF View
    <3>3. Follows(pc[p], v, k, w)
      BY <3>2 DEF Follows, Removing, Recorded, Asking
    <3> QED
      BY <3>1, <3>3
  <2>2. CASE ListResources(p)
    <3>1. DOMAIN v.mem = {}
      BY <2>2, Holding DEF ListResources, Placed, Local
    <3>2. PICK w : w = [v EXCEPT !.goal = "claim"]
      OBVIOUS
    <3>3. w.mem = v.mem
      BY <1>2, <3>2 DEF View
    <3>4. Follows(pc[p], v, "draft", w)
      BY <3>1, <3>3 DEF Follows, Removing, Recorded, Asking
    <3>5. GoTo(p, "draft", w) \/ Stop(p)
      BY <2>2, <3>2 DEF ListResources
    <3> QED
      BY <3>4, <3>5, StopFollows DEF Stop
  <2>3. CASE LinkClaims(p)
    <3>1. PICK w : w = [v EXCEPT !.goal = "claim"]
      OBVIOUS
    <3>2. w.mem = v.mem /\ w.b = v.b
      BY <1>2, <3>1 DEF View
    <3>3. GoTo(p, "list", w) /\ pc[p] = "work"
      BY <2>3, <3>1 DEF LinkClaims
    <3> QED
      BY <3>2, <3>3 DEF Follows, Alike, Removing, Making, Recorded, Asking
  <2>4. CASE ClearStatus(p)
    BY <2>4, StopFollows DEF ClearStatus, Stop
  <2> QED
    BY <2>1, <2>2, <2>3, <2>4
<1> QED
  BY <1>1, <1>3, QuietMove

\* Pods appear beside a recorded ledger only.
LEMMA QuietPods ==
  ASSUME NEW g, Inv(g), NEW p \in Operators, CreatePods(p)
  PROVE  Quiet(p)
<1>1. PICK v : v = view[p]
  OBVIOUS
<1>2. pc[p] = "pods" /\ GoTo(p, "report", v) /\ UNCHANGED <<ledger, secrets, announced, drawn>>
  BY <1>1 DEF CreatePods
<1>3. \A x \in pods' : x \in pods \/ x.b = v.b
  BY <1>1 DEF CreatePods
<1>4. \A b \in Bindings : b # v.b => Resources(b)' \subseteq Resources(b)
  BY <1>2, <1>3 DEF Resources
<1>5. Recorded(pc[p], v) /\ ~Removing(pc[p])
  BY <1>2 DEF Recorded, Removing
<1>6. Follows(pc[p], v, "report", v)
  BY <1>2 DEF Follows, Alike, Removing, Making, Recorded
<1> QED
  BY <1>1, <1>2, <1>4, <1>5, <1>6, Untouched DEF Quiet

-----------------------------------------------------------------------------
(* Members and keys *)

\* Who acts alone and removes nothing, has nobody remove keys beside it.
LEMMA NobodyErases ==
  ASSUME NEW p \in Operators, Solo(p), ~Removing(pc[p])
  PROVE  \A b : ~Erasing(b)
  BY DEF Erasing, Solo, Removing

\* A step that only adds to keys and ledgers leaves no key missing.
LEMMA Built ==
  ASSUME NEW g, Inv(g), NEW p \in Operators, Solo(p), MBody, world'.procs = world.procs, ~Removing(pc[p]),
         NEW l, NEW w, GoTo(p, l, w), ~Removing(l), secrets \subseteq secrets',
         \A b \in Bindings : ledger[b] # << >> => ledger'[b] # << >>,
         \A b \in Bindings : ledger'[b] = ledger[b] \/ Keyed(secrets', b, ledger'[b]),
         \A b \in Bindings : Resources(b)' = {} \/ Resources(b) # {} \/ ledger[b] # << >>,
         Backed(secrets', ledger', l, w)
  PROVE  MBody'
<1>1. pc \in [Operators -> Labels] /\ view \in [Operators -> View]
  BY DEF Inv, Passes
<1>2. /\ pc'[p] = l /\ view'[p] = w
      /\ \A q \in Operators : q # p => pc'[q] = pc[q] /\ view'[q] = view[q]
  BY <1>1 DEF GoTo
<1>3. \A b \in Bindings : ledger'[b] = << >> => Resources(b)' = {}
  BY DEF MBody
<1>4. \A b, m : Keyed(secrets, b, m) => Keyed(secrets', b, m)
  BY DEF Keyed
<1>5. \A b \in Bindings : Keyed(secrets', b, ledger'[b])
  BY <1>4, NobodyErases DEF MBody
<1>6. ASSUME NEW q \in Operators PROVE Backed(secrets', ledger', pc'[q], view'[q])
  <2>1. CASE q # p
    <3>1. Backed(secrets, ledger, pc[q], view[q]) /\ view[q].b \in Bindings
      BY Holding DEF MBody
    <3> QED
      BY <1>2, <1>4, <2>1, <3>1 DEF Backed
  <2> QED
    BY <1>2, <2>1
<1>7. world'.procs <= 1 => \A q \in Operators : ~Removing(pc'[q])
  BY <1>2 DEF Solo, Removing
<1> QED
  BY <1>3, <1>5, <1>6, <1>7 DEF MBody, Inventory, Removing

\* A pass that carries its copy along neither finds nor leaves a key missing.
LEMMA QuietMembers ==
  ASSUME NEW g, Inv(g), NEW p \in Operators, Quiet(p), Solo(p), MBody, world'.procs = world.procs
  PROVE  MBody'
<1>1. PICK l, w : GoTo(p, l, w) /\ Follows(pc[p], view[p], l, w)
  BY DEF Quiet
<1>2. UNCHANGED <<ledger, secrets>> /\ ~Removing(pc[p]) /\ ~Removing(l)
  BY <1>1 DEF Quiet, Follows
<1>3. Backed(secrets, ledger, pc[p], view[p])
  BY DEF MBody
<1>4. Backed(secrets', ledger', l, w)
  <2>1. CASE DOMAIN w.mem = {} /\ ~Recorded(l, w)
    BY <1>2, <2>1 DEF Backed, Keyed
  <2>2. CASE /\ Alike(w.mem, view[p].mem) /\ w.b = view[p].b
             /\ Making(l) => Making(pc[p])
             /\ Recorded(l, w) => Recorded(pc[p], view[p])
    BY <1>2, <1>3, <2>2 DEF Backed, Keyed, Alike
  <2> QED
    BY <1>1, <2>1, <2>2 DEF Follows
<1>5. \A b \in Bindings : Resources(b)' = {} \/ Resources(b) # {} \/ ledger[b] # << >>
  BY <1>3 DEF Quiet, Backed
<1> QED
  BY <1>1, <1>2, <1>4, <1>5, Built

\* A step of a deletion removes keys and the ledger of its binding only.
NotRaced == world.procs > 1 => /\ secrets \subseteq secrets'
                               /\ \A b \in Bindings : ledger[b] # << >> => ledger'[b] # << >>

LEMMA Erased ==
  ASSUME NEW g, Inv(g), NEW p \in Operators, Solo(p), MBody, world'.procs = world.procs, NotRaced,
         NEW l, NEW w, GoTo(p, l, w), w.b = view[p].b, ~Making(l), pods' = pods, secrets' \subseteq secrets,
         \A b \in Bindings : ledger'[b] = ledger[b] \/ (b = w.b /\ ledger'[b] = << >> /\ Resources(b)' = {}),
         world.procs <= 1 =>
            /\ \A s \in secrets : s \in secrets' \/ s.b = w.b
            /\ Removing(l) \/ Keyed(secrets', w.b, ledger'[w.b])
            /\ Inventory(l, w)'
  PROVE  MBody'
<1>1. pc \in [Operators -> Labels] /\ view \in [Operators -> View] /\ world.procs \in Nat
  BY DEF Inv, Passes, Stored, Shapes, World
<1>2. /\ pc'[p] = l /\ view'[p] = w
      /\ \A q \in Operators : q # p => pc'[q] = pc[q] /\ view'[q] = view[q]
  BY <1>1 DEF GoTo
<1>3. \A b \in Bindings : ledger'[b] = << >> => Resources(b)' = {}
  <2>1. \A b \in Bindings : Resources(b)' \subseteq Resources(b)
    BY DEF Resources
  <2> QED
    BY <2>1 DEF MBody
<1>4. ASSUME world.procs > 1 PROVE MBody'
  <2>1. secrets' = secrets /\ \A b \in Bindings : ledger[b] # << >> => ledger'[b] # << >>
    BY <1>4 DEF NotRaced
  <2>2. \A b \in Bindings : ledger'[b] = ledger[b]
    BY <2>1
  <2>3. \A b \in Bindings : Keyed(secrets', b, ledger'[b])
    BY <1>1, <1>4, <2>1, <2>2 DEF MBody, Erasing
  <2>4. ASSUME NEW q \in Operators PROVE Backed(secrets', ledger', pc'[q], view'[q])
    <3>1. CASE q # p
      <4>1. Backed(secrets, ledger, pc[q], view[q]) /\ view[q].b \in Bindings
        BY Holding DEF MBody
      <4> QED
        BY <1>2, <2>1, <2>2, <3>1, <4>1 DEF Backed
    <3>2. CASE q = p
      BY <1>2, <3>2 DEF Backed, Making, Recorded
    <3> QED
      BY <3>1, <3>2
  <2> QED
    BY <1>1, <1>3, <1>4, <2>3, <2>4 DEF MBody
<1>5. ASSUME world.procs <= 1 PROVE MBody'
  <2>1. \A q \in Operators : q # p => pc[q] = "idle" /\ pc'[q] = "idle"
    BY <1>2, <1>5 DEF Solo
  <2>2. ASSUME NEW b \in Bindings PROVE Keyed(secrets', b, ledger'[b]) \/ Erasing(b)'
    <3>1. CASE b # w.b
      <4>1. ~Erasing(b)
        BY <2>1, <3>1 DEF Erasing, Removing
      <4>2. Keyed(secrets, b, ledger[b]) /\ ledger'[b] = ledger[b]
        BY <3>1, <4>1 DEF MBody
      <4>3. \A i, k : [b |-> b, id |-> i, key |-> k] \in secrets => [b |-> b, id |-> i, key |-> k] \in secrets'
        BY <1>5, <3>1
      <4> QED
        BY <4>2, <4>3 DEF Keyed
    <3>2. CASE b = w.b /\ ~Removing(l)
      BY <1>5, <3>2
    <3>3. CASE b = w.b /\ Removing(l)
      BY <1>2, <1>5, <3>3 DEF Erasing
    <3> QED
      BY <3>1, <3>2, <3>3
  <2>3. \A q \in Operators : Backed(secrets', ledger', pc'[q], view'[q])
    BY <1>2, <2>1 DEF Backed, Making, Recorded, Asking
  <2>4. \A q \in Operators : Inventory(pc[q], view[q])'
    <3>1. ASSUME NEW q \in Operators, q # p PROVE Inventory(pc[q], view[q])'
      BY <2>1, <3>1 DEF Inventory
    <3>2. Inventory(pc[p], view[p])'
      BY <1>2, <1>5 DEF Inventory
    <3> QED
      BY <3>1, <3>2
  <2> QED
    BY <1>3, <2>2, <2>3, <2>4 DEF MBody
<1> QED
  BY <1>1, <1>4, <1>5

-----------------------------------------------------------------------------
(* What the other steps do to members and keys *)

\* A ledger that is found becomes the copy (reconciler.go:405-440).
LEMMA Found ==
  ASSUME NEW g, Inv(g), NEW p \in Operators, GetLedger(p)
  PROVE  \/ Quiet(p)
         \/ \E w : /\ GoTo(p, "work", w) /\ w.b = view[p].b /\ w.mem = ledger[w.b] /\ w.mem # << >>
                   /\ UNCHANGED <<store, announced>> /\ pc[p] = "ledger"
<1>1. PICK v, w : v = view[p] /\ w = [v EXCEPT !.mem = ledger[v.b]]
  OBVIOUS
<1>2. /\ pc[p] = "ledger" /\ GoTo(p, IF ledger[v.b] = << >> THEN "resources" ELSE "work", w)
      /\ UNCHANGED <<store, announced>>
  BY <1>1 DEF GetLedger
<1>3. v \in View /\ w.b = v.b /\ w.mem = ledger[v.b]
  BY <1>1, Holding DEF View
<1>4. CASE ledger[v.b] = << >>
  <2>1. DOMAIN w.mem = {} /\ GoTo(p, "resources", w)
    BY <1>2, <1>3, <1>4, Nothing
  <2>2. Follows(pc[p], view[p], "resources", w)
    BY <2>1 DEF Follows, Removing, Recorded, Asking
  <2> QED
    BY <1>2, <2>1, <2>2, Untouched, QuietMove DEF Removing, store
<1> QED
  BY <1>1, <1>2, <1>3, <1>4

\* A drafted member has an identity nobody has, and no key (reconciler.go:566-589).
LEMMA Drafted ==
  ASSUME NEW g, Inv(g), NEW p \in Operators, DraftMember(p)
  PROVE  \E w, n : /\ GoTo(p, "list", w) /\ w.b = view[p].b /\ n \notin DOMAIN view[p].mem
                   /\ DOMAIN w.mem = {n} \cup DOMAIN view[p].mem
                   /\ w.mem[n].id = drawn + 1 /\ w.mem[n].key = 0 /\ n \in Drafts(w)
                   /\ \A k \in DOMAIN view[p].mem : w.mem[k] = view[p].mem[k]
                   /\ drawn' = drawn + 1 /\ UNCHANGED <<ledger, secrets, pods, announced>> /\ pc[p] = "draft"
<1>1. PICK v, n, x, m, w :
         /\ v = view[p] /\ n = First(Unplaced(v))
         /\ x = [id |-> drawn + 1, health |-> 0, key |-> 0, links |-> << >>]
         /\ m = Put(v.mem, n, x) /\ w = [v EXCEPT !.mem = m]
  OBVIOUS
<1>2. /\ pc[p] = "draft" /\ Unplaced(v) # {} /\ drawn' = drawn + 1
      /\ UNCHANGED <<ledger, secrets, pods, announced>> /\ GoTo(p, "list", w)
  BY <1>1 DEF DraftMember
<1>3. n \notin DOMAIN v.mem
  <2>1. Unplaced(v) \in SUBSET Nat
    BY DEF Unplaced, Inv, Stored, Shapes, World, Nodes
  <2>2. n \in Unplaced(v)
    BY <1>1, <1>2, <2>1, FirstIn
  <2> QED
    BY <2>2 DEF Unplaced
<1>4. w.mem = m /\ w.b = v.b
  BY <1>1, Holding DEF View
<1>5. DOMAIN m = {n} \cup DOMAIN v.mem /\ m[n] = x /\ \A k \in DOMAIN v.mem : m[k] = v.mem[k]
  BY <1>1, <1>3 DEF Put
<1>6. n \in Drafts(w)
  BY <1>1, <1>4, <1>5 DEF Drafts
<1>7. w.mem[n].id = drawn + 1 /\ w.mem[n].key = 0 /\ v = view[p]
  BY <1>1, <1>4, <1>5
<1>8. DOMAIN w.mem = {n} \cup DOMAIN v.mem /\ \A k \in DOMAIN v.mem : w.mem[k] = v.mem[k]
  BY <1>4, <1>5
<1> QED
  BY <1>2, <1>3, <1>4, <1>6, <1>7, <1>8

\* The copy becomes the ledger (reconciler.go:508-523, 589-622).
LEMMA Written ==
  ASSUME NEW g, Inv(g), NEW p \in Operators, CreateLedger(p) \/ SaveLedger(p)
  PROVE  \/ Quiet(p)
         \/ \E l \in {"work", "pods"} :
                /\ GoTo(p, l, view[p]) /\ ledger' = [ledger EXCEPT ![view[p].b] = view[p].mem]
                /\ view[p].mem # << >> /\ UNCHANGED <<secrets, pods, drawn, announced>>
                /\ pc[p] \in {"draft", "work"}
<1>1. PICK v : v = view[p]
  OBVIOUS
<1>2. /\ UNCHANGED <<secrets, pods, drawn, announced>> /\ pc[p] \in {"draft", "work"}
      /\ ~Removing(pc[p]) /\ Placed(g, pc[p], v)
  BY <1>1, Holding DEF CreateLedger, SaveLedger, Removing
<1>3. DOMAIN v.mem = Nodes => v.mem # << >>
  BY Nothing DEF Inv, Stored, Shapes
<1>4. CASE CreateLedger(p)
  <2>1. pc[p] = "draft" /\ Unplaced(v) = {}
    BY <1>1, <1>4 DEF CreateLedger
  <2>2. v.mem # << >>
    BY <1>2, <1>3, <2>1 DEF Placed, Local, Early, Unplaced
  <2>3. CASE ledger[v.b] = << >>
    BY <1>1, <1>2, <1>4, <2>2, <2>3 DEF CreateLedger
  <2>4. CASE ledger[v.b] # << >>
    <3>1. GoTo(p, "ledger", v) /\ UNCHANGED ledger
      BY <1>1, <1>4, <2>4 DEF CreateLedger
    <3>2. Follows(pc[p], view[p], "ledger", v)
      BY <1>1 DEF Follows, Alike, Removing, Making, Recorded, Asking
    <3> QED
      BY <1>2, <3>1, <3>2, Untouched, QuietMove
  <2> QED
    BY <2>3, <2>4
<1>5. CASE SaveLedger(p)
  <2>1. pc[p] = "work"
    BY <1>5 DEF SaveLedger
  <2>2. v.mem # << >>
    BY <1>2, <1>3, <2>1 DEF Placed, Local, Tidy
  <2>3. CASE ledger[v.b] # << >>
    BY <1>1, <1>2, <1>5, <2>2, <2>3 DEF SaveLedger
  <2>4. CASE ledger[v.b] = << >>
    <3>1. GoTo(p, "idle", NoView) /\ UNCHANGED ledger
      BY <1>1, <1>5, <2>4 DEF SaveLedger, Stop
    <3> QED
      BY <1>2, <3>1, StopFollows, Untouched, QuietMove
  <2> QED
    BY <2>3, <2>4
<1> QED
  BY <1>4, <1>5

\* A key is added to the copy and kept as a Secret, a recorded one never replaced (keys.go:40-79).
LEMMA GivenKey ==
  ASSUME NEW g, Inv(g), NEW p \in Operators, EnsureKey(p)
  PROVE  \/ Quiet(p)
         \/ \E w, n : /\ GoTo(p, "work", w) /\ w.b = view[p].b /\ n \in DOMAIN view[p].mem
                      /\ DOMAIN w.mem = DOMAIN view[p].mem
                      /\ \A k \in DOMAIN w.mem : /\ w.mem[k].id = view[p].mem[k].id
                                                 /\ k # n => w.mem[k].key = view[p].mem[k].key
                      /\ view[p].mem[n].key \in {0, w.mem[n].key}
                      /\ secrets' = secrets \cup {[b |-> w.b, id |-> w.mem[n].id, key |-> w.mem[n].key]}
                      /\ drawn' \in Nat /\ drawn <= drawn'
                      /\ UNCHANGED <<ledger, pods, announced>> /\ pc[p] = "work"
<1>1. PICK v, n, old, key :
         /\ v = view[p] /\ n = First(Unfinished(v)) /\ old = SecretOf(v, n)
         /\ key = IF old = {} THEN drawn + 1 ELSE (CHOOSE s \in old : TRUE).key
  OBVIOUS
<1>2. pc[p] = "work" /\ Unfinished(v) # {} /\ UNCHANGED <<ledger, pods, announced>>
  BY <1>1 DEF EnsureKey
<1>3. v \in View /\ v.mem \in Members /\ Placed(g, "work", v) /\ Tidy(v) /\ Shapes /\ drawn \in Nat
  BY <1>1, <1>2, Holding DEF Placed, Local, Inv, Stored, Shapes
<1>4. n \in Nodes /\ n \in DOMAIN v.mem
  BY <1>1, <1>2, <1>3, FirstUnfinished DEF Tidy
<1>5. CASE ~KeyUsable(v.mem[n], old, key)
  <2>1. GoTo(p, "idle", NoView) /\ UNCHANGED <<secrets, drawn>>
    BY <1>1, <1>5 DEF EnsureKey, Stop
  <2> QED
    BY <1>2, <1>3, <2>1, StopFollows, QuietMove DEF Removing
<1>6. CASE KeyUsable(v.mem[n], old, key)
  <2>1. PICK w : w = [v EXCEPT !.mem[n].key = key, !.keyed = @ \cup {n}]
    OBVIOUS
  <2>2. /\ secrets' = secrets \cup {[b |-> v.b, id |-> v.mem[n].id, key |-> key]}
        /\ drawn' = (IF old = {} THEN drawn + 1 ELSE drawn) /\ GoTo(p, "work", w)
    BY <1>1, <1>6, <2>1 DEF EnsureKey
  <2>3. PICK x, m : x = [v.mem[n] EXCEPT !.key = key] /\ m = [v.mem EXCEPT ![n] = x]
    OBVIOUS
  <2>4. w = [v EXCEPT !.mem = m, !.keyed = @ \cup {n}]
    BY <2>1, <2>3
  <2>5. w.mem = m /\ w.b = v.b
    BY <1>3, <2>4 DEF View
  <2>6. x.id = v.mem[n].id /\ x.key = key
    BY <1>3, <1>4, <2>3, MemberFacts DEF Member
  <2>7. DOMAIN m = DOMAIN v.mem /\ m[n] = x /\ \A k \in DOMAIN v.mem : k # n => m[k] = v.mem[k]
    BY <1>4, <2>3
  <2>8. v.mem[n].key \in {0, key}
    BY <1>6 DEF KeyUsable
  <2>9. drawn' \in Nat /\ drawn <= drawn'
    BY <1>3, <2>2
  <2> QED
    BY <1>1, <1>2, <1>4, <2>2, <2>5, <2>6, <2>7, <2>8, <2>9
<1> QED
  BY <1>5, <1>6

\* A report is made of the copy as it is (reconciler.go:320-352).
LEMMA Announces ==
  ASSUME NEW g, Inv(g), NEW p \in Operators, Report(p)
  PROVE  \/ Quiet(p)
         \/ /\ GoTo(p, "idle", NoView) /\ announced' = announced \cup Receipts(view[p].b, view[p].mem)
            /\ UNCHANGED <<ledger, secrets, pods, drawn>> /\ pc[p] = "report"
<1>1. /\ GoTo(p, "idle", NoView) /\ pc[p] = "report" /\ UNCHANGED <<ledger, secrets, pods, drawn>>
      /\ announced' = announced \/ announced' = announced \cup Receipts(view[p].b, view[p].mem)
  BY DEF Report, Stop
<1>2. announced' = announced => Quiet(p)
  BY <1>1, Untouched, StopFollows, QuietMove DEF Removing
<1> QED
  BY <1>1, <1>2

-----------------------------------------------------------------------------
(* No key and no ledger is missed *)

\* A pass that is not deleting.
LEMMA MakingMembers ==
  ASSUME NEW g, Inv(g), NEW p \in Operators, Solo(p), MBody, world'.procs = world.procs,
         GetLedger(p) \/ DraftMember(p) \/ CreateLedger(p) \/ SaveLedger(p) \/ EnsureKey(p) \/ Report(p)
  PROVE  MBody'
<1>1. CASE Quiet(p)
  BY <1>1, QuietMembers
<1>2. Backed(secrets, ledger, pc[p], view[p]) /\ view[p].b \in Bindings
  BY Holding DEF MBody
<1>3. \A b : UNCHANGED <<pods, secrets>> => Resources(b)' = Resources(b)
  BY SameResources
<1>4. ASSUME NEW w, GoTo(p, "work", w), w.b = view[p].b, w.mem = ledger[w.b], w.mem # << >>,
             UNCHANGED <<store, announced>>, pc[p] = "ledger"
      PROVE  MBody'
  <2>1. ~Removing(pc[p]) /\ ~Removing("work") /\ UNCHANGED <<ledger, secrets, pods>>
    BY <1>4 DEF Removing, store
  <2>2. Keyed(secrets, w.b, ledger[w.b])
    BY <1>2, <1>4, <2>1, NobodyErases DEF MBody
  <2>3. Backed(secrets', ledger', "work", w)
    BY <1>4, <2>1, <2>2 DEF Backed
  <2> QED
    BY <1>3, <1>4, <2>1, <2>3, Built
<1>5. ASSUME NEW w, NEW n, GoTo(p, "list", w), w.b = view[p].b, n \notin DOMAIN view[p].mem,
             DOMAIN w.mem = {n} \cup DOMAIN view[p].mem, w.mem[n].key = 0, n \in Drafts(w),
             \A k \in DOMAIN view[p].mem : w.mem[k] = view[p].mem[k],
             UNCHANGED <<ledger, secrets, pods, announced>>, pc[p] = "draft"
      PROVE  MBody'
  <2>1. ~Removing(pc[p]) /\ ~Removing("list") /\ Making(pc[p])
    BY <1>5 DEF Removing, Making
  <2>2. Keyed(secrets, w.b, w.mem)
    BY <1>2, <1>5, <2>1 DEF Backed, Keyed
  <2>3. Backed(secrets', ledger', "list", w)
    BY <1>5, <2>2 DEF Backed, Recorded
  <2> QED
    BY <1>3, <1>5, <2>1, <2>3, Built
<1>6. ASSUME NEW l \in {"work", "pods"}, GoTo(p, l, view[p]),
             ledger' = [ledger EXCEPT ![view[p].b] = view[p].mem],
             view[p].mem # << >>, UNCHANGED <<secrets, pods, drawn, announced>>, pc[p] \in {"draft", "work"}
      PROVE  MBody'
  <2>1. PICK v : v = view[p]
    OBVIOUS
  <2>2. ~Removing(pc[p]) /\ ~Removing(l) /\ Making(pc[p])
    BY <1>6 DEF Removing, Making
  <2>3. Keyed(secrets, v.b, v.mem)
    BY <1>2, <2>1, <2>2 DEF Backed
  <2>4. ledger'[v.b] = v.mem /\ \A b \in Bindings : b # v.b => ledger'[b] = ledger[b]
    BY <1>2, <1>6, <2>1, Untouched
  <2>5. Backed(secrets', ledger', l, v)
    BY <1>6, <2>1, <2>3, <2>4 DEF Backed
  <2>6. \A b \in Bindings : ledger'[b] = ledger[b] \/ Keyed(secrets', b, ledger'[b])
    BY <1>6, <2>3, <2>4
  <2>7. \A b \in Bindings : ledger[b] # << >> => ledger'[b] # << >>
    BY <1>6, <2>1, <2>4
  <2>8. \A b \in Bindings : Resources(b)' = Resources(b)
    BY <1>3, <1>6
  <2>9. GoTo(p, l, v) /\ secrets \subseteq secrets'
    BY <1>6, <2>1
  <2>10. \A b \in Bindings : Resources(b)' = {} \/ Resources(b) # {} \/ ledger[b] # << >>
    BY <2>8
  <2> HIDE <1>6
  <2> QED
    BY <2>2, <2>5, <2>6, <2>7, <2>9, <2>10, Built
<1>7. ASSUME NEW w, NEW n, GoTo(p, "work", w), w.b = view[p].b, n \in DOMAIN view[p].mem,
             DOMAIN w.mem = DOMAIN view[p].mem,
             \A k \in DOMAIN w.mem : /\ w.mem[k].id = view[p].mem[k].id
                                     /\ k # n => w.mem[k].key = view[p].mem[k].key,
             secrets' = secrets \cup {[b |-> w.b, id |-> w.mem[n].id, key |-> w.mem[n].key]},
             UNCHANGED <<ledger, pods, announced>>, pc[p] = "work"
      PROVE  MBody'
  <2>1. ~Removing(pc[p]) /\ ~Removing("work") /\ Making(pc[p]) /\ Recorded(pc[p], view[p])
    BY <1>7 DEF Removing, Making, Recorded
  <2>2. Keyed(secrets, w.b, view[p].mem) /\ ledger[w.b] # << >>
    BY <1>2, <1>7, <2>1 DEF Backed
  <2>3. Keyed(secrets', w.b, w.mem)
    BY <1>7, <2>2 DEF Keyed
  <2>4. Backed(secrets', ledger', "work", w)
    BY <1>7, <2>2, <2>3 DEF Backed
  <2>5. \A b \in Bindings : Resources(b)' = {} \/ Resources(b) # {} \/ ledger[b] # << >>
    <3>1. \A b \in Bindings : b # w.b => Resources(b)' = Resources(b)
      BY <1>7 DEF Resources
    <3> QED
      BY <2>2, <3>1
  <2>6. secrets \subseteq secrets' /\ ledger' = ledger
    BY <1>7
  <2> QED
    BY <1>7, <2>1, <2>4, <2>5, <2>6, Built
<1>8. ASSUME GoTo(p, "idle", NoView), UNCHANGED <<ledger, secrets, pods, drawn>>, pc[p] = "report"
      PROVE  MBody'
  <2>1. ~Removing(pc[p]) /\ ~Removing("idle") /\ Backed(secrets', ledger', "idle", NoView)
    BY <1>8 DEF Removing, Backed, Making, Recorded, Asking
  <2> QED
    BY <1>3, <1>8, <2>1, Built
<1>9. CASE GetLedger(p)
  BY <1>1, <1>4, <1>9, Found
<1>10. CASE DraftMember(p)
  BY <1>5, <1>10, Drafted
<1>11. CASE CreateLedger(p) \/ SaveLedger(p)
  BY <1>1, <1>6, <1>11, Written
<1>12. CASE EnsureKey(p)
  BY <1>1, <1>7, <1>12, GivenKey
<1>13. CASE Report(p)
  BY <1>1, <1>8, <1>13, Announces
<1> QED
  BY <1>9, <1>10, <1>11, <1>12, <1>13

\* Of several processes, one that stops leaves everything as it is.
LEMMA Stopped ==
  ASSUME NEW g, Inv(g), NEW p \in Operators, MBody, world'.procs = world.procs, ~(world.procs <= 1),
         GoTo(p, "idle", NoView), UNCHANGED <<ledger, secrets, pods>>
  PROVE  MBody'
<1>1. pc \in [Operators -> Labels] /\ view \in [Operators -> View]
  BY DEF Inv, Passes
<1>2. /\ pc'[p] = "idle" /\ view'[p] = NoView
      /\ \A q \in Operators : q # p => pc'[q] = pc[q] /\ view'[q] = view[q]
  BY <1>1 DEF GoTo
<1>3. \A b \in Bindings : ledger'[b] = << >> => Resources(b)' = {}
  BY SameResources DEF MBody
<1>4. \A b \in Bindings : Keyed(secrets', b, ledger'[b])
  BY DEF MBody, Erasing
<1>5. ASSUME NEW q \in Operators PROVE Backed(secrets', ledger', pc'[q], view'[q])
  <2>1. Backed(secrets, ledger, "idle", NoView)
    BY DEF Backed, Making, Recorded, Asking
  <2>2. CASE q # p
    BY <1>2, <2>2 DEF MBody
  <2>3. CASE q = p
    BY <1>2, <2>1, <2>3
  <2> QED
    BY <2>2, <2>3
<1> QED
  BY <1>3, <1>4, <1>5 DEF MBody

\* A pass that is deleting (reconciler.go:660-780).
LEMMA RemovingMembers ==
  ASSUME NEW g, Inv(g), NEW p \in Operators, Solo(p), MBody, world'.procs = world.procs, NotRaced,
         DeletePods(p) \/ DeleteKey(p) \/ Recheck(p) \/ DeleteLedger(p)
  PROVE  MBody'
<1>1. PICK v : v = view[p]
  OBVIOUS
<1>2. v \in View /\ v.b \in Bindings /\ (world.procs <= 1 => Inventory(pc[p], v))
  BY <1>1, Holding DEF MBody
<1>3. CASE DeletePods(p)
  <2>1. pc[p] = "delete" /\ ~Removing(pc[p]) /\ UNCHANGED <<ledger, secrets, drawn, announced>>
    BY <1>3 DEF DeletePods, Removing
  <2>2. PICK mine : mine = {x \in pods : x.b = v.b}
    OBVIOUS
  <2>3. CASE mine # {}
    <3>1. pods' = (pods \ mine) \cup {[x EXCEPT !.up = FALSE] : x \in mine} /\ GoTo(p, "idle", NoView)
      BY <1>1, <1>3, <2>2, <2>3 DEF DeletePods, Stop
    <3>2. \A x \in mine : [x EXCEPT !.up = FALSE].b = v.b
      BY <2>2, Untouched DEF Pod
    <3>3. \A b \in Bindings : b # v.b => Resources(b)' = Resources(b)
      BY <2>1, <2>2, <3>1, <3>2 DEF Resources
    <3>4. Resources(v.b) # {}
      BY <2>2, <2>3 DEF Resources
    <3>5. \A b \in Bindings : Resources(b)' = {} \/ Resources(b) # {} \/ (Recorded(pc[p], v) /\ b = v.b)
      BY <3>3, <3>4
    <3>6. Quiet(p)
      BY <1>1, <2>1, <3>1, <3>5, StopFollows, Untouched DEF Quiet
    <3> QED
      BY <3>6, QuietMembers
  <2>4. CASE mine = {}
    <3>1. PICK w : w = [v EXCEPT !.doomed = Resources(v.b)]
      OBVIOUS
    <3>2. GoTo(p, "keys", w) /\ pods' = pods
      BY <1>1, <1>3, <2>2, <2>4, <3>1 DEF DeletePods
    <3>3. w.b = v.b /\ w.doomed = Resources(v.b)
      BY <1>2, <3>1 DEF View
    <3>4. Inventory("keys", w)'
      BY <2>1, <2>2, <2>4, <3>2, <3>3, SameResources DEF Inventory, Resources
    <3>5. ~Making("keys") /\ Removing("keys")
      BY DEF Making, Removing, Asking
    <3> QED
      BY <1>1, <2>1, <3>2, <3>3, <3>4, <3>5, Erased
  <2> QED
    BY <2>3, <2>4
<1>4. CASE DeleteKey(p)
  <2>1. pc[p] = "keys" /\ UNCHANGED <<ledger, pods>>
    BY <1>4 DEF DeleteKey
  <2>2. PICK s, w : /\ s \in v.doomed /\ secrets' = secrets \ {s} /\ GoTo(p, "keys", w)
                    /\ w = [v EXCEPT !.doomed = @ \ {s}]
    BY <1>1, <1>4 DEF DeleteKey
  <2>3. w.b = v.b /\ w.doomed = v.doomed \ {s}
    BY <1>2, <2>2 DEF View
  <2>4. ASSUME world.procs <= 1
        PROVE  /\ \A x \in secrets : x \in secrets' \/ x.b = w.b
               /\ Inventory("keys", w)'
    <3>1. /\ Resources(v.b) \subseteq v.doomed /\ \A x \in v.doomed : x.b = v.b
          /\ \A x \in pods : x.b # v.b
      BY <1>2, <2>1, <2>4 DEF Inventory
    <3>2. Resources(v.b)' \subseteq Resources(v.b) /\ s \notin secrets'
      BY <2>1, <2>2 DEF Resources
    <3>3. Resources(v.b)' \subseteq v.doomed \ {s}
      BY <2>1, <3>1, <3>2 DEF Resources
    <3>4. \A x \in secrets : x \in secrets' \/ x.b = w.b
      BY <2>2, <2>3, <3>1
    <3> QED
      BY <2>1, <2>3, <3>1, <3>3, <3>4 DEF Inventory
  <2>5. ~Making("keys") /\ Removing("keys") /\ secrets' \subseteq secrets
    BY <2>2 DEF Making, Removing, Asking
  <2> QED
    BY <1>1, <2>1, <2>2, <2>3, <2>4, <2>5, Erased
<1>5. CASE Recheck(p)
  <2>1. pc[p] = "keys" /\ UNCHANGED <<ledger, pods, secrets>> /\ v.doomed = {}
    BY <1>1, <1>5 DEF Recheck, store
  <2>2. CASE Resources(v.b) # {}
    <3>1. GoTo(p, "idle", NoView)
      BY <1>1, <1>5, <2>2 DEF Recheck, Stop
    <3>2. ~(world.procs <= 1)
      BY <1>2, <2>1, <2>2 DEF Inventory
    <3> QED
      BY <1>1, <1>2, <2>1, <3>1, <3>2, Stopped
  <2>3. CASE Resources(v.b) = {}
    <3>1. PICK w : w = [v EXCEPT !.mem = ledger[v.b]]
      OBVIOUS
    <3>2. GoTo(p, "forget", w)
      BY <1>1, <1>5, <2>3, <3>1 DEF Recheck
    <3>3. w.b = v.b /\ w.mem = ledger[v.b]
      BY <1>2, <3>1 DEF View
    <3>4. Inventory("forget", w)'
      BY <2>1, <2>3, <3>3, SameResources DEF Inventory
    <3>5. ~Making("forget") /\ Removing("forget")
      BY DEF Making, Removing, Asking
    <3> QED
      BY <1>1, <2>1, <3>2, <3>3, <3>4, <3>5, Erased
  <2> QED
    BY <2>2, <2>3
<1>6. CASE DeleteLedger(p)
  <2>1. pc[p] = "forget" /\ UNCHANGED <<secrets, pods>>
    BY <1>6 DEF DeleteLedger
  <2>2. PICK same : same = \A n \in DOMAIN v.mem \cap DOMAIN ledger[v.b] : v.mem[n].id = ledger[v.b][n].id
    OBVIOUS
  <2>3. CASE ~same
    <3>1. GoTo(p, "idle", NoView) /\ UNCHANGED ledger
      BY <1>1, <1>6, <2>2, <2>3 DEF DeleteLedger, Stop
    <3>2. ~(world.procs <= 1)
      BY <1>2, <2>1, <2>2, <2>3 DEF Inventory
    <3> QED
      BY <1>1, <1>2, <2>1, <3>1, <3>2, Stopped
  <2>4. CASE same
    <3>1. GoTo(p, "gone", v) /\ ledger' = IF v.mem = << >> THEN ledger ELSE [ledger EXCEPT ![v.b] = << >>]
      BY <1>1, <1>6, <2>2, <2>4 DEF DeleteLedger
    <3>2. ~Making("gone") /\ ~Removing("gone")
      BY DEF Making, Removing, Asking
    <3>3. ASSUME world.procs <= 1 PROVE ledger'[v.b] = << >> /\ Resources(v.b)' = {}
      <4>1. Resources(v.b) = {} /\ v.mem = ledger[v.b]
        BY <1>2, <2>1, <3>3 DEF Inventory
      <4> QED
        BY <1>2, <2>1, <3>1, <4>1, SameResources, Untouched
    <3>4. \A b \in Bindings : b # v.b => ledger'[b] = ledger[b]
      BY <3>1, Untouched
    <3>5. ASSUME ~(world.procs <= 1) PROVE ledger'[v.b] = ledger[v.b]
      <4>1. ledger[v.b] # << >> => ledger'[v.b] # << >>
        BY <1>2, <3>5 DEF NotRaced, Inv, Stored, Shapes, World
      <4> QED
        BY <1>2, <3>1, <4>1, Untouched
    <3>6. \A b \in Bindings : ledger'[b] = ledger[b] \/ (b = v.b /\ ledger'[b] = << >> /\ Resources(b)' = {})
      BY <3>3, <3>4, <3>5
    <3>7. world.procs <= 1 => Keyed(secrets', v.b, ledger'[v.b])
      BY <3>3, Nothing DEF Keyed
    <3>8. Inventory("gone", v)'
      BY DEF Inventory
    <3>9. secrets' \subseteq secrets /\ \A s \in secrets : s \in secrets'
      BY <2>1
    <3> HIDE DEF Inventory
    <3> QED
      BY <1>1, <2>1, <3>1, <3>2, <3>6, <3>7, <3>8, <3>9, Erased
  <2> QED
    BY <2>3, <2>4
<1> QED
  BY <1>3, <1>4, <1>5, <1>6

-----------------------------------------------------------------------------
(* A single process keeps the public key of an announced identity *)

LEMMA DrawnGrows ==
  ASSUME NEW m \in Members, NEW d \in Nat, NEW e \in Nat, d <= e, Drawn(d, m)
  PROVE  Drawn(e, m)
<1>1. \A n \in DOMAIN m : m[n].id \in Nat
  BY MemberFacts
<1> QED
  BY <1>1 DEF Drawn

\* Nothing is wrong with the keys of no members.
LEMMA NobodyOwns ==
  ASSUME NEW m, DOMAIN m = {}, NEW d, NEW led, NEW R, NEW b
  PROVE  Drawn(d, m) /\ Apiece(led, b, m) /\ Faithful(R, m)
  BY DEF Drawn, Apiece, Faithful

\* A step that announces nothing.
LEMMA KeysStep ==
  ASSUME NEW g, Inv(g), NEW p \in Operators, Solo(p), world.procs = 1, KBody,
         NEW l, NEW w, GoTo(p, l, w), announced' = announced, drawn' \in Nat, drawn <= drawn',
         \A b \in Bindings : /\ Drawn(drawn', ledger'[b]) /\ Apiece(ledger', b, ledger'[b])
                             /\ Faithful(announced, ledger'[b]),
         Own(drawn', ledger', announced, l, w)
  PROVE  KBody'
<1>1. pc \in [Operators -> Labels] /\ view \in [Operators -> View] /\ drawn \in Nat
  BY DEF Inv, Passes, Stored, Shapes
<1>2. /\ pc'[p] = l /\ view'[p] = w
      /\ \A q \in Operators : q # p => pc'[q] = pc[q] /\ view'[q] = view[q]
  BY <1>1 DEF GoTo
<1>3. ASSUME NEW q \in Operators PROVE Own(drawn', ledger', announced', pc'[q], view'[q])
  <2>1. CASE q = p
    BY <1>2, <2>1
  <2>2. CASE q # p
    <3>1. pc[q] = "idle" /\ view[q].mem \in Members /\ Drawn(drawn, view[q].mem)
      BY <2>2, Holding DEF Solo, KBody, Own
    <3>2. Drawn(drawn', view[q].mem)
      BY <1>1, <3>1, DrawnGrows
    <3> QED
      BY <1>2, <2>2, <3>1, <3>2 DEF Own, Making, Asking
  <2> QED
    BY <2>1, <2>2
<1>4. \A r \in announced' : r.claim.id <= drawn'
  <2>1. \A r \in announced : r.claim.id \in Nat
    BY Untouched DEF ReceiptType, ClaimType
  <2>2. \A r \in announced : r.claim.id <= drawn
    BY DEF KBody
  <2> QED
    BY <1>1, <2>1, <2>2
<1>5. \A r, s \in announced' : r.claim.id = s.claim.id => r.key = s.key
  BY DEF KBody
<1> QED
  BY <1>3, <1>4, <1>5 DEF KBody

\* The ledgers are as they were, or gone.
LEMMA LedgersOwn ==
  ASSUME NEW g, Inv(g), KBody, drawn' \in Nat, drawn <= drawn',
         \A b \in Bindings : ledger'[b] = ledger[b] \/ ledger'[b] = << >>
  PROVE  \A b \in Bindings : /\ Drawn(drawn', ledger'[b]) /\ Apiece(ledger', b, ledger'[b])
                             /\ Faithful(announced, ledger'[b])
<1> SUFFICES ASSUME NEW b \in Bindings
             PROVE  /\ Drawn(drawn', ledger'[b]) /\ Apiece(ledger', b, ledger'[b])
                    /\ Faithful(announced, ledger'[b])
  OBVIOUS
<1>1. CASE ledger'[b] = << >>
  BY <1>1, Nothing, NobodyOwns
<1>2. CASE ledger'[b] = ledger[b]
  <2>1. /\ Drawn(drawn, ledger[b]) /\ Apiece(ledger, b, ledger[b]) /\ Faithful(announced, ledger[b])
        /\ drawn \in Nat /\ ledger[b] \in Members
    BY Untouched DEF KBody
  <2>2. Drawn(drawn', ledger[b])
    BY <2>1, DrawnGrows
  <2>3. \A c \in Bindings : \A k \in DOMAIN ledger'[c] : k \in DOMAIN ledger[c] /\ ledger'[c][k] = ledger[c][k]
    BY Nothing
  <2>4. Apiece(ledger', b, ledger[b])
    BY <2>1, <2>3 DEF Apiece
  <2> QED
    BY <1>2, <2>1, <2>2, <2>4
<1> QED
  BY <1>1, <1>2

LEMMA QuietKeys ==
  ASSUME NEW g, Inv(g), NEW p \in Operators, Solo(p), world.procs = 1, KBody, Quiet(p)
  PROVE  KBody'
<1>1. PICK l, w : GoTo(p, l, w) /\ Follows(pc[p], view[p], l, w)
  BY DEF Quiet
<1>2. UNCHANGED <<ledger, announced>> /\ drawn' \in Nat /\ drawn <= drawn' /\ drawn \in Nat
  BY Untouched DEF Quiet
<1>3. PICK v : v = view[p]
  OBVIOUS
<1>4. Own(drawn, ledger, announced, pc[p], v) /\ v.mem \in Members
  BY <1>3, Holding DEF KBody
<1>5. Own(drawn', ledger', announced, l, w)
  <2>1. CASE DOMAIN w.mem = {} /\ ~Recorded(l, w)
    BY <2>1, NobodyOwns DEF Own, Recorded
  <2>2. CASE /\ Alike(w.mem, v.mem) /\ w.b = v.b
             /\ Making(l) => Making(pc[p])
             /\ l \in {"pods", "report"} => pc[p] \in {"pods", "report"} /\ w.mem = v.mem
    <3>1. Drawn(drawn', v.mem)
      BY <1>2, <1>4, DrawnGrows DEF Own
    <3>2. Drawn(drawn', w.mem)
      BY <2>2, <3>1 DEF Drawn, Alike
    <3>3. Making(l) => Apiece(ledger, w.b, w.mem) /\ Faithful(announced, w.mem)
      BY <1>4, <2>2 DEF Own, Apiece, Faithful, Alike
    <3> QED
      BY <1>2, <1>4, <2>2, <3>2, <3>3 DEF Own
  <2> QED
    BY <1>1, <1>3, <2>1, <2>2 DEF Follows
<1> QED
  BY <1>1, <1>2, <1>5, LedgersOwn, KeysStep

\* Removing objects draws no identity and no key.
LEMMA RemovingKeys ==
  ASSUME NEW g, Inv(g), NEW p \in Operators, Solo(p), world.procs = 1, KBody,
         DeletePods(p) \/ DeleteKey(p) \/ Recheck(p) \/ DeleteLedger(p)
  PROVE  KBody'
<1>1. PICK v : v = view[p]
  OBVIOUS
<1>2. /\ drawn' \in Nat /\ drawn <= drawn' /\ drawn' = drawn /\ announced' = announced
      /\ v \in View /\ v.b \in Bindings
  BY <1>1, Untouched, Holding DEF DeletePods, DeleteKey, Recheck, DeleteLedger, store
<1>3. /\ Drawn(drawn, NoView.mem) /\ Drawn(drawn, v.mem) /\ Drawn(drawn, ledger[v.b])
  BY <1>1, <1>2, NoViewType, Nothing, NobodyOwns DEF KBody, Own
<1>4. \E l, w : /\ GoTo(p, l, w) /\ l \in Deleting \cup {"idle"}
                /\ w.mem \in {NoView.mem, v.mem, ledger[v.b]}
  <2>1. Stop(p) => GoTo(p, "idle", NoView)
    BY DEF Stop
  <2>2. CASE DeletePods(p)
    <3>1. PICK w : w = [v EXCEPT !.doomed = Resources(v.b)]
      OBVIOUS
    <3>2. w.mem = v.mem
      BY <1>2, <3>1 DEF View
    <3>3. Stop(p) \/ GoTo(p, "keys", w)
      BY <1>1, <2>2, <3>1 DEF DeletePods
    <3> QED
      BY <2>1, <3>2, <3>3 DEF Deleting
  <2>3. CASE DeleteKey(p)
    <3>1. PICK s, w : w = [v EXCEPT !.doomed = @ \ {s}] /\ GoTo(p, "keys", w)
      BY <1>1, <2>3 DEF DeleteKey
    <3>2. w.mem = v.mem
      BY <1>2, <3>1 DEF View
    <3> QED
      BY <3>1, <3>2 DEF Deleting
  <2>4. CASE Recheck(p)
    <3>1. PICK w : w = [v EXCEPT !.mem = ledger[v.b]]
      OBVIOUS
    <3>2. w.mem = ledger[v.b]
      BY <1>2, <3>1 DEF View
    <3>3. Stop(p) \/ GoTo(p, "forget", w)
      BY <1>1, <2>4, <3>1 DEF Recheck
    <3> QED
      BY <2>1, <3>2, <3>3 DEF Deleting
  <2>5. CASE DeleteLedger(p)
    <3>1. Stop(p) \/ GoTo(p, "gone", v)
      BY <1>1, <2>5 DEF DeleteLedger
    <3> QED
      BY <2>1, <3>1 DEF Deleting
  <2> QED
    BY <2>2, <2>3, <2>4, <2>5
<1>5. PICK l, w : /\ GoTo(p, l, w) /\ l \in Deleting \cup {"idle"}
                  /\ w.mem \in {NoView.mem, v.mem, ledger[v.b]}
  BY <1>4
<1>6. Own(drawn', ledger', announced, l, w)
  BY <1>2, <1>3, <1>5 DEF Own, Making, Asking, Deleting
<1>7. \A b \in Bindings : ledger'[b] = ledger[b] \/ ledger'[b] = << >>
  BY Untouched DEF DeletePods, DeleteKey, Recheck, DeleteLedger, store
<1> QED
  BY <1>2, <1>5, <1>6, <1>7, LedgersOwn, KeysStep

\* A pass that is not deleting.
LEMMA MakingKeys ==
  ASSUME NEW g, Inv(g), NEW p \in Operators, Solo(p), world.procs = 1, KBody,
         GetLedger(p) \/ DraftMember(p) \/ CreateLedger(p) \/ SaveLedger(p) \/ EnsureKey(p) \/ Report(p)
  PROVE  KBody'
<1>1. CASE Quiet(p)
  BY <1>1, QuietKeys
<1>2. /\ Own(drawn, ledger, announced, pc[p], view[p]) /\ view[p].b \in Bindings /\ view[p].mem \in Members
      /\ drawn \in Nat
  BY Holding, Untouched DEF KBody
<1>3. ASSUME NEW w, GoTo(p, "work", w), w.b = view[p].b, w.mem = ledger[w.b], w.mem # << >>,
             UNCHANGED <<store, announced>>, pc[p] = "ledger"
      PROVE  KBody'
  <2>1. UNCHANGED <<ledger, drawn>>
    BY <1>3 DEF store
  <2>2. Own(drawn', ledger', announced, "work", w)
    BY <1>2, <1>3, <2>1 DEF KBody, Own
  <2> QED
    BY <1>2, <1>3, <2>1, <2>2, LedgersOwn, KeysStep
<1>4. ASSUME NEW w, NEW n, GoTo(p, "list", w), w.b = view[p].b, n \notin DOMAIN view[p].mem,
             DOMAIN w.mem = {n} \cup DOMAIN view[p].mem, w.mem[n].id = drawn + 1, w.mem[n].key = 0,
             \A k \in DOMAIN view[p].mem : w.mem[k] = view[p].mem[k], drawn' = drawn + 1,
             UNCHANGED <<ledger, secrets, pods, announced>>, pc[p] = "draft"
      PROVE  KBody'
  <2>1. PICK m : m = view[p].mem
    OBVIOUS
  <2>2. /\ Drawn(drawn, m) /\ Apiece(ledger, w.b, m) /\ Faithful(announced, m) /\ m \in Members
    BY <1>2, <1>4, <2>1 DEF Own, Making
  <2>3. drawn' \in Nat /\ drawn <= drawn'
    BY <1>2, <1>4
  <2>4. Drawn(drawn', w.mem)
    <3>1. Drawn(drawn', m)
      BY <1>2, <2>2, <2>3, DrawnGrows
    <3> QED
      BY <1>4, <2>1, <2>3, <3>1 DEF Drawn
  <2>5. \A k \in DOMAIN m : m[k].id # drawn + 1 /\ w.mem[k] = m[k] /\ k \in DOMAIN w.mem
    BY <1>2, <1>4, <2>1, <2>2, MemberFacts DEF Drawn
  <2>6. \A c \in Bindings : \A k \in DOMAIN ledger[c] : ledger[c][k].id # drawn + 1
    <3> SUFFICES ASSUME NEW c \in Bindings, NEW k \in DOMAIN ledger[c] PROVE ledger[c][k].id # drawn + 1
      OBVIOUS
    <3>1. ledger[c] \in Members /\ Drawn(drawn, ledger[c])
      BY Untouched DEF KBody
    <3>2. ledger[c][k].id \in Nat /\ ledger[c][k].id <= drawn
      BY <3>1, MemberFacts DEF Drawn
    <3> QED
      BY <1>2, <3>2
  <2>7. \A r \in announced : r.claim.id # drawn + 1
    <3>1. \A r \in announced : r.claim.id \in Nat /\ r.claim.id <= drawn
      BY Untouched DEF ReceiptType, ClaimType, KBody
    <3> QED
      BY <1>2, <3>1
  <2>8. \A k \in DOMAIN w.mem : k = n \/ k \in DOMAIN m
    BY <1>4, <2>1
  <2>9. Apiece(ledger, w.b, w.mem)
    BY <1>4, <2>2, <2>5, <2>6, <2>8 DEF Apiece
  <2>10. Faithful(announced, w.mem)
    BY <1>4, <2>2, <2>5, <2>7, <2>8 DEF Faithful
  <2>11. Own(drawn', ledger', announced, "list", w)
    BY <1>4, <2>4, <2>9, <2>10 DEF Own
  <2>12. \A b \in Bindings : ledger'[b] = ledger[b] \/ ledger'[b] = << >>
    BY <1>4
  <2> QED
    BY <1>4, <2>3, <2>11, <2>12, LedgersOwn, KeysStep
<1>5. ASSUME NEW l \in {"work", "pods"}, GoTo(p, l, view[p]),
             ledger' = [ledger EXCEPT ![view[p].b] = view[p].mem],
             view[p].mem # << >>, UNCHANGED <<secrets, pods, drawn, announced>>, pc[p] \in {"draft", "work"}
      PROVE  KBody'
  <2>1. PICK v : v = view[p]
    OBVIOUS
  <2>2. /\ Drawn(drawn, v.mem) /\ Apiece(ledger, v.b, v.mem) /\ Faithful(announced, v.mem) /\ v.b \in Bindings
    BY <1>2, <1>5, <2>1 DEF Own, Making
  <2>3. ledger'[v.b] = v.mem /\ \A b \in Bindings : b # v.b => ledger'[b] = ledger[b]
    BY <1>5, <2>1, <2>2, Untouched
  <2>4. GoTo(p, l, v) /\ announced' = announced /\ drawn' = drawn /\ drawn' \in Nat /\ drawn <= drawn'
    BY <1>2, <1>5, <2>1
  <2>5. Apiece(ledger', v.b, v.mem)
    BY <2>2, <2>3 DEF Apiece
  <2>6. Own(drawn', ledger', announced, l, v)
    BY <2>2, <2>3, <2>4, <2>5 DEF Own
  <2>7. ASSUME NEW b \in Bindings, b # v.b PROVE Apiece(ledger', b, ledger[b])
    <3>1. Apiece(ledger, b, ledger[b])
      BY DEF KBody
    <3> QED
      BY <2>2, <2>3, <2>7, <3>1 DEF Apiece
  <2>8. \A b \in Bindings : /\ Drawn(drawn', ledger'[b]) /\ Apiece(ledger', b, ledger'[b])
                            /\ Faithful(announced, ledger'[b])
    BY <2>2, <2>3, <2>4, <2>5, <2>7 DEF KBody
  <2> HIDE <1>5
  <2> QED
    BY <2>4, <2>6, <2>8, KeysStep
<1>6. ASSUME NEW w, NEW n, GoTo(p, "work", w), w.b = view[p].b, n \in DOMAIN view[p].mem,
             DOMAIN w.mem = DOMAIN view[p].mem,
             \A k \in DOMAIN w.mem : /\ w.mem[k].id = view[p].mem[k].id
                                     /\ k # n => w.mem[k].key = view[p].mem[k].key,
             view[p].mem[n].key \in {0, w.mem[n].key}, drawn' \in Nat, drawn <= drawn',
             UNCHANGED <<ledger, pods, announced>>, pc[p] = "work"
      PROVE  KBody'
  <2>1. /\ Drawn(drawn, view[p].mem) /\ Apiece(ledger, w.b, view[p].mem) /\ Faithful(announced, view[p].mem)
    BY <1>2, <1>6 DEF Own, Making
  <2>2. Drawn(drawn', w.mem)
    <3>1. Drawn(drawn', view[p].mem)
      BY <1>2, <1>6, <2>1, DrawnGrows
    <3> QED
      BY <1>6, <3>1 DEF Drawn
  <2>3. Apiece(ledger', w.b, w.mem)
    BY <1>6, <2>1 DEF Apiece
  <2>4. Faithful(announced, w.mem)
    <3>1. \A r \in announced : r.key # 0
      BY DEF Inv, Stored, Reported
    <3> QED
      BY <1>6, <2>1, <3>1 DEF Faithful
  <2>5. Own(drawn', ledger', announced, "work", w)
    BY <2>2, <2>3, <2>4 DEF Own
  <2>6. \A b \in Bindings : ledger'[b] = ledger[b] \/ ledger'[b] = << >>
    BY <1>6
  <2> QED
    BY <1>6, <2>5, <2>6, LedgersOwn, KeysStep
<1>7. ASSUME GoTo(p, "idle", NoView), announced' = announced \cup Receipts(view[p].b, view[p].mem),
             UNCHANGED <<ledger, secrets, pods, drawn>>, pc[p] = "report"
      PROVE  KBody'
  <2>1. PICK b, m, R : b = view[p].b /\ m = view[p].mem /\ R = announced \cup Receipts(b, m)
    OBVIOUS
  <2>2. /\ Drawn(drawn, m) /\ Apiece(ledger, b, m) /\ Faithful(announced, m) /\ ledger[b] \in {<< >>, m}
        /\ m \in Members /\ b \in Bindings
    BY <1>2, <1>7, <2>1 DEF Own, Making
  <2>3. Whole(m) /\ Holds(g, b, m) /\ DOMAIN m = Nodes
    BY <1>7, <2>1, Holding DEF Placed, Local, Ready, Whole
  <2>4. \A r \in R : r \in announced \/ \E n \in DOMAIN m : r.key = m[n].key /\ r.claim.id = m[n].id
    BY <2>1, <2>2, <2>3, HeldRetained
  <2>5. \A r \in R : r.claim.id <= drawn
    BY <2>2, <2>4 DEF KBody, Drawn
  <2>6. \A r, s \in R : r.claim.id = s.claim.id => r.key = s.key
    <3> SUFFICES ASSUME NEW r \in R, NEW s \in R, r.claim.id = s.claim.id PROVE r.key = s.key
      OBVIOUS
    <3>1. CASE r \in announced /\ s \in announced
      BY <3>1 DEF KBody
    <3>2. CASE r \in announced /\ s \notin announced
      BY <2>2, <2>4, <3>2 DEF Faithful
    <3>3. CASE r \notin announced /\ s \in announced
      BY <2>2, <2>4, <3>3 DEF Faithful
    <3>4. CASE r \notin announced /\ s \notin announced
      BY <2>2, <2>4, <3>4 DEF Apiece
    <3> QED
      BY <3>1, <3>2, <3>3, <3>4
  <2>7. ASSUME NEW c \in Bindings PROVE Faithful(R, ledger[c])
    <3> SUFFICES ASSUME NEW r \in R, NEW k \in DOMAIN ledger[c], r.claim.id = ledger[c][k].id
                 PROVE  r.key = ledger[c][k].key
      BY DEF Faithful
    <3>1. CASE r \in announced
      BY <3>1 DEF KBody, Faithful
    <3>2. ASSUME NEW n \in DOMAIN m, r.key = m[n].key, r.claim.id = m[n].id PROVE r.key = ledger[c][k].key
      <4>1. c = b /\ k = n
        BY <2>2, <3>2 DEF Apiece
      <4>2. ledger[b] = m
        BY <2>2, <4>1, Nothing
      <4> QED
        BY <3>2, <4>1, <4>2
    <3> QED
      BY <2>4, <3>1, <3>2
  <2>8. \A q \in Operators : Drawn(drawn, view'[q].mem) /\ pc'[q] = "idle"
    <3>1. pc \in [Operators -> Labels] /\ view \in [Operators -> View]
      BY DEF Inv, Passes
    <3>2. /\ pc'[p] = "idle" /\ view'[p] = NoView
          /\ \A q \in Operators : q # p => pc'[q] = pc[q] /\ view'[q] = view[q]
      BY <1>7, <3>1 DEF GoTo
    <3>3. \A q \in Operators : q # p => pc[q] = "idle" /\ Drawn(drawn, view[q].mem)
      BY DEF Solo, KBody, Own
    <3>4. Drawn(drawn, NoView.mem)
      BY NoViewType, Nothing, NobodyOwns
    <3> QED
      BY <3>2, <3>3, <3>4
  <2>9. \A q \in Operators : Own(drawn, ledger, R, pc'[q], view'[q])
    BY <2>8 DEF Own, Making, Asking
  <2>10. \A c \in Bindings : Drawn(drawn, ledger[c]) /\ Apiece(ledger, c, ledger[c])
    BY DEF KBody
  <2>11. announced' = R /\ ledger' = ledger /\ drawn' = drawn
    BY <1>7, <2>1
  <2> QED
    BY <2>5, <2>6, <2>7, <2>9, <2>10, <2>11 DEF KBody
<1>8. CASE GetLedger(p)
  BY <1>1, <1>3, <1>8, Found
<1>9. CASE DraftMember(p)
  BY <1>4, <1>9, Drafted
<1>10. CASE CreateLedger(p) \/ SaveLedger(p)
  BY <1>1, <1>5, <1>10, Written
<1>11. CASE EnsureKey(p)
  BY <1>1, <1>6, <1>11, GivenKey
<1>12. CASE Report(p)
  BY <1>1, <1>7, <1>12, Announces
<1> QED
  BY <1>8, <1>9, <1>10, <1>11, <1>12

-----------------------------------------------------------------------------
(* The invariant of members and keys *)

FullInv == IInv /\ Alone /\ MInv /\ KInv

\* A step of one pass leaves the others where they are.
LEMMA OnlyOneMoves ==
  ASSUME NEW g, Inv(g), NEW p \in Operators, PassStep(p)
  PROVE  \A q \in Operators : q # p => pc'[q] = pc[q]
<1>1. pc \in [Operators -> Labels]
  BY DEF Inv, Passes
<1>2. \A l, w : GoTo(p, l, w) => \A q \in Operators : q # p => pc'[q] = pc[q]
  BY <1>1 DEF GoTo
<1>3. ASSUME Quiet(p) PROVE \E l, w : GoTo(p, l, w)
  BY <1>3 DEF Quiet
<1>4. CASE (\E b \in Bindings : BeginPass(p, b)) \/ ListResources(p) \/ LinkClaims(p) \/ ClearStatus(p)
  BY <1>2, <1>3, <1>4, QuietEmpty
<1>5. CASE List(p) \/ GetIdentity(p) \/ GetRegistry(p) \/ CreateRegistry(p) \/ CreateIdentity(p) \/ Allocate(p)
  BY <1>2, <1>3, <1>5, QuietAsking
<1>6. CASE CreatePods(p)
  BY <1>2, <1>3, <1>6, QuietPods
<1>7. CASE GetLedger(p) \/ DraftMember(p)
  BY <1>2, <1>3, <1>7, Found, Drafted
<1>8. CASE CreateLedger(p) \/ SaveLedger(p)
  BY <1>2, <1>3, <1>8, Written
<1>9. CASE EnsureKey(p) \/ Report(p)
  BY <1>2, <1>3, <1>9, GivenKey, Announces
<1>10. CASE DeletePods(p) \/ DeleteKey(p)
  BY <1>1, <1>10 DEF DeletePods, DeleteKey, Stop, GoTo
<1>11. CASE Recheck(p) \/ DeleteLedger(p)
  BY <1>1, <1>11 DEF Recheck, DeleteLedger, Stop, GoTo
<1> QED
  BY <1>4, <1>5, <1>6, <1>7, <1>8, <1>9, <1>10, <1>11 DEF PassStep

\* Every step of a pass has a pass, or begins one.
LEMMA Acting ==
  ASSUME NEW p \in Operators, PassStep(p)
  PROVE  pc[p] # "idle" \/ \E b \in Bindings : BeginPass(p, b)
  BY DEF PassStep, List, ListLedgers, ListBindings, ListGatewayPods, ListKeys, Lists, GetIdentity, GetRegistry, CreateRegistry, CreateIdentity, Allocate, GetLedger,
         ListResources, DraftMember, CreateLedger, EnsureKey, LinkClaims, SaveLedger, CreatePods, Report,
         DeletePods, DeleteKey, Recheck, DeleteLedger, ClearStatus

LEMMA PassMembers ==
  ASSUME NEW g, Inv(g), NEW p \in Operators, Solo(p), PassStep(p), MBody, world' = world, NotRaced
  PROVE  MBody'
<1>1. Quiet(p) => MBody'
  BY QuietMembers
<1>2. CASE (\E b \in Bindings : BeginPass(p, b)) \/ ListResources(p) \/ LinkClaims(p) \/ ClearStatus(p)
           \/ List(p) \/ GetIdentity(p) \/ GetRegistry(p) \/ CreateRegistry(p) \/ CreateIdentity(p)
           \/ Allocate(p) \/ CreatePods(p)
  BY <1>1, <1>2, QuietEmpty, QuietAsking, QuietPods
<1>3. CASE GetLedger(p) \/ DraftMember(p) \/ CreateLedger(p) \/ SaveLedger(p) \/ EnsureKey(p) \/ Report(p)
  BY <1>3, MakingMembers
<1>4. CASE DeletePods(p) \/ DeleteKey(p) \/ Recheck(p) \/ DeleteLedger(p)
  BY <1>4, RemovingMembers
<1> QED
  BY <1>2, <1>3, <1>4 DEF PassStep

LEMMA PassKeys ==
  ASSUME NEW g, Inv(g), NEW p \in Operators, Solo(p), PassStep(p), KBody, world.procs = 1
  PROVE  KBody'
<1>1. Quiet(p) => KBody'
  BY QuietKeys
<1>2. CASE (\E b \in Bindings : BeginPass(p, b)) \/ ListResources(p) \/ LinkClaims(p) \/ ClearStatus(p)
           \/ List(p) \/ GetIdentity(p) \/ GetRegistry(p) \/ CreateRegistry(p) \/ CreateIdentity(p)
           \/ Allocate(p) \/ CreatePods(p)
  BY <1>1, <1>2, QuietEmpty, QuietAsking, QuietPods
<1>3. CASE GetLedger(p) \/ DraftMember(p) \/ CreateLedger(p) \/ SaveLedger(p) \/ EnsureKey(p) \/ Report(p)
  BY <1>3, MakingKeys
<1>4. CASE DeletePods(p) \/ DeleteKey(p) \/ Recheck(p) \/ DeleteLedger(p)
  BY <1>4, RemovingKeys
<1> QED
  BY <1>2, <1>3, <1>4 DEF PassStep

LEMMA PassFull ==
  ASSUME FullInv, NEW p \in Operators, RunPass(p)
  PROVE  (Alone /\ MInv /\ KInv)'
<1>1. PICK g : Inv(g)
  BY DEF FullInv, IInv
<1>2. /\ Alone /\ MInv /\ KInv /\ PassStep(p) /\ world' = world /\ world \in World
      /\ hurt' = hurt \cup (IF Raced THEN {"deletion"} ELSE {})
  BY <1>1 DEF FullInv, RunPass, Inv, Stored, Shapes
<1>3. Solo(p)
  BY <1>2, Acting, AloneSolo
<1>4. Alone'
  <2>1. \A q \in Operators : q # p => pc'[q] = pc[q]
    BY <1>1, <1>2, OnlyOneMoves
  <2> QED
    BY <1>2, <1>3, <2>1 DEF Alone, Solo
<1>5. ASSUME hurt' = {} PROVE MBody'
  <2>1. hurt = {} /\ ~Raced
    BY <1>2, <1>5
  <2>2. NotRaced /\ MBody
    BY <1>2, <2>1 DEF MInv, NotRaced, Raced
  <2> QED
    BY <1>1, <1>2, <1>3, <2>2, PassMembers
<1>6. ASSUME world'.procs = 1 PROVE KBody'
  BY <1>1, <1>2, <1>3, <1>6, PassKeys DEF KInv
<1> QED
  BY <1>4, <1>5, <1>6 DEF MInv, KInv

\* Pods end and snapshots change while passes wait.
LEMMA WaitingFull ==
  ASSUME FullInv, UNCHANGED <<ledger, secrets, drawn, pc, view, announced, hurt>>,
         pods' \subseteq pods, world'.procs = world.procs
  PROVE  (Alone /\ MInv /\ KInv)'
<1>1. Alone'
  BY DEF FullInv, Alone
<1>2. ASSUME MBody PROVE MBody'
  <2>1. \A b : Resources(b)' \subseteq Resources(b)
    BY DEF Resources
  <2>2. \A b : Erasing(b)' <=> Erasing(b)
    BY DEF Erasing
  <2>3. \A l, v : Inventory(l, v) => Inventory(l, v)'
    BY <2>1 DEF Inventory
  <2>4. \A p \in Operators : Inventory(pc[p], view[p]) => Inventory(pc[p], view[p])'
    <3> SUFFICES ASSUME NEW p \in Operators, Inventory(pc[p], view[p]) PROVE Inventory(pc[p], view[p])'
      OBVIOUS
    <3>1. PICK l, v : l = pc[p] /\ v = view[p]
      OBVIOUS
    <3>2. Inventory(l, v)'
      BY <2>3, <3>1
    <3> QED
      BY <3>1, <3>2
  <2> QED
    BY <1>2, <2>1, <2>2, <2>4 DEF MBody
<1>3. KBody => KBody'
  BY DEF KBody
<1> QED
  BY <1>1, <1>2, <1>3 DEF FullInv, MInv, KInv

LEMMA AbortFull ==
  ASSUME FullInv, Abort
  PROVE  (Alone /\ MInv /\ KInv)'
<1>1. PICK g : Inv(g)
  BY DEF FullInv, IInv
<1>2. PICK p \in Operators :
            /\ pc[p] # "idle" /\ world.aborts > 0 /\ world' = [world EXCEPT !.aborts = @ - 1]
            /\ hurt' = hurt \cup (IF pc[p] \in {"keys", "forget"} THEN {"deletion"} ELSE {})
            /\ GoTo(p, "idle", NoView) /\ UNCHANGED <<store, announced>>
  BY DEF Abort, Stop
<1>3. /\ Alone /\ MInv /\ KInv /\ world \in World /\ world'.procs = world.procs
      /\ UNCHANGED <<ledger, secrets, pods, drawn, announced>> /\ drawn' \in Nat /\ drawn <= drawn'
      /\ pc \in [Operators -> Labels]
  BY <1>1, <1>2 DEF FullInv, Inv, Passes, Stored, Shapes, World, store
<1>4. Solo(p)
  BY <1>2, <1>3, AloneSolo
<1>5. Alone'
  <2>1. \A q \in Operators : q # p => pc'[q] = pc[q]
    BY <1>2, <1>3 DEF GoTo
  <2> QED
    BY <1>3, <1>4, <2>1 DEF Alone, Solo
<1>6. ASSUME hurt' = {} PROVE MBody'
  <2>1. hurt = {} /\ ~Removing(pc[p])
    BY <1>2, <1>6 DEF Removing
  <2>2. MBody
    BY <1>3, <2>1 DEF MInv
  <2>3. Quiet(p)
    BY <1>2, <1>3, <2>1, StopFollows, QuietMove
  <2> QED
    BY <1>1, <1>3, <1>4, <2>2, <2>3, QuietMembers
<1>7. ASSUME world'.procs = 1 PROVE KBody'
  <2>1. world.procs = 1 /\ KBody
    BY <1>3, <1>7 DEF KInv
  <2>2. Own(drawn', ledger', announced, "idle", NoView)
    BY NoViewType, Nothing, NobodyOwns DEF Own, Making, Asking
  <2>3. \A b \in Bindings : ledger'[b] = ledger[b] \/ ledger'[b] = << >>
    BY <1>3
  <2> QED
    BY <1>1, <1>2, <1>3, <1>4, <2>1, <2>2, <2>3, LedgersOwn, KeysStep
<1> QED
  BY <1>5, <1>6, <1>7 DEF MInv, KInv

LEMMA LoseFull ==
  ASSUME FullInv, Lose
  PROVE  (Alone /\ MInv /\ KInv)'
<1>1. PICK g : Inv(g)
  BY DEF FullInv, IInv
<1>2. /\ Alone /\ KInv /\ world \in World /\ hurt' # {}
      /\ world.damage > 0 /\ world' = [world EXCEPT !.damage = @ - 1]
      /\ UNCHANGED <<pods, spec, status, drawn, pc, view, announced>>
  BY <1>1 DEF FullInv, Inv, Stored, Shapes, Lose
<1>3. world'.procs = world.procs /\ drawn' \in Nat /\ drawn <= drawn' /\ drawn' = drawn
  BY <1>1, <1>2, Untouched DEF World
<1>4. \A b \in Bindings : ledger'[b] = ledger[b] \/ ledger'[b] = << >>
  BY <1>1, Untouched DEF Lose
<1>5. ASSUME KBody PROVE KBody'
  <2>1. \A b \in Bindings : /\ Drawn(drawn', ledger'[b]) /\ Apiece(ledger', b, ledger'[b])
                            /\ Faithful(announced, ledger'[b])
    BY <1>1, <1>3, <1>4, <1>5, LedgersOwn
  <2>2. ASSUME NEW p \in Operators PROVE Own(drawn, ledger', announced, pc[p], view[p])
    <3>1. Own(drawn, ledger, announced, pc[p], view[p]) /\ view[p].b \in Bindings
      BY <1>1, <1>5, Holding DEF KBody
    <3>2. \A c \in Bindings : \A k \in DOMAIN ledger'[c] : k \in DOMAIN ledger[c] /\ ledger'[c][k] = ledger[c][k]
      BY <1>4, Nothing
    <3>3. Apiece(ledger, view[p].b, view[p].mem) => Apiece(ledger', view[p].b, view[p].mem)
      BY <3>2 DEF Apiece
    <3> QED
      BY <1>4, <3>1, <3>3 DEF Own
  <2> QED
    BY <1>2, <1>3, <1>5, <2>1, <2>2 DEF KBody
<1> QED
  BY <1>2, <1>3, <1>5 DEF Alone, MInv, KInv

LEMMA InitFull == RegistryInit => FullInv
<1> SUFFICES ASSUME RegistryInit PROVE FullInv
  OBVIOUS
<1>1. Alone
  BY DEF RegistryInit, Alone
<1>2. MBody
  <2>1. \A b : Resources(b) = {}
    BY DEF RegistryInit, Resources
  <2>2. \A b \in Bindings : Keyed(secrets, b, ledger[b])
    BY Nothing DEF RegistryInit, Keyed
  <2>3. \A p \in Operators : Backed(secrets, ledger, pc[p], view[p]) /\ Inventory(pc[p], view[p])
    BY DEF RegistryInit, Backed, Making, Recorded, Asking, Inventory
  <2> QED
    BY <2>1, <2>2, <2>3 DEF MBody
<1>3. KBody
  <2>1. /\ announced = {} /\ \A b \in Bindings : DOMAIN ledger[b] = {}
        /\ \A p \in Operators : pc[p] = "idle" /\ DOMAIN view[p].mem = {}
    BY NoViewType, Nothing DEF RegistryInit
  <2>2. \A p \in Operators : Own(drawn, ledger, announced, pc[p], view[p])
    BY <2>1, NobodyOwns DEF Own, Making, Asking
  <2> QED
    BY <2>1, <2>2, NobodyOwns DEF KBody
<1> QED
  BY <1>1, <1>2, <1>3, InitIInv DEF FullInv, MInv, KInv

LEMMA NextFull == FullInv /\ [RegistryNext]_registryVars => FullInv'
<1> SUFFICES ASSUME FullInv, [RegistryNext]_registryVars PROVE FullInv'
  OBVIOUS
<1>1. IInv'
  BY NextIInv DEF FullInv
<1>2. world \in World
  BY DEF FullInv, IInv, Inv, Stored, Shapes
<1>3. CASE \E p \in Operators : RunPass(p)
  BY <1>1, <1>3, PassFull DEF FullInv
<1>4. CASE Terminated
  <2>1. /\ UNCHANGED <<ledger, secrets, drawn, pc, view, announced, hurt>>
        /\ pods' \subseteq pods /\ world'.procs = world.procs
    BY <1>4 DEF Terminated
  <2> QED
    BY <1>1, <2>1, WaitingFull DEF FullInv
<1>5. CASE ChangeSpec
  <2>1. /\ UNCHANGED <<ledger, secrets, drawn, pc, view, announced, hurt>>
        /\ pods' \subseteq pods /\ world'.procs = world.procs
    BY <1>2, <1>5 DEF ChangeSpec, World
  <2> QED
    BY <1>1, <2>1, WaitingFull DEF FullInv
<1>6. CASE Abort
  BY <1>1, <1>6, AbortFull DEF FullInv
<1>7. CASE Lose
  BY <1>1, <1>7, LoseFull DEF FullInv
<1>8. CASE UNCHANGED registryVars
  <2>1. /\ UNCHANGED <<ledger, secrets, drawn, pc, view, announced, hurt>>
        /\ pods' \subseteq pods /\ world'.procs = world.procs
    BY <1>8 DEF registryVars, store
  <2> QED
    BY <1>1, <2>1, WaitingFull DEF FullInv
<1> QED
  BY <1>3, <1>4, <1>5, <1>6, <1>7, <1>8 DEF RegistryNext

(***************************************************************************)
(* ensureKey: with one process, an announced identity keeps the public key *)
(* it was announced with, although keys go before the ledger and objects   *)
(* are destroyed.                                                          *)
(***************************************************************************)
THEOREM AnnouncedKey == RegistrySpec => []KeyStable
<1>1. FullInv => KeyStable
  BY DEF FullInv, KInv, KBody, KeyStable
<1> QED
  BY <1>1, InitFull, NextFull, PTL DEF RegistrySpec

-----------------------------------------------------------------------------
(* What a pass has read may be old, but only in one way *)

\* Without damage: what the pass has seen of members was registered, and a pass
\* with nobody beside it holds the identity there is.
Told(l, v) ==
    /\ v.evidence \/ v.status # << >> => identity # 0
    /\ \A r \in v.receipts \cup Receipts(v.b, v.status) : Retains(registry, r)
    /\ l = "registry" => (v.evidence => v.identity # 0) /\ (world.procs <= 1 => v.identity = identity)

\* Likewise for the ledger it has not found.
Missed(l, v) == l = "resources" /\ world.procs <= 1 => ledger[v.b] = << >>

ReadInv == /\ "damage" \notin hurt => \A p \in Operators : Told(pc[p], view[p])
           /\ hurt = {} => \A p \in Operators : Missed(pc[p], view[p])

\* The registry and its identity only grow.
Grown == /\ \A r : Retains(registry, r) => Retains(registry, r)'
         /\ identity # 0 => identity' = identity

\* A copy that has seen nothing more.
Carries(v, w) ==
    /\ w.evidence => v.evidence
    /\ w.receipts \subseteq v.receipts
    /\ w.status = << >> \/ (w.status = v.status /\ w.b = v.b)

\* A registry is created where there was none, and a claim is added to the one
\* that was read (registry.go:182, 288).
LEMMA RegistryGrows ==
  ASSUME NEW g, Inv(g), NEW p \in Operators, PassStep(p)
  PROVE  Grown
<1>1. CASE CreateRegistry(p) /\ registry.uid = 0
  <2>1. registry = NoRegistry
    BY <1>1 DEF Inv, Stored, Registered, UIDs
  <2> QED
    BY <1>1, <2>1, NoViewType DEF Grown, Retains, CreateRegistry
<1>2. CASE Allocate(p)
  <2>1. identity' = identity
    BY <1>2 DEF Allocate
  <2>2. CASE registry' = registry
    BY <2>1, <2>2 DEF Grown, Retains
  <2>3. CASE registry' # registry
    <3> DEFINE v == view[p]  t == Target(v)
    <3>1. registry = v.reg /\ registry' = Extended(v.reg, t)
      BY <1>2, <2>3, Zenon DEF Allocate, RegistryUnchanged
    <3>2. registry \in Reg
      BY DEF Inv, Stored, Shapes
    <3> HIDE DEF v, t
    <3>3. PICK x : registry' = registry \/ registry' = [registry EXCEPT !.addr = Put(@, t.claim, x)]
                                       \/ registry' = [registry EXCEPT !.port = Put(@, t.claim, x)]
      BY <3>1 DEF Extended
    <3>4. PICK addr, port : addr = registry.addr /\ port = registry.port
      OBVIOUS
    <3>5. \/ t.port /\ t.claim \notin DOMAIN port
          \/ ~t.port /\ t.claim \notin DOMAIN addr
      BY <2>3, <3>1, <3>4 DEF Extended
    <3>6. /\ \A c \in DOMAIN addr : c \in DOMAIN registry'.addr /\ registry'.addr[c] = addr[c]
          /\ \A c \in DOMAIN port : c \in DOMAIN registry'.port /\ registry'.port[c] = port[c]
      <4>1. CASE t.port /\ t.claim \notin DOMAIN port
        <5>1. PICK y : registry' = [registry EXCEPT !.port = Put(@, t.claim, y)]
          BY <2>3, <3>1, <4>1 DEF Extended
        <5>2. registry'.addr = addr /\ registry'.port = Put(port, t.claim, y)
          BY <3>2, <3>4, <5>1 DEF Reg
        <5> QED
          BY <4>1, <5>2 DEF Put
      <4>2. CASE ~t.port /\ t.claim \notin DOMAIN addr
        <5>1. PICK y : registry' = [registry EXCEPT !.addr = Put(@, t.claim, y)]
          BY <2>3, <3>1, <4>2 DEF Extended
        <5>2. registry'.port = port /\ registry'.addr = Put(addr, t.claim, y)
          BY <3>2, <3>4, <5>1 DEF Reg
        <5> QED
          BY <4>2, <5>2 DEF Put
      <4> QED
        BY <3>5, <4>1, <4>2
    <3> QED
      BY <2>1, <3>4, <3>6 DEF Grown, Retains
  <2> QED
    BY <2>2, <2>3
<1>3. CASE CreateIdentity(p)
  BY <1>3 DEF CreateIdentity, Grown, Retains
<1>4. CASE UNCHANGED <<registry, identity>>
  BY <1>4 DEF Grown, Retains
<1>5. CASE CreateRegistry(p) /\ registry.uid # 0
  BY <1>4, <1>5 DEF CreateRegistry
<1> QED
  BY <1>1, <1>2, <1>3, <1>4, <1>5
     DEF PassStep, BeginPass, List, ListLedgers, ListBindings, ListGatewayPods, ListKeys, Lists, GetIdentity,
         GetRegistry, GetLedger, ListResources, DraftMember, CreateLedger, EnsureKey, LinkClaims, SaveLedger,
         CreatePods, Report, DeletePods, DeleteKey, Recheck, DeleteLedger, ClearStatus, store

\* A pass that ends has seen nothing.
LEMMA NothingSeen == ~NoView.evidence /\ NoView.receipts = {} /\ NoView.status = << >>
  BY DEF NoView

\* Asking on, concluding and writing: no more is seen.
LEMMA Concludes ==
  ASSUME NEW p \in Operators, NEW v \in View, NEW u \in View, Carries(v, u),
         Stop(p) \/ Resume(p, u) \/ Examine(p, u) \/ Conflict(p, u)
  PROVE  \E k, w : GoTo(p, k, w) /\ Carries(v, w) /\ k \notin {"registry", "resources"}
<1>1. ASSUME Stop(p) PROVE \E k, w : GoTo(p, k, w) /\ Carries(v, w) /\ k \notin {"registry", "resources"}
  BY <1>1, NothingSeen DEF Stop, Carries
<1>2. ASSUME Resume(p, u) PROVE \E k, w : GoTo(p, k, w) /\ Carries(v, w) /\ k \notin {"registry", "resources"}
  <2>1. PICK k, w : /\ k = (IF u.goal = "validate" THEN "ledger" ELSE "claim") /\ w = Returned(u)
                    /\ GoTo(p, k, w)
    BY <1>2 DEF Resume
  <2>2. ~w.evidence /\ w.receipts = {} /\ w.status = u.status /\ w.b = u.b
    BY <2>1 DEF Returned, View
  <2> QED
    BY <2>1, <2>2 DEF Carries
<1>3. ASSUME Conflict(p, u) PROVE \E k, w : GoTo(p, k, w) /\ Carries(v, w) /\ k \notin {"registry", "resources"}
  <2>1. PICK w : w = [u EXCEPT !.tries = @ + 1]
    OBVIOUS
  <2>2. w.evidence = u.evidence /\ w.receipts = u.receipts /\ w.status = u.status /\ w.b = u.b
    BY <2>1 DEF View
  <2>3. GoTo(p, "list", w) \/ Stop(p)
    BY <1>3, <2>1 DEF Conflict
  <2> QED
    BY <1>1, <2>2, <2>3 DEF Carries
<1>4. ASSUME Examine(p, u) PROVE GoTo(p, "anchor", u) \/ Resume(p, u) \/ Stop(p)
  BY <1>4 DEF Examine
<1> QED
  BY <1>1, <1>2, <1>3, <1>4

\* What a pass may learn: more of what is stored.
Learns(v, w) ==
    /\ w.evidence \/ w.status # << >> => \/ v.evidence \/ v.status # << >> \/ pods # {} \/ secrets # {}
                                         \/ \E b \in Bindings : ledger[b] # << >> \/ status[b] # << >>
    /\ w.receipts \cup Receipts(w.b, w.status)
            \subseteq v.receipts \cup Receipts(v.b, v.status) \cup LedgerReceipts \cup StatusReceipts

LEMMA CarriesLearns ==
  ASSUME NEW v, NEW w, Carries(v, w)
  PROVE  Learns(v, w)
<1>1. Receipts(w.b, << >>) = {}
  BY Nothing DEF Receipts
<1>2. Receipts(w.b, w.status) \subseteq Receipts(v.b, v.status)
  BY <1>1 DEF Carries
<1> QED
  BY <1>2 DEF Carries, Learns

\* A pass comes to the registry with the identity it has just read, and to the
\* resources with a ledger it has just not found (registry.go:168, reconciler.go:405).
Arrives(k, w) == /\ k = "registry" => w.identity = identity /\ identity' = identity
                 /\ k = "resources" => ledger[w.b] = << >> /\ ledger' = ledger

LEMMA Moving ==
  ASSUME NEW g, Inv(g), NEW p \in Operators, PassStep(p)
  PROVE  \E k, w : GoTo(p, k, w) /\ Learns(view[p], w) /\ Arrives(k, w)
<1>1. PICK v : v = view[p]
  OBVIOUS
<1>2. v \in View /\ v.reg \in Reg /\ v.b \in Bindings /\ v.mem \in Members
  BY <1>1, Holding
<1>3. \A k, w : Carries(v, w) /\ k \notin {"registry", "resources"} => Learns(view[p], w) /\ Arrives(k, w)
  BY <1>1, CarriesLearns DEF Arrives
<1>4. \A w : w.evidence = v.evidence /\ w.receipts = v.receipts /\ w.status = v.status /\ w.b = v.b => Carries(v, w)
  BY DEF Carries
<1>5. Carries(v, v) /\ Carries(v, NoView)
  BY NothingSeen DEF Carries
<1>6. Stop(p) => \E k, w : GoTo(p, k, w) /\ Learns(view[p], w) /\ Arrives(k, w)
  BY <1>3, <1>5 DEF Stop
<1>7. ASSUME NEW k \in {"create", "ledger", "work", "list", "pods", "report", "keys", "draft", "forget", "gone"},
             NEW w, GoTo(p, k, w), w.evidence = v.evidence, w.receipts = v.receipts, w.status = v.status, w.b = v.b
      PROVE  \E l, x : GoTo(p, l, x) /\ Learns(view[p], x) /\ Arrives(l, x)
  BY <1>3, <1>4, <1>7
<1>8. ASSUME NEW u \in View, Carries(v, u), Resume(p, u) \/ Examine(p, u) \/ Conflict(p, u)
      PROVE  \E k, w : GoTo(p, k, w) /\ Learns(view[p], w) /\ Arrives(k, w)
  BY <1>2, <1>3, <1>8, Concludes
<1>9. ASSUME NEW b \in Bindings, BeginPass(p, b)
      PROVE  \E k, w : GoTo(p, k, w) /\ Learns(view[p], w) /\ Arrives(k, w)
  <2>1. PICK k, w : /\ k \in {"delete", "list"} /\ GoTo(p, k, w)
                    /\ w = [NoView EXCEPT !.b = b, !.spec = spec[b], !.status = status[b]]
    BY <1>9 DEF BeginPass
  <2>2. ~w.evidence /\ w.receipts = {} /\ w.status = status[b] /\ w.b = b
    BY <2>1, NoViewType, NothingSeen DEF View
  <2>3. Receipts(w.b, w.status) \subseteq StatusReceipts
    BY <1>9, <2>2 DEF StatusReceipts
  <2>4. Learns(view[p], w)
    BY <1>9, <2>2, <2>3 DEF Learns
  <2> QED
    BY <2>1, <2>4 DEF Arrives
<1>10. CASE List(p)
  <2>1. PICK k, w :
            /\ k \in Asking /\ GoTo(p, k, w) /\ w.mem = v.mem /\ w.b = v.b /\ w.goal = v.goal
            /\ w.spec = v.spec /\ w.status = v.status /\ k \notin {"registry", "resources"}
            /\ w.evidence => \/ v.evidence \/ v.status # << >> \/ pods # {} \/ secrets # {}
                             \/ \E b \in Bindings : ledger[b] # << >> \/ status[b] # << >>
            /\ w.receipts \subseteq v.receipts \cup LedgerReceipts \cup StatusReceipts \cup Receipts(v.b, v.status)
    BY <1>1, <1>2, <1>10, Listing
  <2> QED
    BY <1>1, <2>1 DEF Learns, Arrives
<1>11. CASE GetIdentity(p)
  <2>1. PICK w : w = [v EXCEPT !.identity = identity]
    OBVIOUS
  <2>2. GoTo(p, "registry", w) /\ identity' = identity
    BY <1>1, <1>11, <2>1 DEF GetIdentity, store
  <2>3. w.evidence = v.evidence /\ w.receipts = v.receipts /\ w.status = v.status /\ w.b = v.b /\ w.identity = identity
    BY <1>2, <2>1 DEF View
  <2> QED
    BY <1>1, <1>4, <2>2, <2>3, CarriesLearns DEF Arrives
<1>12. CASE GetRegistry(p)
  <2>1. PICK u : u = [v EXCEPT !.reg = registry]
    OBVIOUS
  <2>2. u \in View /\ Carries(v, u)
    BY <1>2, <1>4, <2>1 DEF View, Inv, Stored, Shapes
  <2>3. Examine(p, u) \/ Stop(p) \/ Resume(p, v) \/ GoTo(p, "create", v)
    BY <1>1, <1>12, <2>1 DEF GetRegistry
  <2> QED
    BY <1>2, <1>5, <1>6, <1>7, <1>8, <2>2, <2>3
<1>13. CASE CreateRegistry(p)
  <2>1. PICK r, u : r = [NoRegistry EXCEPT !.uid = drawn + 1] /\ u = [v EXCEPT !.reg = r]
    OBVIOUS
  <2>2. r \in Reg
    BY <2>1, NoViewType, Untouched DEF Reg
  <2>3. u \in View /\ Carries(v, u)
    BY <1>2, <1>4, <2>1, <2>2 DEF View
  <2>4. Examine(p, u) \/ Conflict(p, v)
    BY <1>1, <1>13, <2>1 DEF CreateRegistry
  <2> QED
    BY <1>2, <1>5, <1>8, <2>3, <2>4
<1>14. CASE CreateIdentity(p)
  <2>1. Resume(p, v) \/ Stop(p) \/ Conflict(p, v)
    BY <1>1, <1>14 DEF CreateIdentity
  <2> QED
    BY <1>2, <1>5, <1>6, <1>8, <2>1
<1>15. CASE Allocate(p)
  <2>1. PICK t, r, back, w, u :
            /\ t = Target(v) /\ r = Extended(v.reg, t) /\ w = Given(v, t, r)
            /\ back = (IF t.claim.peer = Health THEN "draft" ELSE "work") /\ u = [v EXCEPT !.reg = NoRegistry]
    OBVIOUS
  <2>2. Stop(p) \/ GoTo(p, back, w) \/ Conflict(p, u)
    BY <1>1, <1>15, <2>1, Zenon DEF Allocate, Given
  <2>3. u \in View /\ Carries(v, u)
    BY <1>2, <1>4, <2>1, NoViewType DEF View
  <2>4. PICK m : Filled(v, t, r) = [v EXCEPT !.mem = m]
    BY <1>2 DEF Filled, View
  <2>5. w.evidence = v.evidence /\ w.receipts = v.receipts /\ w.status = v.status /\ w.b = v.b
    <3>1. w = [[v EXCEPT !.mem = m] EXCEPT !.reg = NoRegistry, !.tries = 0]
      BY <2>1, <2>4 DEF Given
    <3> QED
      BY <1>2, <3>1 DEF View
  <2>6. back \in {"draft", "work"}
    BY <2>1
  <2> QED
    BY <1>6, <1>7, <1>8, <2>2, <2>3, <2>5, <2>6
<1>16. CASE GetLedger(p)
  <2>1. PICK k, w : w = [v EXCEPT !.mem = ledger[v.b]] /\ k = IF ledger[v.b] = << >> THEN "resources" ELSE "work"
    OBVIOUS
  <2>2. GoTo(p, k, w) /\ ledger' = ledger
    BY <1>1, <1>16, <2>1 DEF GetLedger, store
  <2>3. w.evidence = v.evidence /\ w.receipts = v.receipts /\ w.status = v.status /\ w.b = v.b
    BY <1>2, <2>1 DEF View
  <2>4. Learns(view[p], w)
    BY <1>1, <1>4, <2>3, CarriesLearns
  <2>5. Arrives(k, w)
    BY <2>1, <2>2, <2>3 DEF Arrives
  <2> QED
    BY <2>2, <2>4, <2>5
<1>17. CASE ListResources(p) \/ LinkClaims(p)
  <2>1. PICK w : w = [v EXCEPT !.goal = "claim"]
    OBVIOUS
  <2>2. w.evidence = v.evidence /\ w.receipts = v.receipts /\ w.status = v.status /\ w.b = v.b
    BY <1>2, <2>1 DEF View
  <2>3. Stop(p) \/ GoTo(p, "draft", w) \/ GoTo(p, "list", w)
    BY <1>1, <1>17, <2>1 DEF ListResources, LinkClaims
  <2> QED
    BY <1>6, <1>7, <2>2, <2>3
<1>18. CASE DraftMember(p)
  <2>1. PICK m, w : w = [v EXCEPT !.mem = m] /\ GoTo(p, "list", w)
    BY <1>1, <1>18 DEF DraftMember
  <2>2. w.evidence = v.evidence /\ w.receipts = v.receipts /\ w.status = v.status /\ w.b = v.b
    BY <1>2, <2>1 DEF View
  <2> QED
    BY <1>7, <2>1, <2>2
<1>19. CASE EnsureKey(p)
  <2>1. PICK o, old, key : /\ o = First(Unfinished(v)) /\ old = SecretOf(v, o)
                           /\ key = IF old = {} THEN drawn + 1 ELSE (CHOOSE s \in old : TRUE).key
    OBVIOUS
  <2>2. PICK w : w = [v EXCEPT !.mem[o].key = key, !.keyed = @ \cup {o}]
    OBVIOUS
  <2>3. GoTo(p, "work", w) \/ Stop(p)
    BY <1>1, <1>19, <2>2, <2>1 DEF EnsureKey
  <2>4. w.evidence = v.evidence /\ w.receipts = v.receipts /\ w.status = v.status /\ w.b = v.b
    BY <1>2, <2>2 DEF View
  <2> QED
    BY <1>6, <1>7, <2>4, <2>3
<1>20. CASE CreateLedger(p) \/ SaveLedger(p) \/ CreatePods(p) \/ Report(p)
  <2>1. \/ Stop(p)
        \/ \E k \in {"ledger", "work", "pods", "report"} : GoTo(p, k, v)
    BY <1>1, <1>20 DEF CreateLedger, SaveLedger, CreatePods, Report
  <2> QED
    BY <1>6, <1>7, <2>1
<1>21. CASE DeletePods(p) \/ DeleteKey(p)
  <2>1. PICK d, w : w = [v EXCEPT !.doomed = d] /\ (Stop(p) \/ GoTo(p, "keys", w))
    BY <1>1, <1>21 DEF DeletePods, DeleteKey
  <2>2. w.evidence = v.evidence /\ w.receipts = v.receipts /\ w.status = v.status /\ w.b = v.b
    BY <1>2, <2>1 DEF View
  <2> QED
    BY <1>6, <1>7, <2>1, <2>2
<1>22. CASE Recheck(p) \/ DeleteLedger(p) \/ ClearStatus(p)
  <2>1. PICK m, w : w = [v EXCEPT !.mem = m] /\ (Stop(p) \/ GoTo(p, "forget", w) \/ GoTo(p, "gone", v))
    BY <1>1, <1>22 DEF Recheck, DeleteLedger, ClearStatus
  <2>2. w.evidence = v.evidence /\ w.receipts = v.receipts /\ w.status = v.status /\ w.b = v.b
    BY <1>2, <2>1 DEF View
  <2> QED
    BY <1>6, <1>7, <2>1, <2>2
<1> QED
  BY <1>9, <1>10, <1>11, <1>12, <1>13, <1>14, <1>15, <1>16, <1>17, <1>18, <1>19, <1>20, <1>21, <1>22 DEF PassStep

\* What a step of p makes it, and leaves the others, to conclude.
LEMMA PassReads ==
  ASSUME FullInv, ReadInv, NEW p \in Operators, RunPass(p)
  PROVE  ReadInv'
<1>1. PICK g : Inv(g)
  BY DEF FullInv, IInv
<1>2. /\ Alone /\ PassStep(p) /\ world' = world /\ world \in World /\ hurt \subseteq hurt'
      /\ pc \in [Operators -> Labels] /\ view \in [Operators -> View]
  BY <1>1 DEF FullInv, RunPass, Inv, Passes, Stored, Shapes
<1>3. Solo(p)
  BY <1>2, Acting, AloneSolo
<1>4. PICK k, w : GoTo(p, k, w) /\ Learns(view[p], w) /\ Arrives(k, w)
  BY <1>1, <1>2, Moving
<1>5. pc'[p] = k /\ view'[p] = w /\ \A q \in Operators : q # p => pc'[q] = pc[q] /\ view'[q] = view[q]
  BY <1>2, <1>4 DEF GoTo
<1>6. ASSUME "damage" \notin hurt' PROVE \A q \in Operators : Told(pc[q], view[q])'
  <2>1. Grown /\ RegistryIntact /\ \A q \in Operators : Told(pc[q], view[q])
    BY <1>1, <1>2, <1>6, RegistryGrows, Intact DEF ReadInv
  <2>2. Told(pc[p], view[p])
    BY <2>1
  <2>3. w.evidence \/ w.status # << >> => identity # 0
    BY <1>4, <2>1, <2>2 DEF Learns, Told, RegistryIntact
  <2>4. \A r \in w.receipts \cup Receipts(w.b, w.status) : Retains(registry, r)
    BY <1>4, <2>1, <2>2 DEF Learns, Told, RegistryIntact
  <2>5. Told(k, w)'
    BY <1>2, <1>4, <2>1, <2>3, <2>4 DEF Told, Grown, Arrives
  <2>6. ASSUME NEW q \in Operators, q # p PROVE Told(pc[q], view[q])'
    <3>1. PICK l, v : l = pc[q] /\ v = view[q]
      OBVIOUS
    <3>2. Told(l, v) /\ pc'[q] = l /\ view'[q] = v
      BY <1>5, <2>1, <2>6, <3>1
    <3>3. world'.procs <= 1 => l # "registry"
      BY <1>2, <1>3, <2>6, <3>1 DEF Solo
    <3>4. Told(l, v)'
      BY <1>2, <2>1, <3>2, <3>3 DEF Told, Grown
    <3> QED
      BY <3>2, <3>4
  <2>7. Told(pc[p], view[p])'
    BY <1>5, <2>5
  <2> QED
    BY <2>6, <2>7
<1>7. ASSUME hurt' = {} PROVE \A q \in Operators : Missed(pc[q], view[q])'
  <2>1. Missed(k, w)'
    BY <1>4 DEF Missed, Arrives
  <2>2. ASSUME NEW q \in Operators, q # p PROVE Missed(pc[q], view[q])'
    BY <1>2, <1>3, <1>5, <2>2 DEF Missed, Solo
  <2>3. Missed(pc[p], view[p])'
    BY <1>5, <2>1
  <2> QED
    BY <2>2, <2>3
<1> QED
  BY <1>6, <1>7 DEF ReadInv

\* Crashes, snapshots and Pods that end tell a pass nothing.
LEMMA WaitingReads ==
  ASSUME FullInv, ReadInv, UNCHANGED <<registry, identity, ledger>>, world'.procs = world.procs, hurt \subseteq hurt',
         \A q \in Operators : (pc'[q] = pc[q] /\ view'[q] = view[q]) \/ (pc'[q] = "idle" /\ view'[q] = NoView)
  PROVE  ReadInv'
<1>1. ASSUME NEW q \in Operators, Told(pc[q], view[q]) PROVE Told(pc[q], view[q])'
  <2>1. PICK l, v : l = pc'[q] /\ v = view'[q]
    OBVIOUS
  <2>2. Told(l, v)
    <3>1. Told("idle", NoView)
      <4>1. Receipts(NoView.b, << >>) = {}
        BY Nothing DEF Receipts
      <4> QED
        BY <4>1, NothingSeen DEF Told
    <3> QED
      BY <1>1, <2>1, <3>1
  <2>3. Told(l, v)'
    BY <2>2 DEF Told, Retains
  <2> QED
    BY <2>1, <2>3
<1>2. ASSUME NEW q \in Operators, Missed(pc[q], view[q]) PROVE Missed(pc[q], view[q])'
  BY <1>2 DEF Missed
<1> QED
  BY <1>1, <1>2 DEF ReadInv

LEMMA InitReads == RegistryInit => ReadInv
<1> SUFFICES ASSUME RegistryInit, NEW p \in Operators PROVE Told(pc[p], view[p]) /\ Missed(pc[p], view[p])
  BY DEF ReadInv
<1>1. pc[p] = "idle" /\ view[p] = NoView
  BY DEF RegistryInit
<1>2. Receipts(NoView.b, << >>) = {}
  BY Nothing DEF Receipts
<1> QED
  BY <1>1, <1>2, NothingSeen DEF Told, Missed

LEMMA NextReads == FullInv /\ ReadInv /\ [RegistryNext]_registryVars => ReadInv'
<1> SUFFICES ASSUME FullInv, ReadInv, [RegistryNext]_registryVars PROVE ReadInv'
  OBVIOUS
<1>1. world \in World /\ pc \in [Operators -> Labels] /\ view \in [Operators -> View]
  BY DEF FullInv, IInv, Inv, Passes, Stored, Shapes
<1>2. CASE \E p \in Operators : RunPass(p)
  BY <1>2, PassReads
<1>3. CASE Terminated \/ ChangeSpec
  <2>1. UNCHANGED <<registry, identity, ledger, pc, view, hurt>> /\ world'.procs = world.procs
    BY <1>1, <1>3 DEF Terminated, ChangeSpec, World
  <2> QED
    BY <2>1, WaitingReads
<1>4. CASE Abort
  <2>1. /\ UNCHANGED <<registry, identity, ledger>> /\ world'.procs = world.procs /\ hurt \subseteq hurt'
        /\ \E p \in Operators : GoTo(p, "idle", NoView)
    BY <1>1, <1>4 DEF Abort, Stop, store, World
  <2> QED
    BY <1>1, <2>1, WaitingReads DEF GoTo
<1>5. CASE Lose
  BY <1>5 DEF Lose, ReadInv
<1>6. CASE UNCHANGED registryVars
  <2>1. UNCHANGED <<registry, identity, ledger, pc, view, hurt>> /\ world'.procs = world.procs
    BY <1>6 DEF registryVars, store
  <2> QED
    BY <2>1, WaitingReads
<1> QED
  BY <1>2, <1>3, <1>4, <1>5, <1>6 DEF RegistryNext

\* What a pass is about to conclude, from what it and the invariants hold.
LEMMA Answers ==
  ASSUME FullInv, ReadInv, NEW p \in Operators
  PROVE  /\ "damage" \notin hurt =>
                /\ Finding(p) \notin {"RegistryLost", "IdentityChanged", "ReceiptMismatch"}
                /\ Finding(p) = "IdentityLost" => world.procs > 1 /\ identity = registry.uid
         /\ hurt = {} =>
                /\ Finding(p) # "KeyLost"
                /\ Finding(p) = "LedgerLost" => world.procs > 1 /\ ledger[view[p].b] # << >>
<1>1. PICK g : Inv(g)
  BY DEF FullInv, IInv
<1>2. PICK v : v = view[p]
  OBVIOUS
<1>3. /\ v \in View /\ v.b \in Bindings /\ Placed(g, pc[p], v) /\ Seen(pc[p], v) /\ v.identity \in Nat
      /\ world.procs \in Nat /\ registry.uid \in Nat /\ identity \in Nat
  BY <1>1, <1>2, Holding DEF Inv, Stored, Shapes, World, Reg
<1>4. CASE pc[p] = "registry"
  <2>1. Finding(p) = IF registry.uid # 0 THEN Diagnosis(v, registry)
                     ELSE IF v.identity # 0 \/ v.evidence THEN "RegistryLost" ELSE "none"
    BY <1>2, <1>4 DEF Finding
  <2>2. Finding(p) \notin {"KeyLost", "LedgerLost"}
    BY <2>1 DEF Diagnosis
  <2>3. ASSUME "damage" \notin hurt
        PROVE  /\ Finding(p) \notin {"RegistryLost", "IdentityChanged", "ReceiptMismatch"}
               /\ Finding(p) = "IdentityLost" => world.procs > 1 /\ identity = registry.uid
    <3>1. RegistryIntact /\ "identity" \notin hurt
      BY <1>1, <2>3, Intact DEF Inv, Stored, Registered, Damaged
    <3>2. Told("registry", v)
      BY <1>2, <1>4, <2>3 DEF ReadInv
    <3>3. v.identity # 0 => v.identity = identity /\ identity = registry.uid
      BY <1>3, <3>1 DEF Seen, RegistryIntact
    <3>4. /\ v.evidence => v.identity # 0
          /\ \A r \in v.receipts : Retains(registry, r)
          /\ world.procs <= 1 => v.identity = identity
      BY <3>2 DEF Told
    <3>5. CASE registry.uid = 0
      BY <2>1, <3>3, <3>4, <3>5
    <3>6. CASE registry.uid # 0 /\ v.identity # 0
      BY <2>1, <3>3, <3>4, <3>6 DEF Diagnosis
    <3>7. CASE registry.uid # 0 /\ v.identity = 0
      <4>1. Finding(p) = IF registry.addr # << >> THEN "IdentityLost" ELSE "anchor"
        BY <2>1, <3>4, <3>7 DEF Diagnosis
      <4>2. registry.addr # << >> => identity # 0 /\ identity = registry.uid
        BY <3>1 DEF RegistryIntact
      <4>3. registry.addr # << >> => world.procs > 1
        BY <1>3, <3>4, <3>7, <4>2
      <4> QED
        BY <4>1, <4>2, <4>3
    <3> QED
      BY <3>5, <3>6, <3>7
  <2> QED
    BY <2>2, <2>3
<1>5. CASE pc[p] = "resources"
  <2>1. Finding(p) = IF ledger[v.b] # << >> \/ Resources(v.b) # {} THEN "LedgerLost" ELSE "none"
    BY <1>2, <1>5 DEF Finding
  <2>2. ASSUME hurt = {}, Finding(p) = "LedgerLost" PROVE world.procs > 1 /\ ledger[v.b] # << >>
    <3>1. MBody /\ Missed("resources", v)
      BY <1>2, <1>5, <2>2 DEF FullInv, MInv, ReadInv
    <3>2. ledger[v.b] # << >>
      BY <1>3, <2>1, <2>2, <3>1 DEF MBody
    <3> QED
      BY <1>3, <3>1, <3>2 DEF Missed
  <2> QED
    BY <1>2, <2>1, <2>2
<1>6. CASE pc[p] = "work"
  <2>1. Finding(p) = IF KeyLost(v) THEN "KeyLost" ELSE "none"
    BY <1>2, <1>6 DEF Finding
  <2>2. ASSUME hurt = {}, KeyLost(v) PROVE FALSE
    <3>1. PICK n : n = First(Unfinished(v))
      OBVIOUS
    <3>2. Keyed(secrets, v.b, v.mem) /\ DOMAIN v.mem = Nodes
      BY <1>2, <1>3, <1>6, <2>2 DEF FullInv, MInv, MBody, Backed, Making, Placed, Local, Tidy
    <3>3. n \in Nodes
      BY <1>1, <2>2, <3>1, FirstUnfinished DEF KeyLost, Inv, Stored
    <3>4. [b |-> v.b, id |-> v.mem[n].id, key |-> v.mem[n].key] \in SecretOf(v, n)
      BY <2>2, <3>1, <3>2, <3>3 DEF Keyed, KeyLost, SecretOf
    <3> QED
      BY <2>2, <3>1, <3>4 DEF KeyLost
  <2> QED
    BY <2>1, <2>2
<1>7. CASE pc[p] \notin {"registry", "resources", "work"}
  BY <1>7 DEF Finding
<1> QED
  BY <1>4, <1>5, <1>6, <1>7

(***************************************************************************)
(* registry, members, ensureKey: without damage no pass, of any number of  *)
(* processes, finds the registry lost, replaced or in disagreement with a  *)
(* member, and without a deletion that was cut off or raced none finds a   *)
(* key lost.  A pass that looked for the identity or for its binding's     *)
(* ledger before another process created it may call that one lost; a      *)
(* single process never does, and the object is there.                     *)
(***************************************************************************)
THEOREM FencedForDamageOnly == RegistrySpec => []NoFalseFence
<1>1. FullInv /\ ReadInv => NoFalseFence
  BY Answers DEF NoFalseFence
<1> QED
  BY <1>1, InitFull, NextFull, InitReads, NextReads, PTL DEF RegistrySpec
=============================================================================
