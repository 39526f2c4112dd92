-------------------------- MODULE GatewayDiscovery --------------------------
(***************************************************************************)
(* How the gateways of different sites find each other.  A site publishes  *)
(* its member in the status of its binding; the authority copies it, with  *)
(* the links that concern the reader, into the specs of the other sites    *)
(* (Build, assignTransport); a site allocates its end of a link when it    *)
(* sees a peer, and renders and starts its gateway only when it sees the   *)
(* other end too (linkClaims, render).  Each step waits for another site.  *)
(*                                                                         *)
(* One member per site, named by its random ID; 0: none.                   *)
(***************************************************************************)
EXTENDS Naturals, FiniteSets

CONSTANTS
    Sites,
    MaxToggles   \* bound on how often the sites are joined and parted

VARIABLES
    joined,      \* the VPC has subnets at every site
    native,      \* profile: TRUE for the ones that need an authority-issued VNI
    published,   \* Status.Gateways of a site: its member and that member's links
    snapshot,    \* the binding spec a site works on
    listed,      \* the statuses the authority's pass has listed; << >>: no pass
    running,     \* the links a site's gateway was started with
    ids, toggles \* IDs drawn and joins made so far

discoveryVars == <<joined, native, published, snapshot, listed, running, ids, toggles>>

Nobody == [id |-> 0, links |-> {}]
Parted == [remote |-> FALSE, peers |-> {}, pairs |-> {}]

DiscoveryInit ==
    /\ joined = FALSE /\ native \in BOOLEAN
    /\ published = [s \in Sites |-> Nobody]
    /\ snapshot = [s \in Sites |-> Parted]
    /\ listed = << >>
    /\ running = [s \in Sites |-> {}]
    /\ ids = 0 /\ toggles = 0

Toggle ==
    /\ toggles < MaxToggles /\ toggles' = toggles + 1
    /\ joined' = ~joined
    /\ UNCHANGED <<native, published, snapshot, listed, running, ids>>

-----------------------------------------------------------------------------
(* The authority *)

\* Build and assignTransport for site s from the listed statuses: every other
\* registered member with its links to s, and a VNI for every pair of members.
Want(s) ==
    LET others == {t \in Sites \ {s} : listed[t].id # 0}
        peers == {[site |-> t, id |-> listed[t].id, links |-> {l \in listed[t].links : l.site = s}] : t \in others}
    IN  IF ~joined THEN Parted
        ELSE [remote |-> TRUE, peers |-> peers,
              pairs |-> IF native /\ listed[s].id # 0 THEN {{listed[s].id, p.id} : p \in peers} ELSE {}]

\* With no site joined or registered a pass finds nothing and is left out.
ListStatuses ==
    /\ joined \/ \E s \in Sites : snapshot[s] # Parted \/ published[s] # Nobody
    /\ listed = << >> /\ listed' = published
    /\ UNCHANGED <<joined, native, published, snapshot, running, ids, toggles>>

\* A pass ends with its first write, or with nothing to write.
WriteSpec ==
    /\ listed # << >> /\ listed' = << >>
    /\ \/ \E s \in Sites : snapshot[s] # Want(s) /\ snapshot' = [snapshot EXCEPT ![s] = Want(s)]
       \/ (\A s \in Sites : snapshot[s] = Want(s)) /\ UNCHANGED snapshot
    /\ UNCHANGED <<joined, native, published, running, ids, toggles>>

-----------------------------------------------------------------------------
(* A site *)

\* Mutant: a link is allocated only for a peer that has allocated its own.
LinkedBack(s, id) == {[site |-> p.site, id |-> p.id] :
    p \in {q \in snapshot[s].peers : [site |-> s, id |-> id] \in q.links}}

\* linkClaims: one link for every peer in the spec; native profiles wait for
\* the pair's VNI.  A link keeps what it has.
Linked(s, id) == {[site |-> p.site, id |-> p.id] :
    p \in {q \in snapshot[s].peers : native => {id, q.id} \in snapshot[s].pairs}}

\* members, linkClaims and the report; the member is drawn once and kept.
Register(s) ==
    /\ snapshot[s].remote
    /\ LET id == IF published[s].id = 0 THEN ids + 1 ELSE published[s].id
           new == [id |-> id, links |-> published[s].links \cup Linked(s, id)]
       IN  /\ new # published[s]
           /\ published' = [published EXCEPT ![s] = new]
           /\ ids' = IF published[s].id = 0 THEN ids + 1 ELSE ids
    /\ UNCHANGED <<joined, native, snapshot, listed, running, toggles>>

\* Mutant: the other end of a link is taken for granted.
CompleteHere(s) ==
    /\ {p.site : p \in snapshot[s].peers} = Sites \ {s}
    /\ \A p \in snapshot[s].peers : [site |-> p.site, id |-> p.id] \in published[s].links

\* render: complete when every remote site has a peer and both ends of every
\* link are allocated.
Complete(s) ==
    LET me == [site |-> s, id |-> published[s].id] IN
    /\ {p.site : p \in snapshot[s].peers} = Sites \ {s}
    /\ \A p \in snapshot[s].peers :
        [site |-> p.site, id |-> p.id] \in published[s].links /\ me \in p.links

\* The gateway runs the links of its latest complete rendering.
Deploy(s) ==
    /\ snapshot[s].remote /\ published[s].id # 0 /\ Complete(s)
    /\ running' = [running EXCEPT ![s] = {[site |-> p.site, id |-> p.id] : p \in snapshot[s].peers}]
    /\ running' # running
    /\ UNCHANGED <<joined, native, published, snapshot, listed, ids, toggles>>

\* Gateway.Delete and the cleared report of a site without remote subnets.
Retire(s) ==
    /\ ~snapshot[s].remote /\ published[s] # Nobody
    /\ published' = [published EXCEPT ![s] = Nobody]
    /\ running' = [running EXCEPT ![s] = {}]
    /\ UNCHANGED <<joined, native, snapshot, listed, ids, toggles>>

DiscoveryNext ==
    \/ Toggle \/ ListStatuses \/ WriteSpec
    \/ \E s \in Sites : Register(s) \/ Deploy(s) \/ Retire(s)

DiscoverySpec == DiscoveryInit /\ [][DiscoveryNext]_discoveryVars

\* Both controllers requeue; any outdated spec is written sooner or later.
DiscoveryFairness ==
    /\ WF_discoveryVars(ListStatuses) /\ WF_discoveryVars(WriteSpec)
    /\ \A s \in Sites : /\ SF_discoveryVars(WriteSpec /\ snapshot'[s] # snapshot[s])
                        /\ WF_discoveryVars(Register(s)) /\ WF_discoveryVars(Deploy(s)) /\ WF_discoveryVars(Retire(s))

-----------------------------------------------------------------------------
\* Statuses and specs name members that were drawn.
DiscoveryTypeOK == \A s \in Sites :
    /\ published[s].id \in 0..ids
    /\ \A p \in snapshot[s].peers : p.site # s /\ p.id \in 1..ids
    /\ \A l \in running[s] : l.site # s /\ l.id \in 1..ids

(***************************************************************************)
(* render: a gateway never runs a link whose other end, as long as that    *)
(* member exists, has not been allocated, also when sites leave and come   *)
(* back under new IDs while old specs and statuses are still on the way.   *)
(***************************************************************************)
Reciprocal == \A s \in Sites : \A l \in running[s] :
    published[l.site].id = l.id => [site |-> s, id |-> published[s].id] \in published[l.site].links

(***************************************************************************)
(* Ensure, Build and assignTransport wait for each other and never for     *)
(* ever: joined sites end up running links to each other's current member  *)
(* and parted ones with nothing.                                           *)
(***************************************************************************)
DiscoveryCompletes == <>[](\A s \in Sites :
    running[s] = IF joined THEN {[site |-> t, id |-> published[t].id] : t \in Sites \ {s}} ELSE {})
=============================================================================
