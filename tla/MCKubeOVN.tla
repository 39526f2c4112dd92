----------------------------- MODULE MCKubeOVN -----------------------------
(***************************************************************************)
(* What works on a Kube-OVN installation of its own, for TLC: the legacy   *)
(* GlobalVpc and site controllers and the native extension's installer.    *)
(* They share no state, so a behaviour exercises one of them, the part,    *)
(* while the others rest without any object.                               *)
(***************************************************************************)
EXTENDS GlobalVPC, SiteVPC, NativeExtension

CONSTANTS v1, v2,   \* GlobalVpcs
          i1, i2    \* images

VARIABLE part

vars == <<part, globalVars, siteVars, extensionVars>>

Domain(n, vs, kept, crashes, losses, joins, edits) ==
    [n |-> n, vpcs |-> vs, registration |-> 1, hurt |-> {}, kept |-> kept,
     crashes |-> crashes, losses |-> losses, joins |-> joins, edits |-> edits]
NoDomain == Domain(1, {}, {}, 0, 0, 0, 0)

Site(members, present, crashes, losses, joins) ==
    [members |-> members, present |-> present, hurt |-> FALSE, stray |-> FALSE,
     crashes |-> crashes, losses |-> losses, joins |-> joins]
NoSite == Site({}, FALSE, 0, 0, 0)

AllDomains == {
    NoDomain,
    Domain(1, {v1}, {}, 0, 0, 1, 0),        \* a consumer joins and leaves
    Domain(1, {v1}, {}, 1, 1, 0, 0),        \* a crash and a loss
    Domain(1, {v1}, {}, 0, 0, 0, 2),        \* the registration is edited and restored
    Domain(1, {v1, v2}, {v2}, 0, 0, 0, 0),  \* two VPCs want the domain
    Domain(2, {v1}, {v1}, 1, 0, 0, 0)}      \* two clusters, connected through a crash

\* A crash between two steps of the barrier, and a consumer.
RecheckDomain == {Domain(1, {v1}, {}, 1, 0, 1, 0)}

AllSites == {
    NoSite,
    Site({1, 2}, TRUE, 0, 1, 0),            \* two members and a destroyed object
    Site({1, 2}, TRUE, 1, 0, 1),            \* guests come while the site goes
    Site({}, TRUE, 1, 1, 0),                \* a single gateway without BFD
    Site({}, TRUE, 0, 1, 1)}                \* the same with guests
NoSites == {NoSite}
NoDomains == {NoDomain}

Deliveries(bad, requests, aborts, churn, edits) ==
    [bad |-> bad, requests |-> requests, aborts |-> aborts, churn |-> churn, edits |-> edits]
NoRelease == Deliveries({}, 0, 0, 0, 0)

AllReleases == {
    NoRelease,
    Deliveries({}, 3, 1, 0, 0),                \* upgrades and rollbacks, one cut off
    Deliveries({}, 2, 1, 0, 1),                \* the same with routes
    Deliveries({i2}, 2, 1, 0, 1),              \* an image that never gets ready
    Deliveries({}, 2, 1, 1, 0)}                \* the Deployment is written meanwhile
NoReleases == {NoRelease}

\* One installation while the Deployment is written.
WrittenMeanwhile == {Deliveries({}, 1, 0, 1, 0)}

Init ==
    /\ GlobalInit /\ SiteInit /\ ExtensionInit
    /\ \/ part = "global" /\ domain # NoDomain /\ ~site.present /\ world = NoRelease
       \/ part = "site" /\ domain = NoDomain /\ site.present /\ world = NoRelease
       \/ part = "extension" /\ domain = NoDomain /\ ~site.present /\ world # NoRelease

Next == \/ part = "global" /\ GlobalNext /\ UNCHANGED <<part, siteVars, extensionVars>>
        \/ part = "site" /\ SiteNext /\ UNCHANGED <<part, globalVars, extensionVars>>
        \/ part = "extension" /\ ExtensionNext /\ UNCHANGED <<part, globalVars, siteVars>>

\* A part that rests has nothing enabled, so its fairness asks for nothing.
Spec == Init /\ [][Next]_vars /\ Progress /\ Draining /\ SiteFairness /\ ExtensionFairness

\* The extension alone, with its fairness spelled out: a failed hook is retried,
\* Kubernetes and the controller work.
OfExtension(step) == part = "extension" /\ step /\ UNCHANGED <<part, globalVars, siteVars>>
RetrySpec ==
    /\ Init /\ [][Next]_vars
    /\ WF_vars(OfExtension(Hook)) /\ WF_vars(OfExtension(Rollout)) /\ WF_vars(OfExtension(Control))
=============================================================================
