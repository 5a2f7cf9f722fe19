-------------------------- MODULE ReferenceGrants --------------------------
(***************************************************************************)
(* The ReferenceGrant of one namespace, which lets the shared Gateway read *)
(* the TLS Secrets of that namespace.                                      *)
(*                                                                         *)
(* The grant counts its users in an annotation: the Ingress worker and the *)
(* HTTPRoute worker add a route (ensureReferenceGrant), the HTTPRoute      *)
(* worker takes it out and deletes a grant without users                   *)
(* (cleanupReferenceGrant), and the admission webhook, another process,    *)
(* replaces the list by the TLS Ingresses it finds (ApplyReferenceGrant).  *)
(* None of them retries: a refused write is logged.  An Update is refused  *)
(* when the copy is not current (`fresh' holds the writers whose copy is); *)
(* a Delete has no precondition.                                           *)
(*                                                                         *)
(* An element of Route is an Ingress of the namespace and its HTTPRoute.   *)
(* The Gateway is one the operator manages.                                *)
(***************************************************************************)
EXTENDS Naturals, FiniteSets

CONSTANTS
    Route,          \* Ingresses of the namespace, and their HTTPRoutes
    Tls,            \* those whose Ingress has a tls section
    NoOwner,        \* a grant without owner reference
    MaxEvents,      \* bound: changes made from outside, and restarts
    MaxFails,       \* bound: failed calls of the API server
    MaxAdmissions   \* bound: Ingresses sent through the webhook

ASSUME TlsAssumption == Tls \subseteq Route /\ NoOwner \notin Route
ASSUME GrantBounds == MaxEvents \in Nat /\ MaxFails \in Nat /\ MaxAdmissions \in Nat

VARIABLES
    ing,      \* Ingresses that exist
    route,    \* [Route -> [st, fin, owner]]
    grant,    \* [st, src, owner]: the ReferenceGrant
    fresh,    \* writers holding a copy of the current grant
    icq, ic,  \* queue and worker of the Ingress controller
    hcq, hc,  \* queue and worker of the HTTPRoute controller
    wh,       \* the webhook's handler
    logged,   \* history: an error of ensureReferenceGrant was logged
    events, fails, admissions

clusterVars == <<ing, route>>
envVars == <<logged, events, fails, admissions>>
vars == <<clusterVars, grant, fresh, icq, ic, hcq, hc, wh, envVars>>

-----------------------------------------------------------------------------
\* The owner of a route, an Ingress, is there or gone; a route that the webhook
\* made has none.
HTTPRoutes == [st: {"none", "live", "term"}, fin: BOOLEAN, owner: {"none", "here", "gone"}]
NoRoute == [st |-> "none", fin |-> FALSE, owner |-> "none"]
NewRoute(owner) == [st |-> "live", fin |-> FALSE, owner |-> owner]

Grants == [st: {"none", "ours", "foreign"}, src: SUBSET Route, owner: Route \cup {NoOwner}]
NoGrant == [st |-> "none", src |-> {}, owner |-> NoOwner]

\* rt: the route at hand; cur: the HTTPRoute worker's copy of it is current,
\* the Ingress worker's Ingress still exists; src: the sources in the copy of
\* the grant, less the route itself when cleaning up.
Workers == [pc: {"idle", "apply", "ensure", "create", "add",
                 "cleanup", "delete", "remove", "finalize"},
            rt: SUBSET Route, cur: BOOLEAN, src: SUBSET Route]
Idle == [pc |-> "idle", rt |-> {}, cur |-> TRUE, src |-> {}]

\* want: the grant the webhook computed; rt: the Ingress it is asked about.
Handlers == [pc: {"idle", "list", "owner", "get", "create", "update", "answer"},
             rt: SUBSET Route, want: Grants]
IdleHandler == [pc |-> "idle", rt |-> {}, want |-> NoGrant]

Init ==
    /\ ing = {}
    /\ route = [r \in Route |-> NoRoute]
    /\ grant = NoGrant
    /\ fresh = {}
    /\ icq = {} /\ ic = Idle
    /\ hcq = {} /\ hc = Idle
    /\ wh = IdleHandler
    /\ logged = FALSE /\ events = 0 /\ fails = 0 /\ admissions = 0

\* A write of the route makes the copy of the HTTPRoute worker stale.
Touched(r) == IF hc.rt = {r} THEN [hc EXCEPT !.cur = FALSE] ELSE hc

-----------------------------------------------------------------------------
(* The world outside.                                                      *)

\* A user creates or edits an Ingress.
UserApply(r) ==
    /\ events < MaxEvents
    /\ events' = events + 1
    /\ ing' = ing \cup {r}
    /\ icq' = icq \cup {r}
    /\ UNCHANGED <<route, grant, fresh, ic, hcq, hc, wh, logged, fails, admissions>>

\* A user deletes an Ingress: its route has lost its owner, for good.
UserDelete(r) ==
    /\ events < MaxEvents
    /\ r \in ing
    /\ events' = events + 1
    /\ ing' = ing \ {r}
    /\ route' = [route EXCEPT ![r].owner = IF @ = "here" THEN "gone" ELSE @]
    /\ icq' = icq \cup {r}
    /\ ic' = IF ic.rt = {r} THEN [ic EXCEPT !.cur = FALSE] ELSE ic
    /\ UNCHANGED <<grant, fresh, hcq, hc, wh, logged, fails, admissions>>

\* A user removes the managed-by annotation from the grant.
UserTakesGrant ==
    /\ events < MaxEvents
    /\ grant.st = "ours"
    /\ events' = events + 1
    /\ grant' = [grant EXCEPT !.st = "foreign"]
    /\ fresh' = {}
    /\ UNCHANGED <<clusterVars, icq, ic, hcq, hc, wh, logged, fails, admissions>>

\* Kubernetes collects a route without its owner; the finalizer holds it.
CollectRoute(r) ==
    /\ route[r].st = "live" /\ route[r].owner = "gone"
    /\ route' = [route EXCEPT ![r] = IF @.fin THEN [@ EXCEPT !.st = "term"] ELSE NoRoute]
    /\ hcq' = hcq \cup {r}
    /\ hc' = Touched(r)
    /\ UNCHANGED <<ing, grant, fresh, icq, ic, wh, envVars>>

\* Kubernetes collects a grant whose owner is gone.
CollectGrant ==
    /\ grant.owner # NoOwner /\ route[grant.owner].st = "none"
    /\ grant' = NoGrant
    /\ fresh' = {}
    /\ UNCHANGED <<clusterVars, icq, ic, hcq, hc, wh, envVars>>

\* The operator restarts: the watches enqueue every route there is; Ingresses
\* may be in the saved reconcile cache.
Crash ==
    /\ events < MaxEvents
    /\ events' = events + 1
    /\ ic' = Idle /\ hc' = Idle
    /\ fresh' = fresh \ {"ic", "hc"}
    /\ \E cached \in SUBSET (ing \ (icq \cup ic.rt)) : icq' = ing \ cached
    /\ hcq' = {r \in Route : route[r].st # "none"}
    /\ UNCHANGED <<clusterVars, grant, wh, logged, fails, admissions>>

-----------------------------------------------------------------------------
(* ensureReferenceGrant, for the worker named me, whose state is w.        *)

\* Get the grant and decide: create it, nothing to do, or add the route.
ensurePlan(r) ==
    IF grant.st = "none" THEN "create"
    ELSE IF grant.st = "foreign" \/ r \in grant.src THEN "idle" ELSE "add"

\* Mutant: the sources are replaced.
withSource_Replaced(src, r) == {r}

\* Mutant: the joined annotation is kept as one source.
withSource_Joined(src, r) == {src \cup {r}}

\* The route's key is added to the sorted list of sources.
withSource(src, r) == src \cup {r}

\* Mutant: the Update carries no resourceVersion.
UpdateAccepted_Blind(me) == grant.st # "none"

\* The API server accepts the Update of a current copy.
UpdateAccepted(me) == me \in fresh

EnsureRead(me, w, r) ==
    /\ w.pc = "ensure" /\ w.rt = {r}
    /\ fresh' = IF ensurePlan(r) = "add" THEN fresh \cup {me} ELSE fresh
    /\ UNCHANGED <<grant, logged>>

\* Create finds a grant made in the meantime: start again.
EnsureCreate(me, w, r) ==
    /\ w.pc = "create" /\ w.rt = {r}
    /\ IF grant.st = "none"
       THEN grant' = [st |-> "ours", src |-> {r}, owner |-> NoOwner] /\ fresh' = {}
       ELSE UNCHANGED <<grant, fresh>>
    /\ UNCHANGED logged

\* A refused Update is an error the callers only log.
EnsureAdd(me, w, r) ==
    /\ w.pc = "add" /\ w.rt = {r}
    /\ IF UpdateAccepted(me)
       THEN grant' = [grant EXCEPT !.src = withSource(w.src, r)] /\ fresh' = {} /\ UNCHANGED logged
       ELSE fresh' = fresh \ {me} /\ logged' = TRUE /\ UNCHANGED grant

\* The worker's state after each of the three.
afterEnsure(w, r) ==
    CASE w.pc = "ensure" -> IF ensurePlan(r) = "idle" THEN Idle
                            ELSE [w EXCEPT !.pc = ensurePlan(r), !.src = grant.src]
      [] w.pc = "create" -> IF grant.st = "none" THEN Idle ELSE [w EXCEPT !.pc = "ensure"]
      [] OTHER -> Idle

Ensure(me, w, r) == EnsureRead(me, w, r) \/ EnsureCreate(me, w, r) \/ EnsureAdd(me, w, r)

-----------------------------------------------------------------------------
(* The Ingress controller's worker: apply the route, then ensure the grant.*)

ICStart(r) ==
    /\ ic.pc = "idle" /\ r \in icq
    /\ icq' = icq \ {r}
    /\ ic' = IF r \in ing THEN [Idle EXCEPT !.pc = "apply", !.rt = {r}] ELSE Idle
    /\ UNCHANGED <<clusterVars, grant, fresh, hcq, hc, wh, envVars>>

\* The watch tells the HTTPRoute controller of a route that was created or
\* changed; an edit of the Ingress may leave the route as it is.
ICApply(r) ==
    /\ ic.pc = "apply" /\ ic.rt = {r}
    /\ route' = [route EXCEPT ![r] = IF @.st = "none" THEN NewRoute(IF ic.cur THEN "here" ELSE "gone") ELSE @]
    /\ \/ hcq' = hcq \cup {r} /\ hc' = Touched(r)
       \/ route[r].st # "none" /\ UNCHANGED <<hcq, hc>>
    /\ ic' = [ic EXCEPT !.pc = "ensure"]
    /\ UNCHANGED <<ing, grant, fresh, icq, wh, envVars>>

ICEnsure(r) ==
    /\ Ensure("ic", ic, r)
    /\ ic' = afterEnsure(ic, r)
    /\ UNCHANGED <<clusterVars, icq, hcq, hc, wh, events, fails, admissions>>

-----------------------------------------------------------------------------
(* The HTTPRoute controller's worker.                                      *)

\* Reconcile: add the finalizer to a live route (an update, so the watch
\* enqueues it again); nothing to do without its Ingress
\* (resolveIngressForHTTPRoute).  A route being deleted is cleaned up.
HCStart(r) ==
    /\ hc.pc = "idle" /\ r \in hcq
    /\ route' = [route EXCEPT ![r].fin = @ \/ route[r].st = "live"]
    /\ hcq' = IF route' = route THEN hcq \ {r} ELSE hcq
    /\ hc' = IF route[r].st = "term" THEN [Idle EXCEPT !.pc = "cleanup", !.rt = {r}]
             ELSE IF route[r].st = "live" /\ r \in ing
             THEN [Idle EXCEPT !.pc = "ensure", !.rt = {r}]
             ELSE Idle
    /\ UNCHANGED <<ing, grant, fresh, icq, ic, wh, envVars>>

HCEnsure(r) ==
    /\ Ensure("hc", hc, r)
    /\ hc' = afterEnsure(hc, r)
    /\ UNCHANGED <<clusterVars, icq, ic, hcq, wh, events, fails, admissions>>

\* Mutant: the grant is deleted with the first route that goes.
cleanupPlan_NoCount(r) ==
    IF grant.st # "ours" THEN "finalize" ELSE "delete"

\* cleanupReferenceGrant: delete a grant without other users, else take the
\* route out when it is in.
cleanupPlan(r) ==
    IF grant.st # "ours" THEN "finalize"
    ELSE IF grant.src \subseteq {r} THEN "delete"
    ELSE IF r \in grant.src THEN "remove" ELSE "finalize"

HCCleanup(r) ==
    /\ hc.pc = "cleanup" /\ hc.rt = {r}
    /\ hc' = [hc EXCEPT !.pc = cleanupPlan(r), !.src = grant.src \ {r}]
    /\ fresh' = IF cleanupPlan(r) = "remove" THEN fresh \cup {"hc"} ELSE fresh
    /\ UNCHANGED <<clusterVars, grant, icq, ic, hcq, wh, envVars>>

\* Delete by name, whatever the grant holds now.
HCDelete ==
    /\ hc.pc = "delete"
    /\ grant' = NoGrant
    /\ fresh' = {}
    /\ hc' = [hc EXCEPT !.pc = "finalize"]
    /\ UNCHANGED <<clusterVars, icq, ic, hcq, wh, envVars>>

HCRemove ==
    /\ hc.pc = "remove"
    /\ IF UpdateAccepted("hc")
       THEN grant' = [grant EXCEPT !.src = hc.src] /\ fresh' = {}
       ELSE fresh' = fresh \ {"hc"} /\ UNCHANGED grant
    /\ hc' = [hc EXCEPT !.pc = "finalize"]
    /\ UNCHANGED <<clusterVars, icq, ic, hcq, wh, envVars>>

\* Remove the finalizer; a route written since it was read is enqueued again.
HCFinalize(r) ==
    /\ hc.pc = "finalize" /\ hc.rt = {r}
    /\ hc' = Idle
    /\ IF hc.cur THEN route' = [route EXCEPT ![r] = NoRoute] /\ UNCHANGED hcq
                 ELSE hcq' = hcq \cup {r} /\ UNCHANGED route
    /\ UNCHANGED <<ing, grant, fresh, icq, ic, wh, envVars>>

\* A call for the grant fails: logged, and the worker goes on.
CallFails ==
    /\ fails < MaxFails
    /\ fails' = fails + 1
    /\ logged' = TRUE
    /\ \/ ic.pc \in {"ensure", "create", "add"} /\ ic' = Idle /\ UNCHANGED hc
       \/ hc.pc \in {"ensure", "create", "add"} /\ hc' = Idle /\ UNCHANGED ic
       \/ /\ hc.pc \in {"cleanup", "delete", "remove"}
          /\ hc' = [hc EXCEPT !.pc = "finalize"] /\ UNCHANGED ic
    /\ UNCHANGED <<clusterVars, grant, fresh, icq, hcq, wh, events, admissions>>

-----------------------------------------------------------------------------
(* The webhook, asked about an Ingress with TLS.                           *)

\* It has applied the HTTPRoute of the Ingress before it comes to the grant.
WHAdmit(r) ==
    /\ wh.pc = "idle" /\ admissions < MaxAdmissions
    /\ r \in Tls
    /\ admissions' = admissions + 1
    /\ route' = [route EXCEPT ![r] = IF @.st = "none" THEN NewRoute("none") ELSE @]
    /\ hcq' = hcq \cup {r}
    /\ hc' = Touched(r)
    /\ wh' = [IdleHandler EXCEPT !.pc = "list", !.rt = {r}]
    /\ UNCHANGED <<ing, grant, fresh, icq, ic, logged, events, fails>>

\* ApplyReferenceGrant lists the TLS Ingresses of the namespace; the one asked
\* about is not there yet when it is being created.
WHList ==
    /\ wh.pc = "list"
    /\ wh' = [wh EXCEPT !.pc = "owner",
                        !.want = [st |-> "ours", src |-> ing \cap Tls, owner |-> NoOwner]]
    /\ UNCHANGED <<clusterVars, grant, fresh, icq, ic, hcq, hc, envVars>>

\* The route of the only TLS Ingress, when there is one, becomes the owner.
grantOwner(src) ==
    IF Cardinality(src) = 1 /\ \E r \in src : route[r].st # "none"
    THEN CHOOSE r \in src : TRUE ELSE NoOwner

WHOwner ==
    /\ wh.pc = "owner"
    /\ wh' = [wh EXCEPT !.pc = "get", !.want.owner = grantOwner(wh.want.src)]
    /\ UNCHANGED <<clusterVars, grant, fresh, icq, ic, hcq, hc, envVars>>

\* A grant of somebody else, or one with sources none of which is listed, is
\* left alone.
applyPlan(src) ==
    IF grant.st = "none" THEN "create"
    ELSE IF grant.st = "ours" /\ (grant.src = {} \/ grant.src \cap src # {}) THEN "update"
    ELSE "answer"

WHGet ==
    /\ wh.pc = "get"
    /\ wh' = [wh EXCEPT !.pc = applyPlan(wh.want.src)]
    /\ fresh' = IF applyPlan(wh.want.src) = "update" THEN fresh \cup {"wh"} ELSE fresh
    /\ UNCHANGED <<clusterVars, grant, icq, ic, hcq, hc, envVars>>

\* Create, or Update of the annotations of a current copy; the owner
\* references of an existing grant stay.  Errors are only logged.
WHWrite ==
    /\ wh.pc \in {"create", "update"}
    /\ wh' = [wh EXCEPT !.pc = "answer"]
    /\ \/ wh.pc = "create" /\ grant.st = "none" /\ grant' = wh.want /\ fresh' = {}
       \/ wh.pc = "create" /\ grant.st # "none" /\ UNCHANGED <<grant, fresh>>
       \/ wh.pc = "update" /\ UpdateAccepted("wh")
          /\ grant' = [grant EXCEPT !.src = wh.want.src] /\ fresh' = {}
       \/ wh.pc = "update" /\ ~UpdateAccepted("wh")
          /\ fresh' = fresh \ {"wh"} /\ UNCHANGED grant
    /\ UNCHANGED <<clusterVars, icq, ic, hcq, hc, envVars>>

\* The Ingress is stored when it has the allow annotation; else it is denied.
WHAnswer(r) ==
    /\ wh.pc = "answer" /\ wh.rt = {r}
    /\ wh' = IdleHandler
    /\ \/ ing' = ing \cup {r} /\ icq' = icq \cup {r}
       \/ UNCHANGED <<ing, icq>>
    /\ UNCHANGED <<route, grant, fresh, ic, hcq, hc, envVars>>

-----------------------------------------------------------------------------
Environment ==
    \/ \E r \in Route : UserApply(r) \/ UserDelete(r) \/ CollectRoute(r)
    \/ UserTakesGrant \/ CollectGrant \/ Crash \/ CallFails

IngressWorker == \E r \in Route : ICStart(r) \/ ICApply(r) \/ ICEnsure(r)

RouteWorker ==
    \/ \E r \in Route : HCStart(r) \/ HCEnsure(r) \/ HCCleanup(r) \/ HCFinalize(r)
    \/ HCDelete \/ HCRemove

Webhook ==
    \/ \E r \in Route : WHAdmit(r) \/ WHAnswer(r)
    \/ WHList \/ WHOwner \/ WHGet \/ WHWrite

Next == Environment \/ IngressWorker \/ RouteWorker \/ Webhook

Spec == Init /\ [][Next]_vars

-----------------------------------------------------------------------------
(* Properties.                                                             *)

\* Every variable stays in the set its declaration describes.
TypeOK ==
    /\ ing \subseteq Route
    /\ route \in [Route -> HTTPRoutes]
    /\ grant \in Grants
    /\ fresh \subseteq {"ic", "hc", "wh"}
    /\ icq \subseteq Route /\ hcq \subseteq Route
    /\ ic \in Workers /\ hc \in Workers
    /\ wh \in Handlers
    /\ logged \in BOOLEAN
    /\ events \in Nat /\ fails \in Nat /\ admissions \in Nat

\* Nobody rewrites a grant without the managed-by annotation, not even one
\* that lost it between the read and the write of ensureReferenceGrant,
\* cleanupReferenceGrant or ApplyReferenceGrant.
ForeignGrantUntouched ==
    [][grant.st = "foreign" /\ grant'.st # "none" => grant' = grant]_vars

\* The list of sources only grows, but for the route that is being cleaned up:
\* no worker drops the source another one added since it read the grant.
SourcesKept ==
    [][grant.st = "ours" /\ grant'.st = "ours" /\ ~Webhook =>
         grant.src \ hc.rt \subseteq grant'.src]_vars

Quiet == ic.pc = "idle" /\ hc.pc = "idle" /\ icq = {} /\ hcq = {} /\ wh.pc = "idle"

\* When nothing is left to do, the Gateway may read the Secrets of every live
\* TLS route: a grant deleted by cleanupReferenceGrant while another route
\* was adding itself is made again, unless an error of ensureReferenceGrant
\* was logged, which nothing retries, or the webhook had its hands on it.
SecretsReadable ==
    Quiet /\ ~logged /\ admissions = 0 =>
        \A r \in Tls : r \in ing /\ route[r].st = "live" /\ route[r].owner # "gone" =>
            grant.st # "none"
=============================================================================
