---------------------------- MODULE GatewaySync ----------------------------
(***************************************************************************)
(* How the listeners of one shared Gateway are kept.                       *)
(*                                                                         *)
(* Three kinds of goroutines of the operator write the same Gateway:       *)
(*   - the worker of the Ingress controller merges the hostnames of one    *)
(*     Ingress into the Gateway (ingress_controller.go);                   *)
(*   - the worker of the HTTPRoute controller creates a missing Gateway    *)
(*     and otherwise schedules a debounced update (httproute_controller.go)*)
(*   - the goroutines started by the debouncer's timers list the           *)
(*     HTTPRoutes and make the listeners match the list, and delete a      *)
(*     Gateway left without listeners.                                     *)
(* The API server refuses an Update of a copy whose resourceVersion is not *)
(* the current one.  `fresh' holds the writers whose copy still is; every  *)
(* write of the object empties it.  A Delete has no such precondition.     *)
(*                                                                         *)
(* An element of Route is an Ingress and the HTTPRoute of the same name.   *)
(* The options are the defaults: shared Gateway, no deletion finalizer on  *)
(* Ingresses, post-processing mode "none".  TLS is abstracted to whether   *)
(* the source Ingress of a route can be read.                              *)
(***************************************************************************)
EXTENDS Naturals, FiniteSets

CONSTANTS
    Route,        \* Ingresses, and the HTTPRoutes translated from them
    Host,         \* hostnames
    Namespace,    \* namespaces of the routes
    RouteNs,      \* RouteNs[r]: the namespace of r
    Timer,        \* identities for the debouncer's timers
    NoTimer,      \* no entry in pendingUpdates
    MaxEvents,    \* bound: changes made from outside the operator, and restarts
    MaxCrashes    \* bound: restarts of the operator

ASSUME RouteNsAssumption == RouteNs \in [Route -> Namespace]
ASSUME TimerAssumption == NoTimer \notin Timer /\ "ic" \notin Timer
ASSUME BoundAssumption == MaxEvents \in Nat /\ MaxCrashes \in Nat

VARIABLES
    ingress,   \* [Route -> [uid, hosts]]; hosts = {}: the Ingress does not exist
    route,     \* [Route -> [st, hosts, fin, uid]]: the HTTPRoute objects
    gw,        \* [st, lst]: the Gateway; lst[h] = {}: no listener for h
    fresh,     \* writers holding a copy of the current Gateway
    icq, ic,   \* work queue and worker of the Ingress controller
    hcq, hc,   \* work queue and worker of the HTTPRoute controller
    entry,     \* pendingUpdates[gateway]: the timer last scheduled
    tm,        \* each timer, and the goroutine it starts: [pc, listed, target, try]
    events, crashes

clusterVars == <<ingress, route>>
queueVars   == <<icq, ic, hcq, hc>>
timerVars   == <<entry, tm>>
envVars     == <<events, crashes>>
vars == <<clusterVars, gw, fresh, queueVars, timerVars, envVars>>

-----------------------------------------------------------------------------
Attempts == 3    \* attempts of reconcileGatewayListeners

Listeners == [Host -> SUBSET Namespace]
NoListeners == [h \in Host |-> {}]
Gateways == [st: {"none", "ours", "foreign"}, lst: Listeners]
NoGateway == [st |-> "none", lst |-> NoListeners]

HTTPRoutes == [st: {"none", "live", "term"}, hosts: SUBSET Host,
               fin: BOOLEAN, uid: Nat]
NoRoute == [st |-> "none", hosts |-> {}, fin |-> FALSE, uid |-> 0]

Workers == [pc: {"idle", "apply", "read", "write"}, rt: SUBSET Route, uid: Nat,
            hosts: SUBSET Host, seen: HTTPRoutes, copy: Gateways]
IdleIC == [pc |-> "idle", rt |-> {}, uid |-> 0, hosts |-> {},
           seen |-> NoRoute, copy |-> NoGateway]

RouteWorkers == [pc: {"idle", "upsert", "create", "cleanup", "finalize"},
                 rt: SUBSET Route, seen: HTTPRoutes]
IdleHC == [pc |-> "idle", rt |-> {}, seen |-> NoRoute]

Lists == [Route -> SUBSET Host]
NoList == [r \in Route |-> {}]

\* listed: the routes read, with their hostnames; target: the listeners about
\* to be written; try: how many writes were refused.
Timers == [pc: {"idle", "armed", "fired", "list", "get", "write", "check", "delete"},
           listed: Lists, target: Listeners, try: 0..Attempts]
IdleTimer == [pc |-> "idle", listed |-> NoList, target |-> NoListeners, try |-> 0]

Exists(r) == ingress[r].hosts # {}

-----------------------------------------------------------------------------
(* The listener computations.                                              *)

\* Mutant: the hostname is put where the namespace belongs.
updateGatewayListeners_WrongValue(lst, hosts, ns) ==
    [h \in Host |-> IF h \in hosts THEN lst[h] \cup {h} ELSE lst[h]]

\* addNamespaceToListener; a listener that does not exist yet is created with
\* the namespace (createListenerWithNamespaces).
addNamespaceToListener(namespaces, ns) == namespaces \cup {ns}

\* updateGatewayListeners: the hostnames of one route are merged in; nothing
\* is removed.
updateGatewayListeners(lst, hosts, ns) ==
    [h \in Host |-> IF h \in hosts THEN addNamespaceToListener(lst[h], ns) ELSE lst[h]]

\* calculateDesiredListenerState: hostname -> namespaces of the listed routes.
calculateDesiredListenerState(rts) ==
    [h \in Host |-> {RouteNs[r] : r \in {q \in Route : h \in rts[q]}}]

\* buildDesiredListenerTLS: hostnames of a listed route whose source Ingress
\* cannot be read.
tlsUnknown(rts) == {h \in Host : \E r \in Route : h \in rts[r] /\ ~Exists(r)}

\* Mutant: a listener with unknown TLS is dropped although it exists.
reconcileListenersToDesiredState_DropUnknown(lst, desired, unknown) ==
    [h \in Host |-> IF h \in unknown THEN {} ELSE desired[h]]

\* reconcileListenersToDesiredState: drop what no route wants, give a kept
\* listener exactly the namespaces wanted, add one only when its TLS is known.
reconcileListenersToDesiredState(lst, desired, unknown) ==
    [h \in Host |-> IF lst[h] = {} /\ h \in unknown THEN {} ELSE desired[h]]

-----------------------------------------------------------------------------
Init ==
    /\ ingress = [r \in Route |-> [uid |-> 0, hosts |-> {}]]
    /\ route = [r \in Route |-> NoRoute]
    /\ gw = NoGateway
    /\ fresh = {}
    /\ icq = {} /\ ic = IdleIC
    /\ hcq = {} /\ hc = IdleHC
    /\ entry = NoTimer
    /\ tm = [t \in Timer |-> IdleTimer]
    /\ events = 0 /\ crashes = 0

-----------------------------------------------------------------------------
(* The world outside the operator.                                         *)

\* A user creates an Ingress or edits its hostnames; the watch enqueues it.
UserApply(r, H) ==
    /\ events < MaxEvents
    /\ H # {} /\ H # ingress[r].hosts
    /\ events' = events + 1
    /\ ingress' = [ingress EXCEPT ![r] =
          [uid |-> IF Exists(r) THEN @.uid ELSE @.uid + 1, hosts |-> H]]
    /\ icq' = icq \cup {r}
    /\ UNCHANGED <<route, gw, fresh, ic, hcq, hc, timerVars, crashes>>

\* A user deletes an Ingress; it carries no finalizer.
UserDelete(r) ==
    /\ events < MaxEvents
    /\ Exists(r)
    /\ events' = events + 1
    /\ ingress' = [ingress EXCEPT ![r].hosts = {}]
    /\ icq' = icq \cup {r}
    /\ UNCHANGED <<route, gw, fresh, ic, hcq, hc, timerVars, crashes>>

\* Kubernetes collects an HTTPRoute whose owner, by UID, is gone.  One with
\* the HTTPRoute finalizer stays until the operator removes it.
GarbageCollect(r) ==
    /\ route[r].st = "live"
    /\ ~Exists(r) \/ ingress[r].uid # route[r].uid
    /\ route' = [route EXCEPT ![r] = IF @.fin THEN [@ EXCEPT !.st = "term"]
                                              ELSE NoRoute]
    /\ hcq' = hcq \cup {r}
    /\ UNCHANGED <<ingress, gw, fresh, icq, ic, hc, timerVars, envVars>>

\* The Gateway's own controller writes its status: a new resourceVersion.
GatewayStatusWritten ==
    /\ events < MaxEvents
    /\ gw.st # "none" /\ fresh # {}
    /\ events' = events + 1
    /\ fresh' = {}
    /\ UNCHANGED <<clusterVars, gw, queueVars, timerVars, crashes>>

\* A user creates a Gateway of that name.
UserCreatesGateway(H, n) ==
    /\ events < MaxEvents
    /\ gw.st = "none" /\ H # {}
    /\ events' = events + 1
    /\ gw' = [st |-> "foreign", lst |-> updateGatewayListeners(NoListeners, H, n)]
    /\ fresh' = {}
    /\ UNCHANGED <<clusterVars, queueVars, timerVars, crashes>>

\* A user removes the managed-by annotation from the Gateway.
UserTakesGateway ==
    /\ events < MaxEvents
    /\ gw.st = "ours"
    /\ events' = events + 1
    /\ gw' = [gw EXCEPT !.st = "foreign"]
    /\ fresh' = {}
    /\ UNCHANGED <<clusterVars, queueVars, timerVars, crashes>>

-----------------------------------------------------------------------------
(* The Ingress controller's worker.                                        *)

\* Reconcile: Get the Ingress (done when it is gone) and the routes it has.
ICStart(r) ==
    /\ ic.pc = "idle"
    /\ r \in icq
    /\ icq' = icq \ {r}
    /\ ic' = IF Exists(r)
             THEN [IdleIC EXCEPT !.pc = "apply", !.rt = {r}, !.uid = ingress[r].uid,
                                 !.hosts = ingress[r].hosts, !.seen = route[r]]
             ELSE ic
    /\ UNCHANGED <<clusterVars, gw, fresh, hcq, hc, timerVars, envVars>>

\* ApplyHTTPRoutesAtomic with one route: create it, or overwrite the spec of
\* the one found, even when that one is being deleted.  An Update of an
\* object changed since it was read is refused and the Ingress requeued; one
\* that finds no object creates it.
ICApply(r) ==
    /\ ic.pc = "apply" /\ ic.rt = {r}
    /\ IF route[r].st # "none" /\ route[r] # ic.seen
       THEN /\ ic' = IdleIC
            /\ icq' = icq \cup {r}
            /\ UNCHANGED <<route, hcq>>
       ELSE /\ route' = [route EXCEPT ![r] =
                  IF @.st = "none"
                  THEN [st |-> "live", hosts |-> ic.hosts, fin |-> FALSE, uid |-> ic.uid]
                  ELSE [@ EXCEPT !.hosts = ic.hosts]]
            /\ hcq' = IF route'[r] # route[r] THEN hcq \cup {r} ELSE hcq
            /\ ic' = [ic EXCEPT !.pc = "read"]
            /\ UNCHANGED icq
    /\ UNCHANGED <<ingress, gw, fresh, hc, timerVars, envVars>>

\* ensureGatewayForListenerUpdate: a Gateway of somebody else ends the
\* reconcile, successfully.
ICReadGateway ==
    /\ ic.pc = "read"
    /\ IF gw.st = "foreign"
       THEN ic' = IdleIC /\ UNCHANGED fresh
       ELSE /\ ic' = [ic EXCEPT !.pc = "write", !.copy = gw]
            /\ fresh' = fresh \cup {"ic"}
    /\ UNCHANGED <<clusterVars, gw, icq, hcq, hc, timerVars, envVars>>

\* Mutant: the write carries no resourceVersion.
IngressWriteAccepted_Blind == ic.copy.st # "none" => gw.st # "none"

\* Create succeeds when there is no Gateway, Update when the copy is current.
IngressWriteAccepted == IF ic.copy.st = "none" THEN gw.st = "none" ELSE "ic" \in fresh

\* Update or Create of the Gateway from the copy; a refusal requeues.
ICWriteGateway(r) ==
    /\ ic.pc = "write" /\ ic.rt = {r}
    /\ ic' = IdleIC
    /\ LET merged == updateGatewayListeners(ic.copy.lst, ic.hosts, RouteNs[r])
       IN  \/ /\ merged = ic.copy.lst
              /\ fresh' = fresh \ {"ic"}
              /\ UNCHANGED <<gw, icq>>
           \/ /\ merged # ic.copy.lst /\ IngressWriteAccepted
              /\ gw' = [st |-> "ours", lst |-> merged]
              /\ fresh' = {}
              /\ UNCHANGED icq
           \/ /\ merged # ic.copy.lst /\ ~IngressWriteAccepted
              /\ icq' = icq \cup {r}
              /\ fresh' = fresh \ {"ic"}
              /\ UNCHANGED gw
    /\ UNCHANGED <<clusterVars, hcq, hc, timerVars, envVars>>

-----------------------------------------------------------------------------
(* The debouncer.                                                          *)

\* Mutant: a pending timer is stopped and none started in its place.
scheduleGatewayUpdate_StopOnly ==
    IF entry # NoTimer
    THEN /\ tm' = [tm EXCEPT ![entry] = IF tm[entry].pc = "armed" THEN IdleTimer ELSE @]
         /\ entry' = NoTimer
    ELSE \E t \in Timer : /\ tm[t].pc = "idle"
                          /\ entry' = t
                          /\ tm' = [tm EXCEPT ![t].pc = "armed"]

\* scheduleGatewayUpdate: stop the timer of the entry, when it has not fired
\* yet, and store a new one.
scheduleGatewayUpdate ==
    \E t \in Timer :
        /\ tm[t].pc = "idle" \/ (t = entry /\ tm[t].pc = "armed")
        /\ entry' = t
        /\ tm' = [u \in Timer |->
                     IF u = t THEN [IdleTimer EXCEPT !.pc = "armed"]
                     ELSE IF u = entry /\ tm[u].pc = "armed" THEN IdleTimer ELSE tm[u]]

\* The timer's 2 seconds pass.
TimerFires(t) ==
    /\ tm[t].pc = "armed"
    /\ tm' = [tm EXCEPT ![t].pc = "fired"]
    /\ UNCHANGED <<clusterVars, gw, fresh, queueVars, entry, envVars>>

\* executeGatewayUpdate, under the lock: the entry is deleted, also when it
\* is another timer's by now.
ExecStart(t) ==
    /\ tm[t].pc = "fired"
    /\ tm' = [tm EXCEPT ![t].pc = "list"]
    /\ entry' = NoTimer
    /\ UNCHANGED <<clusterVars, gw, fresh, queueVars, envVars>>

\* listHTTPRoutesForGateway: routes being deleted are left out.
ExecList(t) ==
    /\ tm[t].pc = "list"
    /\ tm' = [tm EXCEPT ![t].pc = "get", ![t].listed =
          [r \in Route |-> IF route[r].st = "live" THEN route[r].hosts ELSE {}]]
    /\ UNCHANGED <<clusterVars, gw, fresh, queueVars, entry, envVars>>

\* reconcileGatewayListeners up to the Update: nothing to do without a
\* Gateway of ours or without a difference.
ExecGet(t) ==
    /\ tm[t].pc = "get"
    /\ LET new == reconcileListenersToDesiredState(gw.lst,
                    calculateDesiredListenerState(tm[t].listed), tlsUnknown(tm[t].listed))
       IN  IF gw.st = "ours" /\ new # gw.lst
           THEN /\ tm' = [tm EXCEPT ![t].pc = "write", ![t].target = new]
                /\ fresh' = fresh \cup {t}
           ELSE /\ tm' = [tm EXCEPT ![t] = IdleTimer]
                /\ UNCHANGED fresh
    /\ UNCHANGED <<clusterVars, gw, queueVars, entry, envVars>>

\* Mutant: the goroutine ends with its update.
AfterUpdate_NoCheck == IdleTimer

\* After a successful update the goroutine goes on to the deletion check.
AfterUpdate == [IdleTimer EXCEPT !.pc = "check"]

\* The Update of a current copy.
ExecWrite(t) ==
    /\ tm[t].pc = "write" /\ t \in fresh
    /\ gw' = [gw EXCEPT !.lst = tm[t].target]
    /\ fresh' = {}
    /\ tm' = [tm EXCEPT ![t] = AfterUpdate]
    /\ UNCHANGED <<clusterVars, queueVars, entry, envVars>>

\* The Update refused: a conflict is tried again with the same list of routes,
\* Attempts times in all; without a Gateway the update is dropped.
ExecRefused(t) ==
    /\ tm[t].pc = "write" /\ t \notin fresh
    /\ tm' = [tm EXCEPT ![t] = IF gw.st # "none" /\ tm[t].try + 1 < Attempts
                               THEN [tm[t] EXCEPT !.pc = "get", !.try = tm[t].try + 1]
                               ELSE IdleTimer]
    /\ UNCHANGED <<clusterVars, gw, fresh, queueVars, entry, envVars>>

\* After an update: Get the Gateway and see whether it has listeners left.
ExecCheck(t) ==
    /\ tm[t].pc = "check"
    /\ tm' = [tm EXCEPT ![t].pc =
          IF gw.st # "none" /\ gw.lst = NoListeners THEN "delete" ELSE "idle"]
    /\ UNCHANGED <<clusterVars, gw, fresh, queueVars, entry, envVars>>

\* Delete by name, whatever the Gateway holds now.
ExecDelete(t) ==
    /\ tm[t].pc = "delete"
    /\ tm' = [tm EXCEPT ![t] = IdleTimer]
    /\ gw' = NoGateway
    /\ fresh' = {}
    /\ UNCHANGED <<clusterVars, queueVars, entry, envVars>>

-----------------------------------------------------------------------------
(* The HTTPRoute controller's worker.                                      *)

\* Reconcile: a live route gets the finalizer first (an update, so the watch
\* enqueues it again); a route being deleted goes to the cleanup.
HCStart(r) ==
    /\ hc.pc = "idle"
    /\ r \in hcq
    /\ IF route[r].st = "none"
       THEN hc' = hc /\ hcq' = hcq \ {r} /\ UNCHANGED route
       ELSE /\ route' = [route EXCEPT ![r].fin = TRUE]
            /\ hcq' = IF route[r].fin THEN hcq \ {r} ELSE hcq
            /\ hc' = [pc |-> IF route[r].st = "live" THEN "upsert" ELSE "cleanup",
                      rt |-> {r}, seen |-> route'[r]]
    /\ UNCHANGED <<ingress, gw, fresh, icq, ic, timerVars, envVars>>

\* handleHTTPRouteCreateOrUpdate: nothing without the source Ingress or for a
\* foreign Gateway; an update is scheduled only when merging would change
\* the Gateway read.
HCUpsert(r) ==
    /\ hc.pc = "upsert" /\ hc.rt = {r}
    /\ IF Exists(r) /\ gw.st = "none"
       THEN hc' = [hc EXCEPT !.pc = "create"] /\ UNCHANGED timerVars
       ELSE /\ hc' = IdleHC
            /\ IF /\ Exists(r) /\ gw.st = "ours"
                  /\ updateGatewayListeners(gw.lst, hc.seen.hosts, RouteNs[r]) # gw.lst
               THEN scheduleGatewayUpdate
               ELSE UNCHANGED timerVars
    /\ UNCHANGED <<clusterVars, gw, fresh, icq, ic, hcq, envVars>>

\* The immediate Create of a missing Gateway; when it exists by now the route
\* is requeued.
HCCreate(r) ==
    /\ hc.pc = "create" /\ hc.rt = {r}
    /\ hc' = IdleHC
    /\ IF gw.st = "none"
       THEN /\ gw' = [st |-> "ours",
                      lst |-> updateGatewayListeners(NoListeners, hc.seen.hosts, RouteNs[r])]
            /\ fresh' = {}
            /\ UNCHANGED hcq
       ELSE hcq' = hcq \cup {r} /\ UNCHANGED <<gw, fresh>>
    /\ UNCHANGED <<clusterVars, icq, ic, timerVars, envVars>>

\* Mutant: without a Gateway of ours the handler returns before the finalizer
\* is removed.
HCCleanup_EarlyReturn(r) ==
    /\ hc.pc = "cleanup" /\ hc.rt = {r}
    /\ IF gw.st = "ours"
       THEN scheduleGatewayUpdate /\ hc' = [hc EXCEPT !.pc = "finalize"]
       ELSE UNCHANGED timerVars /\ hc' = IdleHC
    /\ UNCHANGED <<clusterVars, gw, fresh, icq, ic, hcq, envVars>>

\* handleHTTPRouteDelete: schedule the cleanup of a Gateway of ours.
HCCleanup(r) ==
    /\ hc.pc = "cleanup" /\ hc.rt = {r}
    /\ hc' = [hc EXCEPT !.pc = "finalize"]
    /\ IF gw.st = "ours" THEN scheduleGatewayUpdate ELSE UNCHANGED timerVars
    /\ UNCHANGED <<clusterVars, gw, fresh, icq, ic, hcq, envVars>>

\* Remove the finalizer, which lets the route go; refused and requeued when
\* the route was written since it was read.
HCFinalize(r) ==
    /\ hc.pc = "finalize" /\ hc.rt = {r}
    /\ hc' = IdleHC
    /\ IF route[r] = hc.seen
       THEN route' = [route EXCEPT ![r] = NoRoute] /\ UNCHANGED hcq
       ELSE hcq' = hcq \cup {r} /\ UNCHANGED route
    /\ UNCHANGED <<ingress, gw, fresh, icq, ic, timerVars, envVars>>

\* The operator stops and starts again: workers, queues and timers are lost,
\* the watches enqueue every object there is.  An Ingress that was not waiting
\* may be in the saved reconcile cache, and is then skipped (IngressLifecycle).
Crash ==
    /\ crashes < MaxCrashes /\ events < MaxEvents
    /\ crashes' = crashes + 1 /\ events' = events + 1
    /\ ic' = IdleIC /\ hc' = IdleHC
    /\ \E cached \in SUBSET (Route \ (icq \cup ic.rt)) :
          icq' = {r \in Route \ cached : Exists(r)}
    /\ hcq' = {r \in Route : route[r].st # "none"}
    /\ fresh' = {}
    /\ entry' = NoTimer
    /\ tm' = [t \in Timer |-> IdleTimer]
    /\ UNCHANGED <<clusterVars, gw>>

-----------------------------------------------------------------------------
Environment ==
    \/ \E r \in Route : \/ \E H \in SUBSET Host : UserApply(r, H)
                        \/ UserDelete(r)
    \/ GatewayStatusWritten
    \/ \E H \in SUBSET Host, n \in Namespace : UserCreatesGateway(H, n)
    \/ UserTakesGateway
    \/ Crash

IngressWorker ==
    \/ \E r \in Route : ICStart(r) \/ ICApply(r) \/ ICWriteGateway(r)
    \/ ICReadGateway

RouteWorker ==
    \E r \in Route : HCStart(r) \/ HCUpsert(r) \/ HCCreate(r) \/ HCCleanup(r) \/ HCFinalize(r)

Debouncer(t) ==
    \/ TimerFires(t) \/ ExecStart(t) \/ ExecList(t) \/ ExecGet(t)
    \/ ExecWrite(t) \/ ExecRefused(t) \/ ExecCheck(t) \/ ExecDelete(t)

Collector == \E r \in Route : GarbageCollect(r)

Next == Environment \/ Collector \/ IngressWorker \/ RouteWorker \/ \E t \in Timer : Debouncer(t)

Spec == Init /\ [][Next]_vars

\* controller-runtime keeps each controller's worker running, the Go runtime
\* runs a timer that is not stopped, and Kubernetes collects orphans.
FairSpec ==
    /\ Spec
    /\ WF_vars(Collector) /\ WF_vars(IngressWorker) /\ WF_vars(RouteWorker)
    /\ \A t \in Timer : WF_vars(Debouncer(t))

-----------------------------------------------------------------------------
(* Properties.                                                             *)

\* Every variable stays in the set its declaration describes.
TypeOK ==
    /\ ingress \in [Route -> [uid: Nat, hosts: SUBSET Host]]
    /\ route \in [Route -> HTTPRoutes]
    /\ gw \in Gateways
    /\ fresh \subseteq Timer \cup {"ic"}
    /\ icq \subseteq Route /\ hcq \subseteq Route
    /\ ic \in Workers /\ hc \in RouteWorkers
    /\ entry \in Timer \cup {NoTimer}
    /\ tm \in [Timer -> Timers]
    /\ events \in Nat /\ crashes \in Nat

\* The operator never rewrites the listeners of a Gateway without the
\* managed-by annotation (README "will NOT overwrite existing Gateway"), not
\* even one that lost the annotation, or was created by a user, between a
\* goroutine's read and its write.
ForeignNeverOverwritten ==
    [][gw.st = "foreign" /\ gw'.st # "none" => gw' = gw]_vars

\* The two reconcilers only merge: no step of theirs takes a namespace from a
\* listener, whatever the other writers did since the copy was read.
MergeNeverShrinks ==
    [][gw' # gw /\ (IngressWorker \/ RouteWorker) =>
         \A h \in Host : gw.lst[h] \subseteq gw'.lst[h]]_vars

\* The debounced write leaves every listed route its listener, with the
\* route's namespace allowed, also when the source Ingress of the route is
\* gone by then and its TLS unknown.
ListedRoutesKeepListener ==
    [][\A t \in Timer : ExecWrite(t) =>
         \A r \in Route : \A h \in tm[t].listed[r] :
            gw.lst[h] # {} => RouteNs[r] \in gw'.lst[h]]_vars

\* What the goroutines do in separate steps, with copies read before, amounts
\* to atomic changes of the Gateway as it is: no update is lost, whichever
\* goroutines read the Gateway, or list the routes, at the same time.
Shared == INSTANCE SharedGateway WITH
    Lister <- Timer,
    wants <- [r \in Route |-> IF route[r].st = "live" THEN route[r].hosts ELSE {}],
    list <- [t \in Timer |-> tm[t].listed]

WritesAreAtomic == Shared!Spec

\* A managed Gateway without listeners is about to be looked at by the
\* goroutine that emptied it (the deletion check of executeGatewayUpdate); only
\* a restart leaves one behind.
EmptyGatewayIsTransient ==
    gw.st = "ours" /\ gw.lst = NoListeners =>
        crashes > 0 \/ \E t \in Timer : tm[t].pc \in {"check", "delete"}

\* When nothing is left to do, every live route of a live Ingress is served by
\* a listener of a managed Gateway.
Quiet ==
    /\ ic.pc = "idle" /\ hc.pc = "idle" /\ icq = {} /\ hcq = {}
    /\ \A t \in Timer : tm[t].pc = "idle"

LiveRoutesServed ==
    Quiet /\ gw.st # "foreign" =>
        \A r \in Route : Exists(r) /\ route[r].st = "live" =>
            \A h \in route[r].hosts : RouteNs[r] \in gw.lst[h]

\* A route being deleted is let go: the finalizer never blocks it for ever.
FinalizerReleased == \A r \in Route : route[r].st = "term" ~> route[r].st # "term"

\* A scheduled update is executed: a timer that replaced another, or whose
\* entry another execution deleted, still leads to a fresh list of routes.
Scheduled == \E t \in Timer : tm[t].pc \in {"armed", "fired", "list"}
Listing == \E t \in Timer : tm[t].pc = "get"
UpdateExecuted == Scheduled ~> Listing
=============================================================================
