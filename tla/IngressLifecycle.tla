-------------------------- MODULE IngressLifecycle --------------------------
(***************************************************************************)
(* The life of one Ingress under the operator (ingress_controller.go).     *)
(*                                                                         *)
(* The Ingress may be created, edited, deleted and created again, always   *)
(* under the same name: `uid' tells the incarnations apart, `rv' (the      *)
(* resourceVersion) the versions.  One worker reconciles it, step by step: *)
(* the skip rules, the finalizer, the HTTPRoute, the Gateway, the chosen   *)
(* post-processing of the source Ingress, and the entry in the reconcile   *)
(* cache, which is kept in memory and in ConfigMaps.  Two more write its   *)
(* HTTPRoute: the reconcile of a canary Ingress, which brings its primary  *)
(* up to date, and the admission webhook, where one is deployed.           *)
(*                                                                         *)
(* A hostname rule set is an element of Rules; Hostless is an Ingress that *)
(* has none.  The HTTPRoute is one object here; what its own controller    *)
(* and the Gateway do is in module GatewaySync.                            *)
(***************************************************************************)
EXTENDS Naturals

CONSTANTS
    Rules,          \* contents of an Ingress that can be translated
    Hostless,       \* contents without any hostname
    Class,          \* ingress classes
    Watched,        \* classes the class filters let through
    Disabled,       \* the class that disables an Ingress
    NoClass,        \* no original class saved
    Options,        \* configurations the operator may be started with
    MaxEvents,      \* bound: changes and failures from outside
    MaxUid,         \* bound: incarnations of the Ingress
    MaxCrashes      \* bound: restarts of the operator

ASSUME ContentAssumption == Hostless \notin Rules
ASSUME ClassAssumption == Watched \subseteq Class /\ Disabled \in Class /\ NoClass \notin Class
ASSUME OptionAssumption ==
    Options \subseteq [del: BOOLEAN, mode: {"none", "disable", "remove"}, clear: BOOLEAN]
ASSUME LifecycleBounds == MaxEvents \in Nat /\ MaxUid \in Nat /\ MaxCrashes \in Nat

VARIABLES
    opt,      \* --enable-deletion, --ingress-postprocessing and
              \* --clear-ingress-status-on-disable; fixed at the start
    obj,      \* the Ingress object
    route,    \* its HTTPRoute: [st, rules, owner]; owner = 0: no owner
    foreign,  \* the Gateway exists and is not managed by the operator
    queued,   \* the Ingress is in the work queue
    w,        \* the worker: [pc, o, clears, canary]; o: its copy of the Ingress;
              \* canary: it is reconciling a canary of the Ingress
    mem,      \* the reconcile cache: {<<uid, rv>>}
    disk,     \* the ConfigMaps it is saved to
    selfDel,  \* SelfDeletedIngresses: uids
    userCls,  \* history: the class the user last gave the Ingress
    userDel,  \* history: the uids a user deleted
    writer,   \* history: who wrote the HTTPRoute last: the operator, a canary's
              \* reconcile for an Ingress without finalizer, or the webhook
    events, crashes

envVars == <<userCls, userDel, events, crashes>>
cacheVars == <<mem, disk, selfDel>>
routeVars == <<route, writer>>
vars == <<opt, obj, routeVars, foreign, queued, w, cacheVars, envVars>>

-----------------------------------------------------------------------------
Ingresses ==
    [st: {"none", "live", "term"}, uid: Nat, rv: Nat, rules: Rules \cup {Hostless},
     cls: Class, ign: BOOLEAN, removed: BOOLEAN, dis: BOOLEAN,
     orig: Class \cup {NoClass}, fin: BOOLEAN, status: BOOLEAN]

NoIngress ==
    [st |-> "none", uid |-> 0, rv |-> 0, rules |-> Hostless, cls |-> Disabled,
     ign |-> FALSE, removed |-> FALSE, dis |-> FALSE, orig |-> NoClass,
     fin |-> FALSE, status |-> FALSE]

HTTPRoutes == [st: {"none", "live", "term"}, rules: Rules \cup {Hostless}, owner: Nat]
NoRoute == [st |-> "none", rules |-> Hostless, owner |-> 0]

\* clears: conflicts met by clearIngressStatus, which gives up after two.
MaxClears == 2
Workers == [pc: {"idle", "finalizer", "translate", "gateway", "mark", "delete",
                 "disable", "clear", "record", "cleanup", "finalize"},
            o: Ingresses, clears: 0..MaxClears, canary: BOOLEAN]
IdleWorker == [pc |-> "idle", o |-> NoIngress, clears |-> 0, canary |-> FALSE]

UserClass == Class \ {Disabled}

\* An object that is gone keeps its uid and rv, so that both only grow.
Gone(o) == [NoIngress EXCEPT !.uid = o.uid, !.rv = o.rv]

-----------------------------------------------------------------------------
(* What the handlers decide.                                               *)

\* Mutant: the cache is asked for the Ingress, not for its version.
shouldSkipReconcile_AnyVersion(o) == \E e \in mem : e[1] = o.uid

\* shouldSkipReconcile: this version was reconciled already.
shouldSkipReconcile(o) == <<o.uid, o.rv>> \in mem

\* matchesIngressClassFilter and matchesIngressClassIgnoreFilter.
classMatches(o) == o.cls \in Watched

\* shouldIncludeIngressForSynthesis.
shouldInclude(o) ==
    ~o.ign /\ classMatches(o) /\ ~o.removed /\ o.cls # Disabled /\ o.uid \notin selfDel

\* shouldSkipIngress, asked before anything else, also of an Ingress that is
\* being deleted.
shouldSkipIngress(o) == ~shouldInclude(o) \/ shouldSkipReconcile(o)

\* resolveIngressPostProcessingMode: the annotation goes before the option.
resolveMode(o) == IF o.dis THEN "disable" ELSE opt.mode

\* Mutant: the class is read after it was replaced.
originalClass_TooLate(o) == Disabled
\* Mutant: the flag is saved in place of the class.
originalClass_Flag(o) == o.orig = NoClass

\* disableIngress keeps the original class it saved before.
originalClass(o) == IF o.orig = NoClass THEN o.cls ELSE o.orig

\* Mutant: the write carries no resourceVersion.
Current_Blind == obj.st # "none"

\* The API server accepts an Update of the version it holds.
Current == obj.st # "none" /\ obj.rv = w.o.rv

\* Mutant: the version is read from the cluster when it is recorded.
recordedVersion_Reread == obj.rv

\* maybeRecordReconcile: the version of the worker's own copy.
recordedVersion == w.o.rv

\* One entry per uid.
Put(cache, u, v) == {e \in cache : e[1] # u} \cup {<<u, v>>}
Evict(cache, u) == {e \in cache : e[1] # u}

\* SaveReconcileCacheSharded stops at the first failure, so that the shards
\* of some uids may keep their old contents.
Saved(cache) ==
    {{e \in cache : e[1] \notin U} \cup {e \in disk : e[1] \in U} :
        U \in SUBSET {e[1] : e \in cache \cup disk}}

\* Mutant: the dependents are deleted with the Ingress.
orphaned_Background(rt, u) == rt

\* Delete with propagation policy Orphan: dependents lose their owner.
orphaned(rt, u) == IF rt.owner = u THEN [rt EXCEPT !.owner = 0] ELSE rt

-----------------------------------------------------------------------------
Init ==
    /\ opt \in Options
    /\ obj = NoIngress
    /\ route = NoRoute /\ writer = "operator"
    /\ foreign = FALSE
    /\ queued = FALSE
    /\ w = IdleWorker
    /\ mem = {} /\ disk = {} /\ selfDel = {}
    /\ userCls = NoClass /\ userDel = {}
    /\ events = 0 /\ crashes = 0

\* A write of the Ingress from outside: a new version, and a watch event.
Event == events < MaxEvents /\ events' = events + 1
Written(new) == /\ obj' = [new EXCEPT !.rv = obj.rv + 1]
                /\ queued' = TRUE

-----------------------------------------------------------------------------
(* Users, ingress-nginx, the reenabler and Kubernetes.                     *)

UserCreates(s, c) ==
    /\ Event
    /\ obj.st = "none" /\ obj.uid < MaxUid
    /\ Written([NoIngress EXCEPT !.st = "live", !.uid = obj.uid + 1,
                                 !.rules = s, !.cls = c])
    /\ userCls' = c
    /\ UNCHANGED <<opt, routeVars, foreign, w, cacheVars, userDel, crashes>>

UserEdits(s) ==
    /\ Event
    /\ obj.st # "none" /\ obj.rules # s
    /\ Written([obj EXCEPT !.rules = s])
    /\ UNCHANGED <<opt, routeVars, foreign, w, cacheVars, userCls, userDel, crashes>>

\* A manifest with the class is applied: annotations it does not name stay.
UserSetsClass(c) ==
    /\ Event
    /\ obj.st # "none" /\ obj.cls # c
    /\ Written([obj EXCEPT !.cls = c])
    /\ userCls' = c
    /\ UNCHANGED <<opt, routeVars, foreign, w, cacheVars, userDel, crashes>>

UserIgnores ==
    /\ Event
    /\ obj.st # "none"
    /\ Written([obj EXCEPT !.ign = ~obj.ign])
    /\ UNCHANGED <<opt, routeVars, foreign, w, cacheVars, userCls, userDel, crashes>>

\* With the finalizer the object stays, marked as being deleted.
UserDeletes ==
    /\ Event
    /\ obj.st = "live"
    /\ Written(IF obj.fin THEN [obj EXCEPT !.st = "term"] ELSE Gone(obj))
    /\ userDel' = userDel \cup {obj.uid}
    /\ UNCHANGED <<opt, routeVars, foreign, w, cacheVars, userCls, crashes>>

\* ingress-nginx publishes the address of an Ingress of its class.
StatusWritten ==
    /\ Event
    /\ obj.st # "none" /\ obj.cls # Disabled
    /\ Written([obj EXCEPT !.status = TRUE])
    /\ UNCHANGED <<opt, routeVars, foreign, w, cacheVars, userCls, userDel, crashes>>

\* restoreIngressState of the reenabler, for an Ingress isDisabledIngress
\* accepts; it retries until its update is accepted.  (Every Ingress has a
\* class here, so that one is saved.)
Reenable ==
    /\ Event
    /\ obj.st = "live" /\ obj.dis /\ obj.cls = Disabled /\ obj.orig # NoClass
    /\ Written([obj EXCEPT !.cls = obj.orig, !.dis = FALSE, !.orig = NoClass])
    /\ UNCHANGED <<opt, routeVars, foreign, w, cacheVars, userCls, userDel, crashes>>

\* A filter the Ingress refers to is edited: its watch enqueues the Ingress
\* unless the class filters exclude it.
FilterEdited ==
    /\ Event
    /\ obj.st # "none" /\ classMatches(obj)
    /\ queued' = TRUE
    /\ UNCHANGED <<opt, obj, routeVars, foreign, w, cacheVars, userCls, userDel, crashes>>

\* A user puts a Gateway of that name in place, or hands it over.
GatewayTaken ==
    /\ Event
    /\ foreign' = ~foreign
    /\ UNCHANGED <<opt, obj, routeVars, queued, w, cacheVars, userCls, userDel, crashes>>

\* applied: ApplyHTTPRoutesAtomic overwrites an existing HTTPRoute, which keeps
\* its owner.
applied(rules, owner) ==
    IF route.st = "none" THEN [st |-> "live", rules |-> rules, owner |-> owner]
    ELSE [route EXCEPT !.rules = rules]

\* Handle of the webhook translates a request, whatever is stored.  Whether
\* the request is stored after that (UserCreates, UserEdits) it does not know.
WebhookApplies(s) ==
    /\ Event
    /\ route' = applied(s, 0)
    /\ writer' = "webhook"
    /\ UNCHANGED <<opt, obj, foreign, queued, w, cacheVars, userCls, userDel, crashes>>

\* An HTTPRoute whose owner is gone is collected; the HTTPRoute controller's
\* finalizer keeps it until its cleanup is done.
RouteCollected ==
    /\ route.st = "live" /\ route.owner # 0
    /\ obj.st = "none" \/ obj.uid # route.owner
    /\ route' = [route EXCEPT !.st = "term"]
    /\ UNCHANGED <<opt, obj, writer, foreign, queued, w, cacheVars, envVars>>

RouteReleased ==
    /\ route.st = "term"
    /\ route' = NoRoute
    /\ UNCHANGED <<opt, obj, writer, foreign, queued, w, cacheVars, envVars>>

-----------------------------------------------------------------------------
(* The worker.                                                             *)

\* After an error the Ingress that is being reconciled is tried again.
Requeue == w' = IdleWorker /\ queued' = (queued \/ ~w.canary)
Goto(pc) == w' = [w EXCEPT !.pc = pc]
\* The worker's Update of its copy, and where it goes when accepted; a
\* refused Update is an error and the Ingress is requeued.
UpdateIngress(new, pc) ==
    IF Current
    THEN /\ Written(new)
         /\ w' = [w EXCEPT !.pc = pc, !.o = obj']
    ELSE Requeue /\ UNCHANGED obj

\* Reconcile: Get, skip, or choose the first step.
Start ==
    /\ w.pc = "idle" /\ queued
    /\ queued' = FALSE
    /\ w' = IF obj.st = "none" \/ shouldSkipIngress(obj) THEN IdleWorker
            ELSE [IdleWorker EXCEPT !.o = obj, !.pc =
                    IF obj.st = "term" THEN "cleanup"
                    ELSE IF opt.del /\ ~obj.fin THEN "finalizer"
                    ELSE "translate"]
    /\ UNCHANGED <<opt, obj, routeVars, foreign, cacheVars, envVars>>

\* reconcileCanaryPrimaries: the reconcile of a canary lists its primaries and
\* translates them, past the cache and without the finalizer.
StartFromCanary ==
    /\ Event
    /\ w.pc = "idle" /\ obj.st = "live"
    /\ w' = [IdleWorker EXCEPT !.o = obj, !.pc = "translate", !.canary = TRUE]
    /\ UNCHANGED <<opt, obj, routeVars, foreign, queued, cacheVars, userCls, userDel, crashes>>

\* Mutant: the error of the Update is only logged.
AddFinalizer_ErrorIgnored ==
    /\ w.pc = "finalizer"
    /\ Goto("translate")
    /\ IF Current THEN Written([w.o EXCEPT !.fin = TRUE]) ELSE UNCHANGED <<obj, queued>>
    /\ UNCHANGED <<opt, routeVars, foreign, cacheVars, envVars>>

AddFinalizer ==
    /\ w.pc = "finalizer"
    /\ UpdateIngress([w.o EXCEPT !.fin = TRUE], "translate")
    /\ UNCHANGED <<opt, routeVars, foreign, cacheVars, envVars>>

\* reconcileIngressToHTTPRoute up to the HTTPRoute.  Nothing is done without
\* hostnames.
Translate ==
    /\ w.pc = "translate"
    /\ IF ~shouldInclude(w.o) \/ w.o.rules = Hostless
       THEN Goto("record") /\ UNCHANGED routeVars
       ELSE /\ Goto("gateway")
            /\ route' = applied(w.o.rules, w.o.uid)
            /\ writer' = IF w.canary /\ ~w.o.fin THEN "canary" ELSE "operator"
    /\ UNCHANGED <<opt, obj, foreign, queued, cacheVars, envVars>>

\* The listeners of the Gateway, and the post-processing mode.  The
\* reconcile ends, successfully, at a Gateway of somebody else.
Gateway ==
    /\ w.pc = "gateway"
    /\ Goto(IF foreign \/ resolveMode(w.o) = "none" THEN "record"
            ELSE IF resolveMode(w.o) = "remove" THEN "mark" ELSE "disable")
    /\ UNCHANGED <<opt, obj, routeVars, foreign, queued, cacheVars, envVars>>

\* removeIngress: mark the Ingress, remember its uid ...
MarkRemoved ==
    /\ w.pc = "mark"
    /\ UpdateIngress([w.o EXCEPT !.removed = TRUE, !.ign = TRUE], "delete")
    /\ selfDel' = IF Current THEN selfDel \cup {w.o.uid} ELSE selfDel
    /\ UNCHANGED <<opt, routeVars, foreign, mem, disk, envVars>>

\* ... and delete what has that name now.
DeleteIngress ==
    /\ w.pc = "delete"
    /\ Goto("record")
    /\ IF obj.st = "live"
       THEN /\ Written(IF obj.fin THEN [obj EXCEPT !.st = "term"] ELSE Gone(obj))
            /\ route' = orphaned(route, obj.uid)
       ELSE UNCHANGED <<obj, route, queued>>
    /\ UNCHANGED <<opt, writer, foreign, cacheVars, envVars>>

AfterDisable(o) == IF opt.clear /\ o.status THEN "clear" ELSE "record"

\* disableIngress: done when the annotation says so, whatever the class is.
DisableIngress ==
    /\ w.pc = "disable"
    /\ IF w.o.dis
       THEN Goto(AfterDisable(w.o)) /\ UNCHANGED <<obj, queued>>
       ELSE UpdateIngress([w.o EXCEPT !.cls = Disabled, !.dis = TRUE,
                                      !.orig = originalClass(w.o)],
                          AfterDisable(w.o))
    /\ UNCHANGED <<opt, routeVars, foreign, cacheVars, envVars>>

\* clearIngressStatus: the new version stays in the copy it wrote; after a
\* conflict the Ingress is read again, and after the second one it returns.
ClearIngressStatus ==
    /\ w.pc = "clear"
    /\ \/ /\ Current
          /\ Written([obj EXCEPT !.status = FALSE])
          /\ Goto("record")
       \/ ~Current /\ obj.st = "none" /\ Requeue /\ UNCHANGED obj
       \/ /\ ~Current /\ obj.st # "none"
          /\ w' = [w EXCEPT !.pc = IF w.clears + 1 < MaxClears THEN "clear" ELSE "record",
                            !.o = obj, !.clears = @ + 1]
          /\ UNCHANGED <<obj, queued>>
    /\ UNCHANGED <<opt, routeVars, foreign, cacheVars, envVars>>

\* maybeRecordReconcile, and the attempt to save the cache.  A canary's
\* reconcile records the canary only.
Record ==
    /\ w.pc = "record"
    /\ IF w.canary THEN UNCHANGED <<mem, disk>>
       ELSE mem' = Put(mem, w.o.uid, recordedVersion) /\ disk' \in Saved(mem')
    /\ w' = IdleWorker
    /\ UNCHANGED <<opt, obj, routeVars, foreign, queued, selfDel, envVars>>

\* Mutant: an HTTPRoute that is gone already is an error.
Cleanup_NotFoundIsError ==
    /\ w.pc = "cleanup"
    /\ IF route.st = "none" THEN Requeue ELSE Goto("finalize") /\ UNCHANGED queued
    /\ route' = IF opt.del /\ route.st = "live"
                THEN [route EXCEPT !.st = "term"] ELSE route
    /\ UNCHANGED <<opt, obj, writer, foreign, cacheVars, envVars>>

\* handleDeletion: delete the HTTPRoute when that is enabled ...
Cleanup ==
    /\ w.pc = "cleanup"
    /\ Goto("finalize")
    /\ route' = IF opt.del /\ route.st = "live"
                THEN [route EXCEPT !.st = "term"] ELSE route
    /\ UNCHANGED <<opt, obj, writer, foreign, queued, cacheVars, envVars>>

\* ... remove the finalizer, and with it the object, and evict its entry.
Finalize ==
    /\ w.pc = "finalize"
    /\ IF Current
       THEN /\ Written(Gone(obj))
            /\ w' = IdleWorker
            /\ mem' = Evict(mem, w.o.uid)
            /\ disk' \in Saved(mem')
       ELSE Requeue /\ UNCHANGED <<obj, mem, disk>>
    /\ UNCHANGED <<opt, routeVars, foreign, selfDel, envVars>>

\* A call of the worker fails: every one is followed by a requeue.
CallFails ==
    /\ Event
    /\ w.pc \notin {"idle", "record"}
    /\ Requeue
    /\ UNCHANGED <<opt, obj, routeVars, foreign, cacheVars, userCls, userDel, crashes>>

\* ReconcileCacheTTL and selfDeletedIngressTTL pass.
EntryExpires(e) ==
    /\ mem' = mem \ {e}
    /\ UNCHANGED <<opt, obj, routeVars, foreign, queued, w, disk, selfDel, envVars>>

SelfDeletedExpires(u) ==
    /\ selfDel' = selfDel \ {u}
    /\ UNCHANGED <<opt, obj, routeVars, foreign, queued, w, mem, disk, envVars>>

\* The operator starts again with the cache it can load; the initial list of
\* the watch enqueues the Ingress.
Crash ==
    /\ crashes < MaxCrashes
    /\ crashes' = crashes + 1
    /\ w' = IdleWorker
    /\ mem' \in {disk, {}}
    /\ selfDel' = {}
    /\ queued' = (obj.st # "none")
    /\ UNCHANGED <<opt, obj, routeVars, foreign, disk, userCls, userDel, events>>

-----------------------------------------------------------------------------
Environment ==
    \/ \E s \in Rules \cup {Hostless} : \/ \E c \in UserClass : UserCreates(s, c)
                                        \/ UserEdits(s) \/ WebhookApplies(s)
    \/ \E c \in UserClass : UserSetsClass(c)
    \/ UserIgnores \/ UserDeletes \/ StatusWritten \/ Reenable
    \/ FilterEdited \/ GatewayTaken
    \/ \E e \in mem : EntryExpires(e)
    \/ \E u \in selfDel : SelfDeletedExpires(u)
    \/ StartFromCanary \/ CallFails \/ Crash

Kubernetes == RouteCollected \/ RouteReleased

Worker ==
    \/ Start \/ AddFinalizer \/ Translate \/ Gateway
    \/ MarkRemoved \/ DeleteIngress \/ DisableIngress \/ ClearIngressStatus
    \/ Record \/ Cleanup \/ Finalize

Next == Environment \/ Kubernetes \/ Worker

Spec == Init /\ [][Next]_vars

\* controller-runtime keeps the worker running and retries what is requeued.
FairSpec == Spec /\ WF_vars(Worker) /\ WF_vars(Kubernetes)

-----------------------------------------------------------------------------
(* Properties.                                                             *)

\* Every variable stays in the set its declaration describes.
TypeOK ==
    /\ opt \in Options
    /\ obj \in Ingresses /\ route \in HTTPRoutes
    /\ foreign \in BOOLEAN /\ queued \in BOOLEAN
    /\ w \in Workers
    /\ mem \in SUBSET (Nat \X Nat) /\ disk \in SUBSET (Nat \X Nat)
    /\ selfDel \in SUBSET Nat /\ userDel \in SUBSET Nat
    /\ userCls \in Class \cup {NoClass} /\ writer \in {"operator", "canary", "webhook"}
    /\ events \in Nat /\ crashes \in Nat

\* The reconcile cache (shouldSkipReconcile), in memory or loaded after a
\* restart, never makes the operator skip a version that was not translated:
\* the live HTTPRoute of a cached version has that version's rules.  (Not with
\* status clearing: clearIngressStatus reads the Ingress again after a conflict
\* and its version is recorded untranslated.  And not for what the webhook wrote
\* since: the cache does not know of it.)
CacheSound ==
    ~opt.clear /\ writer # "webhook" /\ obj.st = "live" /\ obj.rules # Hostless
        /\ <<obj.uid, obj.rv>> \in mem \cup disk /\ route.st = "live"
        => route.rules = obj.rules

\* disableIngress and removeIngress take an Ingress out of service only in the
\* version that was translated, whatever was edited meanwhile; unless the webhook
\* overwrote the HTTPRoute in between.
HandoverOfCurrentRules ==
    [][(~obj.dis /\ obj'.dis) \/ (~obj.removed /\ obj'.removed)
         => /\ obj.rules # Hostless
            /\ route.st = "live" /\ writer # "webhook" => route.rules = obj.rules]_vars

\* A disabled Ingress remembers the class its user gave it last, so that the
\* reenabler restores that one.
SavedOriginal == obj.st # "none" /\ obj.cls = Disabled => obj.orig = userCls

\* Only an Ingress a user deleted takes its HTTPRoute along: what the operator
\* removes itself never leaves a route to the garbage collector.
RemovalKeepsRoute ==
    route.st = "live" /\ route.owner # 0 /\ (obj.st = "none" \/ obj.uid # route.owner)
        => route.owner \in userDel

\* With deletion enabled an Ingress is gone only after its HTTPRoute was
\* deleted (finalizer first, HTTPRoute second).  Two exceptions, which go past the
\* finalizer: a canary's reconcile that writes the HTTPRoute before the first
\* reconcile of the Ingress, and the webhook.
NoRouteLeftBehind ==
    opt.del /\ obj.st = "none" /\ route.st = "live" => writer \in {"canary", "webhook"}

\* With nothing left to do, an Ingress the operator wants has the HTTPRoute of
\* its present rules.
Wanted(o) == /\ o.st = "live" /\ o.rules # Hostless /\ o.cls \in Watched \ {Disabled}
             /\ ~o.ign /\ ~o.removed
Quiet == w.pc = "idle" /\ ~queued
QuietTranslated ==
    Quiet /\ Wanted(obj) => route.st = "live" /\ route.rules = obj.rules

\* For the first incarnation of an Ingress, whose HTTPRoute has no owner that
\* is gone, and without status clearing and a later write of the webhook (see
\* CacheSound), every edit reaches the HTTPRoute in spite of conflicts, failed
\* calls, restarts and the cache.
FirstTranslated == obj.uid = 1 /\ ~opt.clear /\ writer # "webhook" => QuietTranslated

\* An Ingress being deleted that the operator still attends to is let go.  (Not
\* with status clearing, which may record the version being deleted.)
Attended(o) == ~o.ign /\ ~o.removed /\ o.cls \in Watched \ {Disabled}
WantedDeletionCompletes ==
    obj.st = "term" /\ Attended(obj) /\ ~opt.clear ~> obj.st # "term" \/ ~Attended(obj)
=============================================================================
