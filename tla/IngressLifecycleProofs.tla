----------------------- MODULE IngressLifecycleProofs -----------------------
(***************************************************************************)
(* Safety of IngressLifecycle, for every set of rules, classes and options *)
(* and for every bound.                                                    *)
(***************************************************************************)
EXTENDS IngressLifecycle, TLAPS

USE DEF routeVars

-----------------------------------------------------------------------------
(* The inductive invariant.                                                *)

\* What the worker's copy says of the Ingress: it is an older version, or the
\* present one, unchanged.
CopyOlder ==
    /\ w.pc # "idle" => w.o.rv <= obj.rv /\ (w.o.rv = obj.rv => w.o = obj)
    /\ w.pc # "record" => w.clears < MaxClears

\* The cache knows no version the worker has not seen.
CacheOlder ==
    \A e \in mem \cup disk : e[2] <= obj.rv /\ (w.pc # "idle" => e[2] <= w.o.rv)

\* Between the translation and the end of the reconcile a live HTTPRoute has
\* the rules of the worker's copy, unless the webhook came in between.  What a
\* canary's reconcile leaves out of the translation it does not record.
CopyTranslated ==
    /\ w.pc \in {"finalizer", "translate"} /\ ~w.canary => shouldInclude(w.o)
    /\ w.pc \in {"gateway", "mark", "disable"} => w.o.rules # Hostless
    /\ ~opt.clear => w.pc # "clear"
    /\ \/ w.pc \in {"gateway", "mark", "disable", "delete"}
       \/ w.pc = "record" /\ ~opt.clear /\ ~w.canary
      => (writer # "webhook" /\ w.o.rules # Hostless /\ route.st = "live"
            => route.rules = w.o.rules)

\* The class, the annotation and the saved class agree.
ClassSaved ==
    /\ userCls # Disabled
    /\ obj.st # "none" =>
        /\ obj.cls # Disabled => obj.cls = userCls
        /\ obj.cls = Disabled => obj.dis /\ obj.orig = userCls
        /\ ~obj.dis => obj.orig = NoClass

\* With deletion enabled the finalizer is there before the HTTPRoute the operator
\* writes, and until the HTTPRoute is being deleted; a canary's reconcile goes
\* with what its copy of the Ingress has.
FinalizerFirst ==
    /\ obj.st = "term" => obj.fin
    /\ opt.del =>
        /\ obj.fin => obj.st # "none"
        /\ route.st = "live" /\ writer = "operator" => obj.fin
        /\ w.pc \notin {"idle", "finalizer"} /\ (w.canary => w.o.fin) => obj.fin
        /\ w.pc = "finalize" /\ route.st = "live" => writer # "operator"

\* Whose HTTPRoute it is: the present Ingress's, or one's a user deleted.
OwnerKnown ==
    /\ route.st = "live" /\ route.owner # 0 =>
          route.owner \in userDel \/ (route.owner = obj.uid /\ obj.st = "live")
    /\ w.pc \in {"finalizer", "translate"} =>
          w.o.uid \in userDel \/ (w.o.uid = obj.uid /\ obj.st = "live")
    /\ w.pc \in {"cleanup", "finalize"} => w.o.st = "term"

\* All of it.
IInv == /\ TypeOK /\ CopyOlder /\ CacheOlder /\ CopyTranslated
        /\ CacheSound /\ ClassSaved /\ FinalizerFirst /\ OwnerKnown
-----------------------------------------------------------------------------
(* Type correctness.                                                       *)

\* The idle values have their types.
LEMMA IdleTypes ==
    /\ NoIngress \in Ingresses
    /\ NoRoute \in HTTPRoutes
    /\ IdleWorker \in Workers
<1>1. NoIngress \in Ingresses
  BY ClassAssumption DEF NoIngress, Ingresses
<1>2. NoRoute \in HTTPRoutes
  BY DEF NoRoute, HTTPRoutes
<1>3. IdleWorker \in Workers
  BY <1>1 DEF IdleWorker, Workers, MaxClears
<1> QED BY <1>1, <1>2, <1>3

\* What is left of an object has its type.
LEMMA GoneType ==
    ASSUME NEW o \in Ingresses
    PROVE  Gone(o) \in Ingresses
BY IdleTypes DEF Gone, Ingresses

\* A write changes the version only.
LEMMA WrittenType ==
    ASSUME NEW new \in Ingresses, obj \in Ingresses, Written(new)
    PROVE  obj' \in Ingresses /\ obj'.rv = obj.rv + 1 /\ queued' \in BOOLEAN
BY DEF Written, Ingresses

\* An Update by the worker: accepted or refused, the types stay.
LEMMA UpdateType ==
    ASSUME NEW new \in Ingresses, NEW pc \in {"translate", "delete", "record", "clear"},
           TypeOK, UpdateIngress(new, pc)
    PROVE  obj' \in Ingresses /\ queued' \in BOOLEAN /\ w' \in Workers
<1>1. CASE Current
  <2>1. obj' \in Ingresses /\ queued' \in BOOLEAN
    BY <1>1, WrittenType DEF UpdateIngress, TypeOK
  <2>2. w' = [w EXCEPT !.pc = pc, !.o = obj']
    BY <1>1 DEF UpdateIngress
  <2> QED BY <2>1, <2>2 DEF TypeOK, Workers
<1>2. CASE ~Current
  BY <1>2, IdleTypes DEF UpdateIngress, Requeue, TypeOK
<1> QED BY <1>1, <1>2

\* A saved cache holds entries of the memory and of what was saved before.
LEMMA SavedEntries ==
    ASSUME NEW cache, NEW d \in Saved(cache)
    PROVE  d \subseteq cache \cup disk
BY DEF Saved

\* The worker goes on with the same copy.
LEMMA GotoType ==
    ASSUME TypeOK, NEW pc \in {"translate", "gateway", "mark", "delete", "disable",
                               "clear", "record", "finalize"}, Goto(pc)
    PROVE  w' \in Workers
BY DEF Goto, TypeOK, Workers

\* The options are fixed.
LEMMA OptionsFixed == [Next]_vars => opt' = opt
<1>1. Environment => opt' = opt
  BY DEF Environment, UserCreates, UserEdits, UserSetsClass, UserIgnores, UserDeletes,
         StatusWritten, Reenable, FilterEdited, GatewayTaken, EntryExpires,
         SelfDeletedExpires, CallFails, Crash, WebhookApplies, StartFromCanary
<1>2. Kubernetes => opt' = opt
  BY DEF Kubernetes, RouteCollected, RouteReleased
<1>3. Worker => opt' = opt
  BY DEF Worker, Start, AddFinalizer, Translate, Gateway, MarkRemoved, DeleteIngress,
         DisableIngress, ClearIngressStatus, Record, Cleanup, Finalize
<1> QED BY <1>1, <1>2, <1>3 DEF Next, vars

\* Every step keeps the types, given that clearIngressStatus counts its
\* conflicts.
LEMMA TypeStep == TypeOK /\ CopyOlder /\ [Next]_vars => TypeOK'
<1> SUFFICES ASSUME TypeOK, CopyOlder, [Next]_vars PROVE TypeOK'
  OBVIOUS
<1> USE OptionsFixed DEF TypeOK
<1>1. ASSUME NEW s \in Rules \cup {Hostless}, NEW c \in UserClass, UserCreates(s, c)
      PROVE  TypeOK'
  <2>1. [NoIngress EXCEPT !.st = "live", !.uid = obj.uid + 1, !.rules = s, !.cls = c]
          \in Ingresses
    <3>1. obj.uid + 1 \in Nat /\ c \in Class
      BY DEF Ingresses, UserClass
    <3> QED BY <3>1, ClassAssumption DEF NoIngress, Ingresses
  <2> QED BY <1>1, <2>1, WrittenType DEF UserCreates, Event, cacheVars, UserClass
<1>2. ASSUME NEW s \in Rules \cup {Hostless}, UserEdits(s) PROVE TypeOK'
  <2>1. [obj EXCEPT !.rules = s] \in Ingresses
    BY DEF Ingresses
  <2> QED BY <1>2, <2>1, WrittenType DEF UserEdits, Event, cacheVars
<1>3. ASSUME NEW c \in UserClass, UserSetsClass(c) PROVE TypeOK'
  <2>1. [obj EXCEPT !.cls = c] \in Ingresses
    BY DEF Ingresses, UserClass
  <2> QED BY <1>3, <2>1, WrittenType DEF UserSetsClass, Event, cacheVars, UserClass
<1>4. ASSUME UserIgnores PROVE TypeOK'
  <2>1. [obj EXCEPT !.ign = ~obj.ign] \in Ingresses
    BY DEF Ingresses
  <2> QED BY <1>4, <2>1, WrittenType DEF UserIgnores, Event, cacheVars
<1>5. ASSUME UserDeletes PROVE TypeOK'
  <2>1. (IF obj.fin THEN [obj EXCEPT !.st = "term"] ELSE Gone(obj)) \in Ingresses
    BY GoneType DEF Ingresses
  <2>2. obj.uid \in Nat
    BY DEF Ingresses
  <2> QED BY <1>5, <2>1, <2>2, WrittenType DEF UserDeletes, Event, cacheVars
<1>6. ASSUME StatusWritten PROVE TypeOK'
  <2>1. [obj EXCEPT !.status = TRUE] \in Ingresses
    BY DEF Ingresses
  <2> QED BY <1>6, <2>1, WrittenType DEF StatusWritten, Event, cacheVars
<1>7. ASSUME Reenable PROVE TypeOK'
  <2>1. [obj EXCEPT !.cls = obj.orig, !.dis = FALSE, !.orig = NoClass] \in Ingresses
    BY <1>7 DEF Ingresses, Reenable
  <2> QED BY <1>7, <2>1, WrittenType DEF Reenable, Event, cacheVars
<1>8. ASSUME FilterEdited \/ GatewayTaken PROVE TypeOK'
  <2>1. foreign' \in BOOLEAN
    BY <1>8 DEF FilterEdited, GatewayTaken
  <2>2. queued' \in BOOLEAN
    BY <1>8 DEF FilterEdited, GatewayTaken
  <2>3. events' \in Nat
    BY <1>8 DEF FilterEdited, GatewayTaken, Event
  <2> QED BY <1>8, <2>1, <2>2, <2>3 DEF FilterEdited, GatewayTaken, cacheVars
<1>9. ASSUME CallFails PROVE TypeOK'
  BY <1>9, IdleTypes DEF CallFails, Requeue, Event, cacheVars
<1>10. ASSUME NEW e \in mem, EntryExpires(e) PROVE TypeOK'
  BY <1>10 DEF EntryExpires, envVars
<1>11. ASSUME NEW u \in selfDel, SelfDeletedExpires(u) PROVE TypeOK'
  BY <1>11 DEF SelfDeletedExpires, envVars
<1>12. ASSUME Crash PROVE TypeOK'
  BY <1>12, IdleTypes DEF Crash
<1>13. ASSUME RouteCollected \/ RouteReleased PROVE TypeOK'
  <2>1. [route EXCEPT !.st = "term"] \in HTTPRoutes
    BY DEF HTTPRoutes
  <2> QED BY <1>13, <2>1, IdleTypes DEF RouteCollected, RouteReleased, cacheVars, envVars
<1>14. ASSUME Start PROVE TypeOK'
  <2>1. ASSUME NEW pc \in {"cleanup", "finalizer", "translate"}
        PROVE  [IdleWorker EXCEPT !.o = obj, !.pc = pc] \in Workers
    BY IdleTypes DEF Workers
  <2>2. w' \in Workers
    BY <1>14, <2>1, IdleTypes DEF Start
  <2> QED BY <1>14, <2>2 DEF Start, cacheVars, envVars
<1>15. ASSUME AddFinalizer PROVE TypeOK'
  <2>1. [w.o EXCEPT !.fin = TRUE] \in Ingresses
    BY DEF Workers, Ingresses
  <2> QED BY <1>15, <2>1, UpdateType DEF AddFinalizer, cacheVars, envVars
<1>16. ASSUME Translate PROVE TypeOK'
  <2>1. w' \in Workers
    BY <1>16, GotoType DEF Translate
  <2>2. route' \in HTTPRoutes
    BY <1>16 DEF Translate, applied, HTTPRoutes, Workers, Ingresses
  <2>3. writer' \in {"operator", "canary", "webhook"}
    BY <1>16 DEF Translate
  <2> QED BY <1>16, <2>1, <2>2, <2>3 DEF Translate, cacheVars, envVars
<1>17. ASSUME Gateway PROVE TypeOK'
  <2>1. w' \in Workers
    BY <1>17, GotoType DEF Gateway
  <2> QED BY <1>17, <2>1 DEF Gateway, cacheVars, envVars
<1>18. ASSUME MarkRemoved PROVE TypeOK'
  <2>1. [w.o EXCEPT !.removed = TRUE, !.ign = TRUE] \in Ingresses /\ w.o.uid \in Nat
    BY DEF Workers, Ingresses
  <2> QED BY <1>18, <2>1, UpdateType DEF MarkRemoved, envVars
<1>19. ASSUME DeleteIngress PROVE TypeOK'
  <2>1. (IF obj.fin THEN [obj EXCEPT !.st = "term"] ELSE Gone(obj)) \in Ingresses
    BY GoneType DEF Ingresses
  <2>2. w' \in Workers
    BY <1>19, GotoType DEF DeleteIngress
  <2>3. orphaned(route, obj.uid) \in HTTPRoutes
    BY DEF orphaned, HTTPRoutes
  <2> QED BY <1>19, <2>1, <2>2, <2>3, WrittenType DEF DeleteIngress, cacheVars, envVars
<1>20. ASSUME DisableIngress PROVE TypeOK'
  <2>1. [w.o EXCEPT !.cls = Disabled, !.dis = TRUE, !.orig = originalClass(w.o)] \in Ingresses
    BY ClassAssumption DEF Workers, Ingresses, originalClass
  <2>2. AfterDisable(w.o) \in {"record", "clear"}
    BY DEF AfterDisable
  <2>3. obj' \in Ingresses /\ queued' \in BOOLEAN /\ w' \in Workers
    BY <1>20, <2>1, <2>2, UpdateType, GotoType DEF DisableIngress
  <2> QED BY <1>20, <2>3 DEF DisableIngress, cacheVars, envVars
<1>21. ASSUME ClearIngressStatus PROVE TypeOK'
  <2>1. [obj EXCEPT !.status = FALSE] \in Ingresses
    BY DEF Ingresses
  <2>2. CASE Current
    BY <1>21, <2>1, <2>2, WrittenType, GotoType DEF ClearIngressStatus, cacheVars, envVars
  <2>3. CASE ~Current /\ obj.st = "none"
    BY <1>21, <2>3, IdleTypes DEF ClearIngressStatus, Requeue, cacheVars, envVars
  <2>4. CASE ~Current /\ obj.st # "none"
    <3>1. w.clears + 1 \in 0..MaxClears
      BY <1>21 DEF ClearIngressStatus, CopyOlder, Workers, MaxClears
    <3>2. w' \in Workers /\ UNCHANGED <<obj, queued>>
      BY <1>21, <2>4, <3>1 DEF ClearIngressStatus, Workers
    <3> QED BY <1>21, <3>2 DEF ClearIngressStatus, cacheVars, envVars
  <2> QED BY <2>2, <2>3, <2>4
<1>22. ASSUME Record PROVE TypeOK'
  <2>1. mem' \in SUBSET (Nat \X Nat)
    BY <1>22 DEF Record, Put, recordedVersion, Workers, Ingresses
  <2>2. disk' \in SUBSET (Nat \X Nat)
    BY <1>22, <2>1, SavedEntries DEF Record
  <2> QED BY <1>22, <2>1, <2>2, IdleTypes DEF Record, envVars
<1>23. ASSUME Cleanup PROVE TypeOK'
  <2>1. w' \in Workers
    BY <1>23, GotoType DEF Cleanup
  <2>2. route' \in HTTPRoutes
    BY <1>23 DEF Cleanup, HTTPRoutes
  <2> QED BY <1>23, <2>1, <2>2 DEF Cleanup, cacheVars, envVars
<1>24. ASSUME Finalize PROVE TypeOK'
  <2>1. CASE Current
    <3>1. mem' \in SUBSET (Nat \X Nat)
      BY <1>24, <2>1 DEF Finalize, Evict
    <3>2. disk' \in SUBSET (Nat \X Nat)
      BY <1>24, <2>1, <3>1, SavedEntries DEF Finalize
    <3> QED BY <1>24, <2>1, <3>1, <3>2, GoneType, WrittenType, IdleTypes DEF Finalize, envVars
  <2>2. CASE ~Current
    BY <1>24, <2>2, IdleTypes DEF Finalize, Requeue, envVars
  <2> QED BY <2>1, <2>2
<1>25. CASE UNCHANGED vars
  BY <1>25 DEF vars, cacheVars, envVars
<1>26. ASSUME NEW s \in Rules \cup {Hostless}, WebhookApplies(s) PROVE TypeOK'
  <2>1. route' \in HTTPRoutes
    BY <1>26 DEF WebhookApplies, applied, HTTPRoutes
  <2> QED BY <1>26, <2>1 DEF WebhookApplies, Event, cacheVars
<1>27. ASSUME StartFromCanary PROVE TypeOK'
  <2>1. w' \in Workers
    BY <1>27, IdleTypes DEF StartFromCanary, Workers
  <2> QED BY <1>27, <2>1 DEF StartFromCanary, Event, cacheVars
<1> QED BY <1>1, <1>2, <1>3, <1>4, <1>5, <1>6, <1>7, <1>8, <1>9, <1>10, <1>11, <1>12,
           <1>13, <1>14, <1>15, <1>16, <1>17, <1>18, <1>19, <1>20, <1>21, <1>22, <1>23,
           <1>24, <1>25, <1>26, <1>27 DEF Next, Environment, Kubernetes, Worker

-----------------------------------------------------------------------------
(* The worker's copy, the cache and the HTTPRoute.                         *)

\* The writes of the Ingress from outside.
UserWrites ==
    \/ \E s \in Rules \cup {Hostless} : \/ \E c \in UserClass : UserCreates(s, c)
                                        \/ UserEdits(s)
    \/ \E c \in UserClass : UserSetsClass(c)
    \/ UserIgnores \/ UserDeletes \/ StatusWritten \/ Reenable

\* A write from outside makes a new version and touches nothing of the
\* operator's.
LEMMA UserWritesVersion ==
    ASSUME TypeOK, UserWrites
    PROVE  obj'.rv = obj.rv + 1 /\ UNCHANGED <<routeVars, w, mem, disk, selfDel>>
<1>1. ASSUME NEW new, Written(new), obj' \in Ingresses PROVE obj'.rv = obj.rv + 1
  BY <1>1 DEF Written, Ingresses
<1> QED BY DEF UserWrites, UserCreates, UserEdits, UserSetsClass, UserIgnores, UserDeletes,
               StatusWritten, Reenable, Written, cacheVars, Gone, NoIngress, TypeOK, Ingresses

\* The two outcomes of an Update by the worker.
LEMMA UpdateOutcome ==
    ASSUME NEW new \in Ingresses, NEW pc \in {"translate", "delete", "record", "clear"},
           TypeOK, CopyOlder, w.pc # "idle", UpdateIngress(new, pc)
    PROVE  \/ /\ Current /\ w.o = obj
              /\ obj' = [new EXCEPT !.rv = obj.rv + 1]
              /\ w'.pc = pc /\ w'.o = obj' /\ w'.clears = w.clears /\ w'.canary = w.canary
           \/ ~Current /\ obj' = obj /\ w' = IdleWorker
<1>1. CASE Current
  BY <1>1 DEF UpdateIngress, Current, Written, CopyOlder, TypeOK, Workers
<1>2. CASE ~Current
  BY <1>2 DEF UpdateIngress, Requeue
<1> QED BY <1>1, <1>2

\* Steps that touch neither the Ingress, the HTTPRoute, the worker nor the cache.
Elsewhere == FilterEdited \/ GatewayTaken \/ \E u \in selfDel : SelfDeletedExpires(u)

\* The webhook's write of the HTTPRoute.
WebhookWrites == \E s \in Rules \cup {Hostless} : WebhookApplies(s)

\* It touches nothing else.
LEMMA WebhookStep ==
    ASSUME TypeOK, WebhookWrites
    PROVE  /\ UNCHANGED <<obj, queued, w, mem, disk, selfDel, userCls, userDel>>
           /\ writer' = "webhook" /\ route'.owner \in {route.owner, 0}
           /\ route'.st = route.st \/ (route.st = "none" /\ route'.st = "live")
BY DEF WebhookWrites, WebhookApplies, applied, cacheVars, TypeOK, HTTPRoutes

\* What the start of a reconcile for a canary leaves alone.
LEMMA CanaryStarts ==
    ASSUME StartFromCanary
    PROVE  /\ UNCHANGED <<obj, routeVars, queued, mem, disk, selfDel, userCls, userDel>>
           /\ obj.st = "live" /\ w.pc = "idle"
           /\ w'.o = obj /\ w'.pc = "translate" /\ w'.canary /\ w'.clears = 0
BY DEF StartFromCanary, IdleWorker, cacheVars

\* Every write of the Ingress makes a version the worker's copy does not have,
\* unless it is the worker's own.
LEMMA CopyStep ==
    TypeOK /\ CopyOlder /\ [Next]_vars => CopyOlder'
<1> SUFFICES ASSUME TypeOK, CopyOlder, [Next]_vars PROVE CopyOlder'
  OBVIOUS
<1>0. TypeOK'
  BY TypeStep
<1>t. obj.rv \in Nat /\ obj'.rv \in Nat /\ w.o.rv \in Nat /\ w.clears \in Nat
  BY <1>0 DEF TypeOK, Workers, Ingresses, MaxClears
<1>i. IdleWorker.pc = "idle" /\ IdleWorker.clears < MaxClears /\ IdleWorker.clears = 0
  BY DEF IdleWorker, MaxClears
<1>1. CASE UserWrites
  BY <1>1, <1>t, UserWritesVersion DEF CopyOlder
<1>2. CASE Elsewhere \/ RouteCollected \/ RouteReleased \/ \E e \in mem : EntryExpires(e)
  BY <1>2 DEF CopyOlder, Elsewhere, FilterEdited, GatewayTaken, SelfDeletedExpires,
              RouteCollected, RouteReleased, EntryExpires
<1>3. CASE CallFails \/ Crash \/ Record
  BY <1>3, <1>i DEF CopyOlder, CallFails, Requeue, Crash, Record
<1>4. CASE Start
  <2>1. \/ w' = IdleWorker
        \/ w'.o = obj /\ w'.clears = 0
    BY <1>4, <1>i DEF Start, IdleWorker
  <2> QED BY <1>4, <1>i, <1>t, <2>1 DEF Start, CopyOlder, MaxClears
<1>5. ASSUME NEW new \in Ingresses, NEW pc \in {"translate", "delete", "record", "clear"},
             w.pc \notin {"idle", "record"}, UpdateIngress(new, pc)
      PROVE  CopyOlder'
  BY <1>5, <1>i, <1>t, UpdateOutcome DEF CopyOlder
<1>6. CASE AddFinalizer
  <2>1. [w.o EXCEPT !.fin = TRUE] \in Ingresses
    BY DEF TypeOK, Workers, Ingresses
  <2> QED BY <1>6, <2>1, <1>5 DEF AddFinalizer
<1>7. CASE MarkRemoved
  <2>1. [w.o EXCEPT !.removed = TRUE, !.ign = TRUE] \in Ingresses
    BY DEF TypeOK, Workers, Ingresses
  <2> QED BY <1>7, <2>1, <1>5 DEF MarkRemoved
<1>g. ASSUME NEW pc, Goto(pc), w.pc \notin {"idle", "record"}, 
             obj' = obj \/ obj'.rv = obj.rv + 1
      PROVE  CopyOlder'
  <2>1. w'.o = w.o /\ w'.clears = w.clears
    BY <1>g DEF Goto, TypeOK, Workers
  <2> QED BY <1>g, <2>1, <1>t DEF CopyOlder
<1>8. CASE DisableIngress
  <2>1. [w.o EXCEPT !.cls = Disabled, !.dis = TRUE, !.orig = originalClass(w.o)] \in Ingresses
    BY ClassAssumption DEF TypeOK, Workers, Ingresses, originalClass
  <2>2. AfterDisable(w.o) \in {"record", "clear"}
    BY DEF AfterDisable
  <2> QED BY <1>8, <2>1, <2>2, <1>5, <1>g DEF DisableIngress
<1>9. CASE Translate \/ Gateway \/ Cleanup
  BY <1>9, <1>g DEF Translate, Gateway, Cleanup
<1>10. CASE DeleteIngress
  <2>1. (IF obj.fin THEN [obj EXCEPT !.st = "term"] ELSE Gone(obj)) \in Ingresses
    BY GoneType DEF Ingresses, TypeOK
  <2>2. obj' = obj \/ obj'.rv = obj.rv + 1
    BY <1>10, <2>1, WrittenType DEF DeleteIngress, TypeOK
  <2> QED BY <1>10, <2>2, <1>g DEF DeleteIngress
<1>11. CASE ClearIngressStatus
  <2>1. CASE Current
    <3>1. [obj EXCEPT !.status = FALSE] \in Ingresses
      BY DEF Ingresses, TypeOK
    <3>2. obj'.rv = obj.rv + 1
      BY <1>11, <2>1, <3>1, WrittenType DEF ClearIngressStatus, TypeOK
    <3> QED BY <1>11, <2>1, <3>2, <1>g DEF ClearIngressStatus
  <2>2. CASE ~Current
    <3>1. \/ w' = IdleWorker /\ obj' = obj
          \/ /\ obj' = obj /\ w'.o = obj
             /\ w'.pc = "record" \/ w'.clears < MaxClears
      BY <1>11, <2>2, <1>t DEF ClearIngressStatus, Requeue, TypeOK, Workers
    <3> QED BY <3>1, <1>i, <1>t DEF CopyOlder
  <2> QED BY <2>1, <2>2
<1>12. CASE Finalize
  BY <1>12, <1>i DEF Finalize, Requeue, CopyOlder
<1>13. CASE UNCHANGED vars
  BY <1>13 DEF vars, CopyOlder
<1>14. CASE WebhookWrites \/ StartFromCanary
  BY <1>14, <1>t, WebhookStep, CanaryStarts DEF CopyOlder, MaxClears
<1> QED BY <1>1, <1>2, <1>3, <1>4, <1>6, <1>7, <1>8, <1>9, <1>10, <1>11, <1>12, <1>13, <1>14
        DEF Next, Environment, Kubernetes, Worker, UserWrites, Elsewhere, WebhookWrites

\* Versions only grow, of the Ingress and, during a reconcile, of the copy.
LEMMA VersionsGrow ==
    ASSUME TypeOK, CopyOlder, [Next]_vars
    PROVE  /\ obj'.rv >= obj.rv
           /\ obj' # obj => obj'.rv = obj.rv + 1
           /\ w'.pc # "idle" => \/ w.pc # "idle" /\ w'.o.rv >= w.o.rv
                                \/ w'.o.rv = obj.rv
<1>t. obj.rv \in Nat /\ w.o.rv \in Nat
  BY DEF TypeOK, Workers, Ingresses
<1>i. IdleWorker.pc = "idle"
  BY DEF IdleWorker
<1>1. CASE UserWrites
  BY <1>1, <1>t, UserWritesVersion
<1>2. CASE Elsewhere \/ RouteCollected \/ RouteReleased \/ \E e \in mem : EntryExpires(e)
  BY <1>2, <1>t DEF Elsewhere, FilterEdited, GatewayTaken, SelfDeletedExpires,
              RouteCollected, RouteReleased, EntryExpires
<1>3. CASE CallFails \/ Crash \/ Record
  BY <1>3, <1>t, <1>i DEF CallFails, Requeue, Crash, Record
<1>4. CASE Start
  <2>1. w' = IdleWorker \/ w'.o = obj
    BY <1>4 DEF Start, IdleWorker
  <2> QED BY <1>4, <1>t, <1>i, <2>1 DEF Start
<1>5. ASSUME NEW new \in Ingresses, NEW pc \in {"translate", "delete", "record", "clear"},
             w.pc # "idle", UpdateIngress(new, pc)
      PROVE  /\ obj'.rv >= obj.rv
             /\ obj' # obj => obj'.rv = obj.rv + 1
             /\ w'.pc # "idle" => w'.o.rv >= w.o.rv
  <2>1. [new EXCEPT !.rv = obj.rv + 1].rv = obj.rv + 1
    BY DEF Ingresses
  <2>2. \/ w.o = obj /\ obj' = [new EXCEPT !.rv = obj.rv + 1] /\ w'.o = obj'
        \/ obj' = obj /\ w' = IdleWorker
    BY <1>5, UpdateOutcome
  <2>3. \/ w.o.rv = obj.rv /\ obj'.rv = obj.rv + 1 /\ w'.o.rv = obj.rv + 1
        \/ obj' = obj /\ w'.pc = "idle"
    BY <2>1, <2>2, <1>i
  <2> QED BY <2>3, <1>t
<1>6. CASE AddFinalizer
  <2>1. [w.o EXCEPT !.fin = TRUE] \in Ingresses
    BY DEF TypeOK, Workers, Ingresses
  <2> QED BY <1>6, <2>1, <1>5 DEF AddFinalizer
<1>7. CASE MarkRemoved
  <2>1. [w.o EXCEPT !.removed = TRUE, !.ign = TRUE] \in Ingresses
    BY DEF TypeOK, Workers, Ingresses
  <2> QED BY <1>7, <2>1, <1>5 DEF MarkRemoved
<1>g. ASSUME NEW pc, Goto(pc), w.pc # "idle" PROVE w'.o.rv >= w.o.rv
  BY <1>g, <1>t DEF Goto, TypeOK, Workers
<1>8. CASE DisableIngress
  <2>1. [w.o EXCEPT !.cls = Disabled, !.dis = TRUE, !.orig = originalClass(w.o)] \in Ingresses
    BY ClassAssumption DEF TypeOK, Workers, Ingresses, originalClass
  <2>2. AfterDisable(w.o) \in {"record", "clear"}
    BY DEF AfterDisable
  <2> QED BY <1>8, <1>t, <2>1, <2>2, <1>5, <1>g DEF DisableIngress
<1>9. CASE Translate \/ Gateway \/ Cleanup
  BY <1>9, <1>t, <1>g DEF Translate, Gateway, Cleanup
<1>10. CASE DeleteIngress
  <2>1. (IF obj.fin THEN [obj EXCEPT !.st = "term"] ELSE Gone(obj)) \in Ingresses
    BY GoneType DEF Ingresses, TypeOK
  <2>2. obj' = obj \/ obj'.rv = obj.rv + 1
    BY <1>10, <2>1, WrittenType DEF DeleteIngress, TypeOK
  <2> QED BY <1>10, <1>t, <2>2, <1>g DEF DeleteIngress
<1>11. CASE ClearIngressStatus
  <2>1. [obj EXCEPT !.status = FALSE] \in Ingresses
    BY DEF Ingresses, TypeOK
  <2>2. obj' = obj \/ obj'.rv = obj.rv + 1
    BY <1>11, <2>1, WrittenType DEF ClearIngressStatus, Requeue, TypeOK
  <2>3. w'.pc # "idle" => w'.o.rv >= w.o.rv \/ w'.o.rv = obj.rv
    BY <1>11, <1>i, <1>g DEF ClearIngressStatus, Requeue, TypeOK, Workers
  <2> QED BY <1>11, <1>t, <2>2, <2>3 DEF ClearIngressStatus
<1>12. CASE Finalize
  <2>1. obj' = obj \/ obj'.rv = obj.rv + 1
    BY <1>12, GoneType, WrittenType DEF Finalize, TypeOK
  <2> QED BY <1>12, <1>t, <1>i, <2>1 DEF Finalize, Requeue
<1>13. CASE UNCHANGED vars
  BY <1>13, <1>t DEF vars
<1>14. CASE WebhookWrites \/ StartFromCanary
  BY <1>14, <1>t, WebhookStep, CanaryStarts
<1> QED BY <1>1, <1>2, <1>3, <1>4, <1>6, <1>7, <1>8, <1>9, <1>10, <1>11, <1>12, <1>13, <1>14
        DEF Next, Environment, Kubernetes, Worker, UserWrites, Elsewhere, WebhookWrites

\* What the cache gains is the version of the worker's copy.
LEMMA CacheGains ==
    ASSUME TypeOK, [Next]_vars
    PROVE  mem' \cup disk' \subseteq
              mem \cup disk \cup (IF Record /\ ~w.canary THEN {<<w.o.uid, w.o.rv>>} ELSE {})
<1>1. CASE UserWrites
  BY <1>1, UserWritesVersion
<1>2. CASE Record
  <2>1. CASE w.canary
    BY <1>2, <2>1 DEF Record
  <2>2. CASE ~w.canary
    <3>1. mem' \subseteq mem \cup {<<w.o.uid, w.o.rv>>}
      BY <1>2, <2>2 DEF Record, Put, recordedVersion
    <3>2. disk' \subseteq mem' \cup disk
      BY <1>2, <2>2, SavedEntries DEF Record
    <3> QED BY <1>2, <2>2, <3>1, <3>2
  <2> QED BY <2>1, <2>2
<1>3. CASE Finalize
  <2>1. mem' \subseteq mem
    BY <1>3 DEF Finalize, Evict
  <2>2. disk' \subseteq mem' \cup disk
    BY <1>3, SavedEntries DEF Finalize
  <2> QED BY <2>1, <2>2
<1>4. CASE Crash \/ Elsewhere \/ \E e \in mem : EntryExpires(e)
  BY <1>4 DEF Crash, EntryExpires, Elsewhere, FilterEdited, GatewayTaken,
              SelfDeletedExpires, cacheVars
<1>5. CASE RouteCollected \/ RouteReleased \/ CallFails \/ UNCHANGED vars
  BY <1>5 DEF RouteCollected, RouteReleased, CallFails, vars, cacheVars
<1>6. CASE Start \/ AddFinalizer \/ Translate \/ Gateway \/ MarkRemoved \/ DeleteIngress
  BY <1>6 DEF Start, AddFinalizer, Translate, Gateway, MarkRemoved, DeleteIngress, cacheVars
<1>7. CASE DisableIngress \/ ClearIngressStatus \/ Cleanup
  BY <1>7 DEF DisableIngress, ClearIngressStatus, Cleanup, cacheVars
<1>8. CASE WebhookWrites \/ StartFromCanary
  BY <1>8, WebhookStep, CanaryStarts
<1> QED BY <1>1, <1>2, <1>3, <1>4, <1>5, <1>6, <1>7, <1>8
        DEF Next, Environment, Kubernetes, Worker, UserWrites, Elsewhere, WebhookWrites

\* Nothing newer than the copy gets into the cache during a reconcile.
LEMMA CacheStep ==
    TypeOK /\ CopyOlder /\ CacheOlder /\ [Next]_vars => CacheOlder'
<1> SUFFICES ASSUME TypeOK, CopyOlder, CacheOlder, [Next]_vars, NEW e \in mem' \cup disk'
             PROVE  e[2] <= obj'.rv /\ (w'.pc # "idle" => e[2] <= w'.o.rv)
  BY DEF CacheOlder
<1>1. TypeOK'
  BY TypeStep
<1>2. e[2] \in Nat /\ obj.rv \in Nat /\ obj'.rv \in Nat /\ w.o.rv \in Nat /\ w'.o.rv \in Nat
  BY <1>1 DEF TypeOK, Workers, Ingresses
<1>3. CASE e \in mem \cup disk
  BY <1>2, <1>3, VersionsGrow DEF CacheOlder
<1>4. CASE e \notin mem \cup disk
  <2>1. Record /\ ~w.canary /\ e = <<w.o.uid, w.o.rv>>
    BY <1>4, CacheGains
  <2> QED BY <2>1, <1>2 DEF Record, CopyOlder, IdleWorker
<1> QED BY <1>3, <1>4

\* Only the translation and the webhook make or change a live HTTPRoute.
LEMMA LiveRoute ==
    ASSUME TypeOK, [Next]_vars, route'.st = "live"
    PROVE  \/ route.st = "live" /\ route'.rules = route.rules /\ writer' = writer
           \/ Translate /\ w.o.rules # Hostless /\ route'.rules = w.o.rules
           \/ writer' = "webhook"
<1>1. CASE UserWrites
  BY <1>1, UserWritesVersion
<1>2. CASE Crash \/ Elsewhere \/ CallFails \/ UNCHANGED vars \/ \E e \in mem : EntryExpires(e)
  BY <1>2 DEF Crash, EntryExpires, Elsewhere, FilterEdited, GatewayTaken,
              SelfDeletedExpires, CallFails, vars
<1>3. CASE RouteCollected \/ RouteReleased \/ Cleanup
  BY <1>3 DEF RouteCollected, RouteReleased, Cleanup, NoRoute, TypeOK, HTTPRoutes
<1>4. CASE Start \/ AddFinalizer \/ Gateway \/ MarkRemoved \/ Record \/ Finalize
  BY <1>4 DEF Start, AddFinalizer, Gateway, MarkRemoved, Record, Finalize
<1>5. CASE DisableIngress \/ ClearIngressStatus
  BY <1>5 DEF DisableIngress, ClearIngressStatus
<1>6. CASE DeleteIngress
  BY <1>6 DEF DeleteIngress, orphaned, TypeOK, HTTPRoutes
<1>7. CASE Translate
  BY <1>7 DEF Translate, applied, TypeOK, HTTPRoutes
<1>8. CASE WebhookWrites \/ StartFromCanary
  BY <1>8, WebhookStep, CanaryStarts
<1> QED BY <1>1, <1>2, <1>3, <1>4, <1>5, <1>6, <1>7, <1>8
        DEF Next, Environment, Kubernetes, Worker, UserWrites, Elsewhere, WebhookWrites

\* A cached version that is present is the one that was translated last: an
\* older copy cannot overwrite the HTTPRoute after a newer one was recorded.
LEMMA SoundStep ==
    TypeOK /\ CopyOlder /\ CacheOlder /\ CopyTranslated /\ CacheSound /\ [Next]_vars
        => CacheSound'
<1> SUFFICES ASSUME TypeOK, CopyOlder, CacheOlder, CopyTranslated, CacheSound, [Next]_vars,
                    ~opt'.clear, writer' # "webhook", obj'.st = "live", obj'.rules # Hostless,
                    <<obj'.uid, obj'.rv>> \in mem' \cup disk', route'.st = "live"
             PROVE  route'.rules = obj'.rules
  BY DEF CacheSound
<1>0. /\ obj.rv \in Nat /\ w.o.rv \in Nat /\ opt' = opt
      /\ obj' # obj => obj'.rv = obj.rv + 1
  BY OptionsFixed, VersionsGrow DEF TypeOK, Workers, Ingresses
<1>1. CASE Record /\ ~w.canary /\ <<obj'.uid, obj'.rv>> = <<w.o.uid, w.o.rv>>
  <2>1. w.pc = "record" /\ obj' = obj /\ UNCHANGED routeVars
    BY <1>1 DEF Record
  <2>2. w.o = obj
    BY <1>1, <2>1 DEF CopyOlder
  <2> QED BY <1>0, <1>1, <2>1, <2>2 DEF CopyTranslated
<1>2. CASE <<obj'.uid, obj'.rv>> \in mem \cup disk
  <2>1. obj'.rv <= obj.rv /\ (w.pc # "idle" => obj'.rv <= w.o.rv)
    BY <1>2 DEF CacheOlder
  <2>2. obj' = obj
    BY <1>0, <2>1
  <2>3. CASE route.st = "live" /\ route'.rules = route.rules /\ writer' = writer
    BY <1>0, <1>2, <2>2, <2>3 DEF CacheSound
  <2>4. CASE Translate /\ route'.rules = w.o.rules
    <3>1. w.o = obj
      BY <1>0, <2>1, <2>2, <2>4 DEF Translate, CopyOlder
    <3> QED BY <2>2, <2>4, <3>1
  <2> QED BY <2>3, <2>4, LiveRoute
<1> QED BY <1>1, <1>2, CacheGains

\* The reconcile passes the translation before the later steps.
LEMMA TranslatedStep ==
    TypeOK /\ CopyOlder /\ CopyTranslated /\ [Next]_vars => CopyTranslated'
<1> SUFFICES ASSUME TypeOK, CopyOlder, CopyTranslated, [Next]_vars PROVE CopyTranslated'
  OBVIOUS
<1>o. opt' = opt /\ TypeOK'
  BY OptionsFixed, TypeStep
<1>i. IdleWorker.pc = "idle"
  BY DEF IdleWorker
<1>k. ASSUME w' = w, selfDel' \subseteq selfDel,
             writer' = writer /\
               (route'.st = "live" => route.st = "live" /\ route'.rules = route.rules)
      PROVE  CopyTranslated'
  BY <1>k, <1>o DEF CopyTranslated, shouldInclude, classMatches
<1>1. CASE UserWrites
  BY <1>1, <1>k, UserWritesVersion
<1>2. CASE Elsewhere \/ UNCHANGED vars \/ \E e \in mem : EntryExpires(e)
  BY <1>2, <1>k DEF EntryExpires, Elsewhere, FilterEdited, GatewayTaken,
              SelfDeletedExpires, vars, cacheVars
<1>3. CASE RouteCollected \/ RouteReleased
  <2>1. w' = w /\ selfDel' = selfDel /\ writer' = writer /\ route'.st # "live"
    BY <1>3 DEF RouteCollected, RouteReleased, NoRoute, cacheVars, TypeOK, HTTPRoutes
  <2> QED BY <2>1, <1>k
<1>4. CASE CallFails \/ Crash \/ Record \/ Finalize
  <2>1. w' = IdleWorker
    BY <1>4 DEF CallFails, Requeue, Crash, Record, Finalize
  <2> QED BY <2>1, <1>i DEF CopyTranslated
<1>5. CASE Start
  <2>1. \/ w' = IdleWorker
        \/ /\ w'.o = obj /\ w'.pc \in {"cleanup", "finalizer", "translate"}
           /\ shouldInclude(obj)
    BY <1>5 DEF Start, shouldSkipIngress, IdleWorker
  <2>2. obj' = obj /\ selfDel' = selfDel
    BY <1>5 DEF Start, cacheVars
  <2> QED BY <2>1, <2>2, <1>i DEF CopyTranslated, shouldInclude, classMatches
<1>6. CASE AddFinalizer
  <2>1. [w.o EXCEPT !.fin = TRUE] \in Ingresses /\ w.o \in Ingresses
    BY DEF TypeOK, Workers, Ingresses
  <2>2. \/ w' = IdleWorker
        \/ /\ w'.pc = "translate" /\ w'.canary = w.canary
           /\ w'.o = [[w.o EXCEPT !.fin = TRUE] EXCEPT !.rv = obj.rv + 1]
    BY <1>6, <2>1, UpdateOutcome DEF AddFinalizer
  <2>3. selfDel' = selfDel /\ (w.pc = "finalizer")
    BY <1>6 DEF AddFinalizer, cacheVars
  <2>4. w'.pc = "translate" =>
          /\ w'.canary = w.canary /\ (~w.canary => shouldInclude(w.o))
          /\ w'.o.ign = w.o.ign /\ w'.o.cls = w.o.cls
          /\ w'.o.removed = w.o.removed /\ w'.o.uid = w.o.uid
    BY <2>1, <2>2, <2>3, <1>i DEF CopyTranslated, Ingresses
  <2> QED BY <2>2, <2>3, <2>4, <1>i DEF CopyTranslated, shouldInclude, classMatches
<1>7. CASE Translate
  <2>1. /\ w'.o = w.o /\ w'.canary = w.canary /\ w'.pc \in {"record", "gateway"}
        /\ w'.pc = "gateway" => w.o.rules # Hostless
    BY <1>7 DEF Translate, Goto, TypeOK, Workers
  <2>2. w.o.rules # Hostless /\ (w'.pc = "gateway" \/ ~w.canary) => route'.rules = w.o.rules
    BY <1>7 DEF Translate, applied, Goto, CopyTranslated, TypeOK, HTTPRoutes, Workers
  <2> QED BY <2>1, <2>2 DEF CopyTranslated
<1>8. CASE Gateway
  <2>1. /\ w'.o = w.o /\ w'.pc \in {"record", "mark", "disable"} /\ w.pc = "gateway"
        /\ UNCHANGED routeVars
    BY <1>8 DEF Gateway, Goto, TypeOK, Workers
  <2> QED BY <2>1, <1>o DEF CopyTranslated
<1>9. CASE MarkRemoved
  <2>1. [w.o EXCEPT !.removed = TRUE, !.ign = TRUE] \in Ingresses /\ w.o \in Ingresses
    BY DEF TypeOK, Workers, Ingresses
  <2>2. \/ w' = IdleWorker
        \/ /\ w'.pc = "delete"
           /\ w'.o = [[w.o EXCEPT !.removed = TRUE, !.ign = TRUE] EXCEPT !.rv = obj.rv + 1]
    BY <1>9, <2>1, UpdateOutcome DEF MarkRemoved
  <2>3. w'.pc # "idle" => w'.pc = "delete" /\ w'.o.rules = w.o.rules
    BY <2>1, <2>2, <1>i DEF Ingresses
  <2> QED BY <1>9, <2>3 DEF CopyTranslated, MarkRemoved
<1>10. CASE DeleteIngress
  <2>1. w'.o = w.o /\ w'.pc = "record" /\ w.pc = "delete"
    BY <1>10 DEF DeleteIngress, Goto, TypeOK, Workers
  <2>2. route'.st = route.st /\ route'.rules = route.rules /\ writer' = writer
    BY <1>10 DEF DeleteIngress, orphaned, TypeOK, HTTPRoutes
  <2> QED BY <2>1, <2>2 DEF CopyTranslated
<1>11. CASE DisableIngress
  <2>1. [w.o EXCEPT !.cls = Disabled, !.dis = TRUE, !.orig = originalClass(w.o)] \in Ingresses
    BY ClassAssumption DEF TypeOK, Workers, Ingresses, originalClass
  <2>2. AfterDisable(w.o) \in {"record", "clear"} /\ (~opt.clear => AfterDisable(w.o) = "record")
    BY DEF AfterDisable
  <2>3. \/ w' = IdleWorker
        \/ w'.pc = AfterDisable(w.o) /\ w'.o.rules = w.o.rules
    <3>1. CASE w.o.dis
      BY <1>11, <3>1 DEF DisableIngress, Goto, TypeOK, Workers
    <3>2. CASE ~w.o.dis
      <4>1. \/ w' = IdleWorker
            \/ /\ w'.pc = AfterDisable(w.o)
               /\ w'.o = [[w.o EXCEPT !.cls = Disabled, !.dis = TRUE, !.orig = originalClass(w.o)]
                            EXCEPT !.rv = obj.rv + 1]
        BY <1>11, <3>2, <2>1, <2>2, UpdateOutcome DEF DisableIngress
      <4> QED BY <4>1 DEF TypeOK, Workers, Ingresses
    <3> QED BY <3>1, <3>2
  <2> QED BY <1>11, <1>o, <1>i, <2>2, <2>3 DEF CopyTranslated, DisableIngress
<1>12. CASE ClearIngressStatus
  <2>1. w.pc = "clear" /\ w'.pc \in {"idle", "clear", "record"}
    BY <1>12, <1>i DEF ClearIngressStatus, Goto, Requeue, TypeOK, Workers
  <2> QED BY <2>1, <1>o DEF CopyTranslated
<1>13. CASE Cleanup
  <2>1. w'.pc = "finalize"
    BY <1>13 DEF Cleanup, Goto, TypeOK, Workers
  <2> QED BY <2>1 DEF CopyTranslated
<1>14. CASE WebhookWrites
  BY <1>14, <1>o, WebhookStep DEF CopyTranslated, shouldInclude, classMatches
<1>15. CASE StartFromCanary
  BY <1>15, CanaryStarts DEF CopyTranslated
<1> QED BY <1>1, <1>2, <1>3, <1>4, <1>5, <1>6, <1>7, <1>8, <1>9, <1>10, <1>11, <1>12, <1>13,
           <1>14, <1>15
        DEF Next, Environment, Kubernetes, Worker, UserWrites, Elsewhere, WebhookWrites

-----------------------------------------------------------------------------
(* Class, finalizer and owner.                                             *)

\* An Update of the copy is an Update of the present Ingress.
LEMMA UpdateFields ==
    ASSUME TypeOK, CopyOlder, AddFinalizer \/ MarkRemoved \/ DisableIngress, obj' # obj
    PROVE  /\ obj.st # "none" /\ w.o = obj /\ w'.o = obj'
           /\ obj'.st = obj.st /\ obj'.uid = obj.uid /\ (obj.fin => obj'.fin)
           /\ AddFinalizer => obj'.fin
           /\ ~DisableIngress => /\ obj'.cls = obj.cls /\ obj'.dis = obj.dis
                                 /\ obj'.orig = obj.orig
           /\ DisableIngress => /\ ~obj.dis /\ obj'.dis /\ obj'.cls = Disabled
                                /\ obj'.orig = originalClass(obj)
<1>1. CASE AddFinalizer
  <2>1. [w.o EXCEPT !.fin = TRUE] \in Ingresses
    BY DEF TypeOK, Workers, Ingresses
  <2>2. /\ Current /\ w.o = obj /\ w'.o = obj'
        /\ obj' = [[w.o EXCEPT !.fin = TRUE] EXCEPT !.rv = obj.rv + 1]
    BY <1>1, <2>1, UpdateOutcome DEF AddFinalizer
  <2> QED BY <1>1, <2>2 DEF Current, AddFinalizer, DisableIngress, TypeOK, Workers, Ingresses
<1>2. CASE MarkRemoved
  <2>1. [w.o EXCEPT !.removed = TRUE, !.ign = TRUE] \in Ingresses
    BY DEF TypeOK, Workers, Ingresses
  <2>2. /\ Current /\ w.o = obj /\ w'.o = obj'
        /\ obj' = [[w.o EXCEPT !.removed = TRUE, !.ign = TRUE] EXCEPT !.rv = obj.rv + 1]
    BY <1>2, <2>1, UpdateOutcome DEF MarkRemoved
  <2> QED BY <1>2, <2>2 DEF Current, MarkRemoved, AddFinalizer, DisableIngress, TypeOK, Workers,
                            Ingresses
<1>3. CASE DisableIngress
  <2>1. [w.o EXCEPT !.cls = Disabled, !.dis = TRUE, !.orig = originalClass(w.o)] \in Ingresses
    BY ClassAssumption DEF TypeOK, Workers, Ingresses, originalClass
  <2>2. AfterDisable(w.o) \in {"record", "clear"}
    BY DEF AfterDisable
  <2>3. /\ Current /\ w.o = obj /\ w'.o = obj' /\ ~w.o.dis
        /\ obj' = [[w.o EXCEPT !.cls = Disabled, !.dis = TRUE, !.orig = originalClass(w.o)]
                      EXCEPT !.rv = obj.rv + 1]
    BY <1>3, <2>1, <2>2, UpdateOutcome DEF DisableIngress
  <2> QED BY <1>3, <2>3 DEF Current, DisableIngress, AddFinalizer, TypeOK, Workers, Ingresses
<1> QED BY <1>1, <1>2, <1>3

\* Steps that leave the Ingress alone.
Reading == \/ Elsewhere \/ CallFails \/ Crash \/ RouteCollected \/ RouteReleased
           \/ Start \/ Translate \/ Gateway \/ Record \/ Cleanup
           \/ (\E e \in mem : EntryExpires(e)) \/ WebhookWrites \/ StartFromCanary

\* They also leave what the user did alone.
LEMMA ReadingKeeps == Reading => UNCHANGED <<obj, userCls, userDel>>
BY DEF Reading, Elsewhere, FilterEdited, GatewayTaken, SelfDeletedExpires, CallFails, Crash,
       RouteCollected, RouteReleased, Start, Translate, Gateway, Record, Cleanup, EntryExpires,
       WebhookWrites, WebhookApplies, StartFromCanary, envVars

\* The class, the annotation and the saved class change together.
LEMMA ClassStep == TypeOK /\ CopyOlder /\ ClassSaved /\ [Next]_vars => ClassSaved'
<1> SUFFICES ASSUME TypeOK, CopyOlder, ClassSaved, [Next]_vars PROVE ClassSaved'
  OBVIOUS
<1> USE DEF ClassSaved
<1>1. ASSUME NEW s, NEW c \in UserClass, UserCreates(s, c) PROVE ClassSaved'
  BY <1>1 DEF UserCreates, Written, NoIngress, UserClass
<1>2. ASSUME NEW s, UserEdits(s) PROVE ClassSaved'
  BY <1>2 DEF UserEdits, Written, TypeOK, Ingresses
<1>3. ASSUME NEW c \in UserClass, UserSetsClass(c) PROVE ClassSaved'
  BY <1>3 DEF UserSetsClass, Written, TypeOK, Ingresses, UserClass
<1>4. CASE UserIgnores \/ StatusWritten
  BY <1>4 DEF UserIgnores, StatusWritten, Written, TypeOK, Ingresses
<1>5. CASE UserDeletes
  BY <1>5 DEF UserDeletes, Written, Gone, NoIngress, TypeOK, Ingresses
<1>6. CASE Reenable
  BY <1>6 DEF Reenable, Written, TypeOK, Ingresses
<1>7. CASE Reading \/ UNCHANGED vars
  BY <1>7, ReadingKeeps DEF vars, envVars
<1>8. CASE AddFinalizer \/ MarkRemoved \/ DisableIngress
  <2>1. userCls' = userCls
    BY <1>8 DEF AddFinalizer, MarkRemoved, DisableIngress, envVars
  <2>2. CASE obj' = obj
    BY <2>1, <2>2
  <2>3. CASE obj' # obj
    BY <1>8, <2>1, <2>3, UpdateFields DEF originalClass
  <2> QED BY <2>2, <2>3
<1>9. CASE DeleteIngress
  BY <1>9 DEF DeleteIngress, Written, Gone, NoIngress, TypeOK, Ingresses, envVars
<1>10. CASE ClearIngressStatus
  BY <1>10 DEF ClearIngressStatus, Written, TypeOK, Ingresses, envVars
<1>11. CASE Finalize
  BY <1>11 DEF Finalize, Written, Gone, NoIngress, envVars
<1> QED BY <1>1, <1>2, <1>3, <1>4, <1>5, <1>6, <1>7, <1>8, <1>9, <1>10, <1>11
        DEF Next, Environment, Kubernetes, Worker, Reading, Elsewhere, WebhookWrites

\* The finalizer stays until the HTTPRoute is being deleted.
LEMMA FinalizerStep ==
    TypeOK /\ CopyOlder /\ OwnerKnown /\ FinalizerFirst /\ [Next]_vars => FinalizerFirst'
<1> SUFFICES ASSUME TypeOK, CopyOlder, OwnerKnown, FinalizerFirst, [Next]_vars
             PROVE  FinalizerFirst'
  OBVIOUS
<1>o. opt' = opt
  BY OptionsFixed
<1>i. IdleWorker.pc = "idle"
  BY DEF IdleWorker
<1> USE DEF FinalizerFirst
<1>1. ASSUME NEW s, NEW c \in UserClass, UserCreates(s, c) PROVE FinalizerFirst'
  BY <1>1, <1>o DEF UserCreates, Written, NoIngress
<1>2. ASSUME NEW s, UserEdits(s) PROVE FinalizerFirst'
  BY <1>2, <1>o DEF UserEdits, Written, TypeOK, Ingresses
<1>3. ASSUME NEW c, UserSetsClass(c) PROVE FinalizerFirst'
  BY <1>3, <1>o DEF UserSetsClass, Written, TypeOK, Ingresses
<1>4. CASE UserIgnores \/ StatusWritten \/ Reenable
  BY <1>4, <1>o DEF UserIgnores, StatusWritten, Reenable, Written, TypeOK, Ingresses
<1>5. CASE UserDeletes
  BY <1>5, <1>o DEF UserDeletes, Written, Gone, NoIngress, TypeOK, Ingresses
<1>6. CASE Elsewhere \/ UNCHANGED vars \/ \E e \in mem : EntryExpires(e)
  BY <1>6, <1>o DEF Elsewhere, FilterEdited, GatewayTaken, SelfDeletedExpires, EntryExpires, vars
<1>7. CASE CallFails \/ Crash \/ Record
  BY <1>7, <1>o, <1>i DEF CallFails, Requeue, Crash, Record
<1>8. CASE RouteCollected \/ RouteReleased
  BY <1>8, <1>o DEF RouteCollected, RouteReleased, NoRoute, TypeOK, HTTPRoutes
<1>9. CASE Start
  <2>1. \/ w'.pc = "idle"
        \/ w'.pc = "cleanup" /\ obj.st = "term"
        \/ w'.pc = "finalizer"
        \/ w'.pc = "translate" /\ (opt.del => obj.fin)
    BY <1>9, <1>i DEF Start, IdleWorker
  <2> QED BY <1>9, <1>o, <2>1 DEF Start
<1>10. CASE Translate
  <2>1. /\ w'.pc \in {"record", "gateway"} /\ w.pc = "translate"
        /\ w'.o = w.o /\ w'.canary = w.canary /\ obj' = obj
    BY <1>10 DEF Translate, Goto, TypeOK, Workers
  <2>2. UNCHANGED routeVars \/ (writer' = "operator" => (w.canary => w.o.fin))
    BY <1>10 DEF Translate
  <2> QED BY <1>o, <2>1, <2>2
<1>11. CASE Gateway
  <2>1. /\ w'.pc \in {"record", "mark", "disable"} /\ w.pc = "gateway"
        /\ w'.o = w.o /\ w'.canary = w.canary
    BY <1>11 DEF Gateway, Goto, TypeOK, Workers
  <2> QED BY <1>11, <1>o, <2>1 DEF Gateway
<1>12. CASE AddFinalizer \/ MarkRemoved \/ DisableIngress
  <2>1. UNCHANGED routeVars
    BY <1>12 DEF AddFinalizer, MarkRemoved, DisableIngress
  <2>2. /\ w'.pc \in {"idle", "translate", "delete", "record", "clear"}
        /\ w'.pc # "idle" => w'.canary = w.canary
    BY <1>12, <1>i DEF AddFinalizer, MarkRemoved, DisableIngress, UpdateIngress, Goto, Requeue,
                       AfterDisable, TypeOK, Workers
  <2>3. CASE obj' # obj
    BY <1>12, <1>o, <2>1, <2>2, <2>3, UpdateFields DEF MarkRemoved, DisableIngress
  <2>4. CASE obj' = obj
    <3>1. AddFinalizer => w'.pc = "idle"
      <4>1. [w.o EXCEPT !.fin = TRUE] \in Ingresses
        BY DEF TypeOK, Workers, Ingresses
      <4>2. CASE Current
        BY <4>1, <4>2, <2>4, WrittenType DEF AddFinalizer, UpdateIngress, TypeOK, Ingresses
      <4>3. CASE ~Current
        BY <4>3, <1>i DEF AddFinalizer, UpdateIngress, Requeue
      <4> QED BY <4>2, <4>3
    <3>2. w'.pc # "idle" => w'.o = w.o \/ w'.o = obj'
      BY <1>12, <1>i DEF AddFinalizer, MarkRemoved, DisableIngress, UpdateIngress, Goto, Requeue,
                         TypeOK, Workers
    <3> QED BY <1>12, <1>o, <2>1, <2>2, <2>4, <3>1, <3>2 DEF MarkRemoved, DisableIngress
  <2> QED BY <2>3, <2>4
<1>13. CASE DeleteIngress
  <2>1. w'.pc = "record" /\ w.pc = "delete" /\ w'.o = w.o /\ w'.canary = w.canary
    BY <1>13 DEF DeleteIngress, Goto, TypeOK, Workers
  <2>2. route'.st = route.st /\ writer' = writer
    BY <1>13 DEF DeleteIngress, orphaned, TypeOK, HTTPRoutes
  <2>3. \/ /\ obj.fin => obj'.fin
           /\ obj'.fin => obj'.st # "none"
           /\ obj'.st = "term" => obj'.fin
        \/ obj' = obj
    BY <1>13 DEF DeleteIngress, Written, Gone, NoIngress, TypeOK, Ingresses
  <2> QED BY <1>o, <2>1, <2>2, <2>3
<1>14. CASE ClearIngressStatus
  <2>1. /\ w.pc = "clear" /\ w'.pc \in {"idle", "clear", "record"}
        /\ w'.pc # "idle" => w'.canary = w.canary /\ (w'.o = w.o \/ w'.o = obj)
    BY <1>14, <1>i DEF ClearIngressStatus, Goto, Requeue, TypeOK, Workers
  <2>2. obj'.fin = obj.fin /\ obj'.st = obj.st
    BY <1>14 DEF ClearIngressStatus, Written, TypeOK, Ingresses
  <2> QED BY <1>14, <1>o, <2>1, <2>2 DEF ClearIngressStatus
<1>15. CASE Cleanup
  <2>1. w'.pc = "finalize" /\ w.pc = "cleanup" /\ w'.o = w.o /\ w'.canary = w.canary
    BY <1>15 DEF Cleanup, Goto, TypeOK, Workers
  <2>2. opt.del => route'.st # "live"
    BY <1>15 DEF Cleanup, TypeOK, HTTPRoutes
  <2> QED BY <1>15, <1>o, <2>1, <2>2 DEF Cleanup
<1>16. CASE Finalize
  <2>1. w'.pc = "idle" /\ UNCHANGED routeVars /\ w.pc = "finalize"
    BY <1>16, <1>i DEF Finalize, Requeue
  <2>2. obj' = obj \/ (obj'.st = "none" /\ ~obj'.fin)
    BY <1>16 DEF Finalize, Written, Gone, NoIngress
  <2> QED BY <1>o, <2>1, <2>2
<1>17. CASE WebhookWrites
  BY <1>17, <1>o, WebhookStep
<1>18. CASE StartFromCanary
  BY <1>18, <1>o, CanaryStarts
<1> QED BY <1>1, <1>2, <1>3, <1>4, <1>5, <1>6, <1>7, <1>8, <1>9, <1>10, <1>11, <1>12, <1>13,
           <1>14, <1>15, <1>16, <1>17, <1>18
        DEF Next, Environment, Kubernetes, Worker, Elsewhere, WebhookWrites

\* An owner that goes was deleted by a user, or its HTTPRoute was orphaned.
LEMMA OwnerStep ==
    TypeOK /\ CopyOlder /\ OwnerKnown /\ [Next]_vars => OwnerKnown'
<1> SUFFICES ASSUME TypeOK, CopyOlder, OwnerKnown, [Next]_vars PROVE OwnerKnown'
  OBVIOUS
<1>i. IdleWorker.pc = "idle"
  BY DEF IdleWorker
<1> USE DEF OwnerKnown
<1>1. ASSUME NEW s, NEW c, UserCreates(s, c) PROVE OwnerKnown'
  BY <1>1 DEF UserCreates, Written, NoIngress
<1>2. ASSUME NEW s, UserEdits(s) PROVE OwnerKnown'
  BY <1>2 DEF UserEdits, Written, TypeOK, Ingresses
<1>3. ASSUME NEW c, UserSetsClass(c) PROVE OwnerKnown'
  BY <1>3 DEF UserSetsClass, Written, TypeOK, Ingresses
<1>4. CASE UserIgnores \/ StatusWritten \/ Reenable
  BY <1>4 DEF UserIgnores, StatusWritten, Reenable, Written, TypeOK, Ingresses
<1>5. CASE UserDeletes
  BY <1>5 DEF UserDeletes
<1>6. CASE Elsewhere \/ UNCHANGED vars \/ \E e \in mem : EntryExpires(e)
  BY <1>6 DEF Elsewhere, FilterEdited, GatewayTaken, SelfDeletedExpires, EntryExpires, vars,
              envVars
<1>7. CASE CallFails \/ Crash \/ Record
  BY <1>7, <1>i DEF CallFails, Requeue, Crash, Record, envVars
<1>8. CASE RouteCollected \/ RouteReleased
  BY <1>8 DEF RouteCollected, RouteReleased, NoRoute, envVars, TypeOK, HTTPRoutes
<1>9. CASE Start
  <2>1. \/ w'.pc = "idle"
        \/ w'.pc = "cleanup" /\ w'.o = obj /\ obj.st = "term"
        \/ w'.pc \in {"finalizer", "translate"} /\ w'.o = obj /\ obj.st = "live"
    BY <1>9, <1>i DEF Start, IdleWorker, TypeOK, Ingresses
  <2> QED BY <1>9, <2>1 DEF Start, envVars
<1>10. CASE Translate
  <2>1. w'.pc \in {"record", "gateway"} /\ w.pc = "translate"
    BY <1>10 DEF Translate, Goto, TypeOK, Workers
  <2>2. route' = route \/ route'.owner = w.o.uid
        \/ (route'.owner = route.owner /\ route'.st = route.st)
    BY <1>10 DEF Translate, applied, TypeOK, HTTPRoutes
  <2> QED BY <1>10, <2>1, <2>2 DEF Translate, envVars
<1>11. CASE Gateway
  <2>1. w'.pc \in {"record", "mark", "disable"}
    BY <1>11 DEF Gateway, Goto, TypeOK, Workers
  <2> QED BY <1>11, <2>1 DEF Gateway, envVars
<1>12. CASE AddFinalizer \/ MarkRemoved \/ DisableIngress
  <2>1. route' = route /\ userDel' = userDel /\ w.pc \in {"finalizer", "mark", "disable"}
    BY <1>12 DEF AddFinalizer, MarkRemoved, DisableIngress, envVars
  <2>2. w'.pc \in {"idle", "translate", "delete", "record", "clear"}
    BY <1>12, <1>i DEF AddFinalizer, MarkRemoved, DisableIngress, UpdateIngress, Goto, Requeue,
                       AfterDisable, TypeOK, Workers
  <2>3. w'.pc = "translate" => w.pc = "finalizer" /\ w'.o.uid = w.o.uid
    <3>1. CASE AddFinalizer
      <4>1. [w.o EXCEPT !.fin = TRUE] \in Ingresses
        BY DEF TypeOK, Workers, Ingresses
      <4>2. \/ w' = IdleWorker
            \/ w'.o = [[w.o EXCEPT !.fin = TRUE] EXCEPT !.rv = obj.rv + 1]
        BY <3>1, <4>1, UpdateOutcome DEF AddFinalizer
      <4> QED BY <3>1, <4>2, <1>i DEF AddFinalizer, TypeOK, Workers, Ingresses
    <3>2. CASE MarkRemoved \/ DisableIngress
      BY <3>2, <1>i DEF MarkRemoved, DisableIngress, UpdateIngress, Goto, Requeue,
                        AfterDisable, TypeOK, Workers
    <3> QED BY <1>12, <3>1, <3>2
  <2>4. obj'.uid = obj.uid /\ obj'.st = obj.st
    BY <1>12, UpdateFields
  <2> QED BY <2>1, <2>2, <2>3, <2>4
<1>13. CASE DeleteIngress
  <2>1. w'.pc = "record" /\ userDel' = userDel
    BY <1>13 DEF DeleteIngress, Goto, TypeOK, Workers, envVars
  <2>2. CASE obj.st = "live"
    <3>1. route' = orphaned(route, obj.uid)
      BY <1>13, <2>2 DEF DeleteIngress
    <3>2. route'.owner = 0 \/ (route'.owner = route.owner /\ route.owner # obj.uid /\ route' = route)
      BY <3>1 DEF orphaned, TypeOK, HTTPRoutes
    <3> QED BY <2>1, <3>2
  <2>3. CASE obj.st # "live"
    BY <1>13, <2>1, <2>3 DEF DeleteIngress
  <2> QED BY <2>2, <2>3
<1>14. CASE ClearIngressStatus
  <2>1. w'.pc \in {"idle", "clear", "record"}
    BY <1>14, <1>i DEF ClearIngressStatus, Goto, Requeue, TypeOK, Workers
  <2>2. obj'.uid = obj.uid /\ obj'.st = obj.st
    BY <1>14 DEF ClearIngressStatus, Written, TypeOK, Ingresses
  <2> QED BY <1>14, <2>1, <2>2 DEF ClearIngressStatus, envVars
<1>15. CASE Cleanup
  <2>1. w'.pc = "finalize" /\ w'.o = w.o /\ w.pc = "cleanup"
    BY <1>15 DEF Cleanup, Goto, TypeOK, Workers
  <2>2. route'.owner = route.owner /\ (route'.st = "live" => route.st = "live")
    BY <1>15 DEF Cleanup, TypeOK, HTTPRoutes
  <2> QED BY <1>15, <2>1, <2>2 DEF Cleanup, envVars
<1>16. CASE Finalize
  <2>1. w'.pc = "idle" /\ route' = route /\ userDel' = userDel /\ w.pc = "finalize"
    BY <1>16, <1>i DEF Finalize, Requeue, envVars
  <2>2. CASE Current
    <3>1. obj.st = "term"
      BY <2>1, <2>2 DEF Current, CopyOlder
    <3> QED BY <2>1, <3>1
  <2>3. CASE ~Current
    BY <1>16, <2>1, <2>3 DEF Finalize
  <2> QED BY <2>2, <2>3
<1>17. CASE WebhookWrites
  <2>1. route'.owner = 0 \/ (route'.owner = route.owner /\ route'.st = route.st)
    BY <1>17 DEF WebhookWrites, WebhookApplies, applied, TypeOK, HTTPRoutes
  <2> QED BY <1>17, <2>1, WebhookStep
<1>18. CASE StartFromCanary
  BY <1>18, CanaryStarts
<1> QED BY <1>1, <1>2, <1>3, <1>4, <1>5, <1>6, <1>7, <1>8, <1>9, <1>10, <1>11, <1>12, <1>13,
           <1>14, <1>15, <1>16, <1>17, <1>18
        DEF Next, Environment, Kubernetes, Worker, Elsewhere, WebhookWrites

-----------------------------------------------------------------------------
\* The inductive invariant holds at the start and is kept by every step.
LEMMA InvariantHolds == Spec => []IInv
<1>1. Init => IInv
  <2> SUFFICES ASSUME Init PROVE IInv
    OBVIOUS
  <2>1. TypeOK
    BY IdleTypes DEF Init, TypeOK
  <2> QED BY <2>1, ClassAssumption
          DEF Init, IInv, CopyOlder, CacheOlder, CopyTranslated, CacheSound, ClassSaved,
              FinalizerFirst, OwnerKnown, IdleWorker, NoIngress, NoRoute, MaxClears
<1>2. IInv /\ [Next]_vars => IInv'
  BY TypeStep, CopyStep, CacheStep, TranslatedStep, SoundStep, ClassStep, FinalizerStep,
     OwnerStep DEF IInv
<1> QED BY <1>1, <1>2, PTL DEF Spec

-----------------------------------------------------------------------------
(* The theorems.                                                           *)

\* Every variable keeps its type, whatever users, failures and restarts do to
\* the Ingress while the worker of ingress_controller.go reconciles it.
THEOREM LifecycleTypeCorrect == Spec => []TypeOK
<1>1. IInv => TypeOK
  BY DEF IInv
<1> QED BY InvariantHolds, <1>1, PTL

\* The reconcile cache, in memory and in its ConfigMaps, never makes
\* shouldSkipReconcile skip a version that was not translated (without status
\* clearing), for any number of edits, failures, partial saves and restarts and
\* with canaries' reconciles in between.  (What the webhook wrote last is exempt.)
THEOREM CacheIsSound == Spec => []CacheSound
<1>1. IInv => CacheSound
  BY DEF IInv
<1> QED BY InvariantHolds, <1>1, PTL

\* An Ingress disabled by disableIngress remembers the class its user gave it
\* last.
THEOREM OriginalIsSaved == Spec => []SavedOriginal
<1>1. IInv => SavedOriginal
  BY DEF IInv, ClassSaved, SavedOriginal
<1> QED BY InvariantHolds, <1>1, PTL

\* With deletion enabled no HTTPRoute the operator writes for an Ingress that has
\* its finalizer outlives that Ingress (handleDeletion): not over failed calls,
\* conflicts and restarts, and not when a canary's reconcile or the webhook wrote
\* it before.  What reconcileCanaryPrimaries or the webhook wrote last, without
\* the finalizer, is the exception NoRouteLeftBehind names.
THEOREM NothingLeftBehind == Spec => []NoRouteLeftBehind
<1>1. IInv => NoRouteLeftBehind
  BY DEF IInv, TypeOK, FinalizerFirst, NoRouteLeftBehind
<1> QED BY InvariantHolds, <1>1, PTL

\* What removeIngress deletes never takes its HTTPRoute along.
THEOREM RouteOutlivesRemoval == Spec => []RemovalKeepsRoute
<1>1. IInv => RemovalKeepsRoute
  BY DEF IInv, OwnerKnown, RemovalKeepsRoute
<1> QED BY InvariantHolds, <1>1, PTL

\* disableIngress and removeIngress take an Ingress out of service only in the
\* version that was translated, by its own reconcile or by that of a canary.
THEOREM HandoverSafe == Spec => HandoverOfCurrentRules
<1>1. IInv /\ [Next]_vars =>
        [(~obj.dis /\ obj'.dis) \/ (~obj.removed /\ obj'.removed)
           => /\ obj.rules # Hostless
              /\ route.st = "live" /\ writer # "webhook" => route.rules = obj.rules]_vars
  <2> SUFFICES ASSUME IInv, [Next]_vars,
                      (~obj.dis /\ obj'.dis) \/ (~obj.removed /\ obj'.removed)
               PROVE  /\ obj.rules # Hostless
                      /\ route.st = "live" /\ writer # "webhook" => route.rules = obj.rules
    OBVIOUS
  <2> USE DEF IInv
  <2>1. CASE MarkRemoved \/ DisableIngress
    <3>1. w.o = obj /\ w.pc \in {"mark", "disable"}
      BY <2>1, UpdateFields DEF MarkRemoved, DisableIngress
    <3> QED BY <3>1 DEF CopyTranslated
  <2>2. ASSUME NEW s, NEW c, UserCreates(s, c) PROVE FALSE
    BY <2>2 DEF UserCreates, Written, NoIngress
  <2>3. ASSUME NEW s, UserEdits(s) PROVE FALSE
    BY <2>3 DEF UserEdits, Written, TypeOK, Ingresses
  <2>4. ASSUME NEW c, UserSetsClass(c) PROVE FALSE
    BY <2>4 DEF UserSetsClass, Written, TypeOK, Ingresses
  <2>5. CASE UserIgnores \/ StatusWritten \/ Reenable
    BY <2>5 DEF UserIgnores, StatusWritten, Reenable, Written, TypeOK, Ingresses
  <2>6. CASE UserDeletes
    BY <2>6 DEF UserDeletes, Written, Gone, NoIngress, TypeOK, Ingresses
  <2>7. CASE Reading \/ UNCHANGED vars
    BY <2>7, ReadingKeeps DEF vars
  <2>8. CASE AddFinalizer
    <3>1. [w.o EXCEPT !.fin = TRUE] \in Ingresses
      BY DEF TypeOK, Workers, Ingresses
    <3>2. \/ obj' = obj
          \/ w.o = obj /\ obj' = [[w.o EXCEPT !.fin = TRUE] EXCEPT !.rv = obj.rv + 1]
      BY <2>8, <3>1, UpdateOutcome DEF AddFinalizer
    <3>3. obj' # obj => obj'.dis = obj.dis /\ obj'.removed = obj.removed
      BY <3>1, <3>2 DEF Ingresses, TypeOK
    <3> QED BY <3>3
  <2>9. CASE DeleteIngress
    BY <2>9 DEF DeleteIngress, Written, Gone, NoIngress, TypeOK, Ingresses
  <2>10. CASE ClearIngressStatus
    BY <2>10 DEF ClearIngressStatus, Written, TypeOK, Ingresses
  <2>11. CASE Finalize
    BY <2>11 DEF Finalize, Written, Gone, NoIngress
  <2> QED BY <2>1, <2>2, <2>3, <2>4, <2>5, <2>6, <2>7, <2>8, <2>9, <2>10, <2>11
          DEF Next, Environment, Kubernetes, Worker, Reading, Elsewhere, WebhookWrites
<1> QED BY InvariantHolds, <1>1, PTL DEF Spec, HandoverOfCurrentRules

-----------------------------------------------------------------------------
(* The first incarnation of the Ingress: its edits reach the HTTPRoute.    *)
(* (For a later one they need not: its HTTPRoute may belong to an earlier  *)
(* incarnation and be collected with it.)                                  *)

\* Before the Ingress is created there is nothing but what the webhook wrote.
NotBegun ==
    obj.uid = 0 => /\ obj.st = "none" /\ route.st # "term" /\ route.owner = 0 /\ w.pc = "idle"
                   /\ selfDel = {} /\ mem = {} /\ disk = {}

\* The HTTPRoute is the first incarnation's or nobody's, so that nothing deletes
\* it as long as that lives; removeIngress marks what it remembers.
FirstLive == obj.uid = 1 /\ obj.st = "live"
FirstOwned ==
    /\ obj.uid = 1 => route.owner \in {0, 1} /\ (w.pc # "idle" => w.o.uid = 1)
    /\ FirstLive => /\ route.st # "term" /\ w.pc \notin {"cleanup", "finalize"}
                    /\ 1 \in selfDel => obj.removed

\* Once it was translated, and when the cache says so, the HTTPRoute is there.
FirstServed ==
    ~opt.clear /\ FirstLive =>
      /\ w.pc \in {"gateway", "mark", "disable", "delete"}
           \/ (w.pc = "record" /\ ~w.canary /\ w.o.rules # Hostless) => route.st = "live"
      /\ obj.rules # Hostless /\ <<1, obj.rv>> \in mem \cup disk => route.st = "live"

\* A reconcile of an outdated copy is followed by another one.
StaleIsQueued == w.pc # "idle" /\ w.o.rv # obj.rv => queued

\* What is not translated is queued or about to be translated.
FirstFollowed ==
    ~opt.clear /\ FirstLive /\ Wanted(obj) /\ ~queued /\ writer # "webhook" =>
        \/ w.pc \in {"finalizer", "translate"} /\ ~w.canary
        \/ route.st = "live" /\ route.rules = obj.rules

FirstInv == NotBegun /\ FirstOwned /\ FirstServed /\ StaleIsQueued /\ FirstFollowed

\* Every write of the Ingress enqueues it, and none revives it.
LEMMA ObjectStep ==
    ASSUME TypeOK, CopyOlder, [Next]_vars
    PROVE  \/ obj' = obj
           \/ /\ queued' /\ obj'.uid = obj.uid /\ obj.st # "none"
              /\ obj'.st = "live" => obj.st = "live" /\ (obj.removed => obj'.removed)
           \/ queued' /\ \E s \in Rules \cup {Hostless}, c \in UserClass : UserCreates(s, c)
<1> DEFINE Kept == /\ queued' /\ obj'.uid = obj.uid /\ obj.st # "none"
                   /\ obj'.st = "live" => obj.st = "live" /\ (obj.removed => obj'.removed)
<1>1. ASSUME NEW s \in Rules \cup {Hostless}, NEW c \in UserClass, UserCreates(s, c) PROVE queued'
  BY <1>1 DEF UserCreates, Written
<1>2. ASSUME NEW s, UserEdits(s) PROVE Kept
  BY <1>2 DEF UserEdits, Written, TypeOK, Ingresses
<1>3. ASSUME NEW c, UserSetsClass(c) PROVE Kept
  BY <1>3 DEF UserSetsClass, Written, TypeOK, Ingresses
<1>4. ASSUME UserIgnores \/ StatusWritten \/ Reenable PROVE Kept
  BY <1>4 DEF UserIgnores, StatusWritten, Reenable, Written, TypeOK, Ingresses
<1>5. ASSUME UserDeletes \/ DeleteIngress, obj' # obj PROVE Kept
  BY <1>5 DEF UserDeletes, DeleteIngress, Written, Gone, NoIngress, TypeOK, Ingresses
<1>6. CASE Reading \/ UNCHANGED vars
  BY <1>6, ReadingKeeps DEF vars
<1>7. ASSUME AddFinalizer \/ MarkRemoved \/ DisableIngress, obj' # obj PROVE Kept
  <2>1. queued' /\ obj.st # "none" /\ obj'.uid = obj.uid /\ obj'.st = obj.st /\ w.o = obj
    BY <1>7, UpdateFields DEF AddFinalizer, MarkRemoved, DisableIngress, UpdateIngress, Written,
                              Requeue
  <2>2. obj.removed => obj'.removed
    BY <1>7, <2>1 DEF AddFinalizer, MarkRemoved, DisableIngress, UpdateIngress, Written, Requeue,
                      TypeOK, Ingresses
  <2> QED BY <2>1, <2>2
<1>8. ASSUME ClearIngressStatus, obj' # obj PROVE Kept
  BY <1>8 DEF ClearIngressStatus, Written, Current, Requeue, TypeOK, Ingresses
<1>9. ASSUME Finalize, obj' # obj PROVE Kept
  BY <1>9 DEF Finalize, Written, Current, Gone, NoIngress, TypeOK, Ingresses
<1> QED BY <1>1, <1>2, <1>3, <1>4, <1>5, <1>6, <1>7, <1>8, <1>9
        DEF Next, Environment, Kubernetes, Worker, Reading, Elsewhere, WebhookWrites

\* What may become of the worker, of the queue, of the HTTPRoute and of the
\* remembered removals while the Ingress is not created anew.
LEMMA WorkerStep ==
    ASSUME TypeOK, CopyOlder, [Next]_vars
    PROVE  \/ w'.pc = "idle"
           \/ w' = w
           \/ Start /\ w'.o = obj /\ obj.st # "none" /\ UNCHANGED route
                    /\ w'.pc \in {"cleanup", "finalizer", "translate"}
                    /\ (w'.pc = "cleanup" => obj.st = "term")
           \/ StartFromCanary
           \/ /\ w.pc = "finalizer" /\ w'.pc = "translate" /\ w'.canary = w.canary
              /\ w'.o = obj' /\ obj'.uid = w.o.uid
           \/ /\ Translate /\ w'.o = w.o /\ w'.canary = w.canary
              /\ w.pc = "translate" /\ w'.pc \in {"gateway", "record"}
           \/ /\ w.pc \in {"gateway", "mark", "disable", "delete", "clear"}
              /\ w'.pc \in {"mark", "disable", "delete", "clear", "record"}
              /\ (w'.o = obj' /\ obj'.uid = obj.uid) \/ w'.o = w.o
           \/ Cleanup /\ w.pc = "cleanup" /\ w'.pc = "finalize" /\ w'.o = w.o
<1>i. IdleWorker.pc = "idle"
  BY DEF IdleWorker
<1>1. CASE UserWrites
  BY <1>1, UserWritesVersion
<1>2. CASE Elsewhere \/ RouteCollected \/ RouteReleased \/ \E e \in mem : EntryExpires(e)
  BY <1>2 DEF Elsewhere, FilterEdited, GatewayTaken, SelfDeletedExpires, RouteCollected,
              RouteReleased, EntryExpires
<1>3. CASE CallFails \/ Crash \/ Record \/ Finalize \/ UNCHANGED vars
  BY <1>3, <1>i DEF CallFails, Requeue, Crash, Record, Finalize, vars
<1>4. CASE Start
  <2>1. \/ w' = IdleWorker
        \/ /\ w'.o = obj /\ w'.pc \in {"cleanup", "finalizer", "translate"} /\ obj.st # "none"
           /\ w'.pc = "cleanup" => obj.st = "term"
    BY <1>4 DEF Start, IdleWorker
  <2> QED BY <1>4, <1>i, <2>1 DEF Start
<1>5. CASE Translate \/ Gateway \/ Cleanup
  BY <1>5 DEF Translate, Gateway, Cleanup, Goto, TypeOK, Workers
<1>6. CASE DeleteIngress
  BY <1>6 DEF DeleteIngress, Goto, TypeOK, Workers
<1>7. CASE AddFinalizer
  <2>1. [w.o EXCEPT !.fin = TRUE] \in Ingresses
    BY DEF TypeOK, Workers, Ingresses
  <2>2. \/ w' = IdleWorker
        \/ /\ w'.o = obj' /\ obj' = [[w.o EXCEPT !.fin = TRUE] EXCEPT !.rv = obj.rv + 1]
           /\ w'.pc = "translate" /\ w'.canary = w.canary
    BY <1>7, <2>1, UpdateOutcome DEF AddFinalizer
  <2> QED BY <1>7, <1>i, <2>1, <2>2 DEF AddFinalizer, Ingresses
<1>8. CASE MarkRemoved
  <2>1. [w.o EXCEPT !.removed = TRUE, !.ign = TRUE] \in Ingresses
    BY DEF TypeOK, Workers, Ingresses
  <2>2. \/ w' = IdleWorker
        \/ /\ w'.o = obj' /\ w.o = obj /\ w'.pc = "delete"
           /\ obj' = [[w.o EXCEPT !.removed = TRUE, !.ign = TRUE] EXCEPT !.rv = obj.rv + 1]
    BY <1>8, <2>1, UpdateOutcome DEF MarkRemoved
  <2>3. obj'.uid = obj.uid
    BY <1>8, UpdateFields
  <2> QED BY <1>8, <1>i, <2>2, <2>3 DEF MarkRemoved
<1>9. CASE DisableIngress
  <2>1. AfterDisable(w.o) \in {"record", "clear"}
    BY DEF AfterDisable
  <2>2. CASE w.o.dis
    BY <1>9, <2>1, <2>2 DEF DisableIngress, Goto, TypeOK, Workers
  <2>3. CASE ~w.o.dis
    <3>1. [w.o EXCEPT !.cls = Disabled, !.dis = TRUE, !.orig = originalClass(w.o)] \in Ingresses
      BY ClassAssumption DEF TypeOK, Workers, Ingresses, originalClass
    <3>2. \/ w' = IdleWorker
          \/ /\ w'.o = obj' /\ w.o = obj /\ w'.pc = AfterDisable(w.o)
             /\ obj' = [[w.o EXCEPT !.cls = Disabled, !.dis = TRUE, !.orig = originalClass(w.o)]
                           EXCEPT !.rv = obj.rv + 1]
      BY <1>9, <2>1, <2>3, <3>1, UpdateOutcome DEF DisableIngress
    <3>3. obj'.uid = obj.uid
      BY <1>9, UpdateFields
    <3> QED BY <1>9, <1>i, <2>1, <3>2, <3>3 DEF DisableIngress
  <2> QED BY <2>2, <2>3
<1>10. CASE ClearIngressStatus
  BY <1>10, <1>i DEF ClearIngressStatus, Goto, Requeue, TypeOK, Workers
<1>11. CASE WebhookWrites
  BY <1>11, WebhookStep
<1> QED BY <1>1, <1>2, <1>3, <1>4, <1>5, <1>6, <1>7, <1>8, <1>9, <1>10, <1>11
        DEF Next, Environment, Kubernetes, Worker, UserWrites, Elsewhere, WebhookWrites

\* Only the start of a reconcile, and a restart without an Ingress, empty the
\* queue.
LEMMA QueueStep ==
    ASSUME TypeOK, [Next]_vars, queued, ~queued'
    PROVE  Start \/ (w'.pc = "idle" /\ obj.st = "none" /\ obj' = obj)
<1>1. CASE UserWrites \/ FilterEdited \/ CallFails
  BY <1>1 DEF UserWrites, UserCreates, UserEdits, UserSetsClass, UserIgnores, UserDeletes,
              StatusWritten, Reenable, Written, FilterEdited, CallFails, Requeue
<1>2. CASE GatewayTaken \/ (\E u \in selfDel : SelfDeletedExpires(u))
           \/ (\E e \in mem : EntryExpires(e)) \/ RouteCollected \/ RouteReleased
  BY <1>2 DEF GatewayTaken, SelfDeletedExpires, EntryExpires, RouteCollected, RouteReleased
<1>3. CASE Crash
  BY <1>3 DEF Crash, IdleWorker
<1>4. CASE Translate \/ Gateway \/ Record \/ Cleanup \/ UNCHANGED vars
  BY <1>4 DEF Translate, Gateway, Record, Cleanup, vars
<1>5. CASE AddFinalizer \/ MarkRemoved \/ DisableIngress
  BY <1>5 DEF AddFinalizer, MarkRemoved, DisableIngress, UpdateIngress, Written, Requeue
<1>6. CASE DeleteIngress \/ ClearIngressStatus \/ Finalize
  BY <1>6 DEF DeleteIngress, ClearIngressStatus, Finalize, Written, Requeue
<1>7. CASE WebhookWrites \/ StartFromCanary
  BY <1>7, WebhookStep, CanaryStarts
<1> QED BY <1>1, <1>2, <1>3, <1>4, <1>5, <1>6, <1>7
        DEF Next, Environment, Kubernetes, Worker, UserWrites, WebhookWrites

\* How an HTTPRoute gets its owner, and how it goes.
LEMMA RouteStep ==
    ASSUME TypeOK, [Next]_vars
    PROVE  /\ route'.owner \in {route.owner, 0} \/ (Translate /\ route'.owner = w.o.uid)
           /\ \/ route'.st = route.st
              \/ Translate /\ route.st = "none" /\ route'.st = "live"
              \/ writer' = "webhook" /\ route.st = "none" /\ route'.st = "live"
              \/ route.st = "term"
              \/ Cleanup /\ w.pc = "cleanup"
              \/ route.owner # 0 /\ (obj.st = "none" \/ obj.uid # route.owner) /\ obj' = obj
           /\ writer' = writer \/ Translate \/ writer' = "webhook"
<1>1. CASE UserWrites
  BY <1>1, UserWritesVersion
<1>2. CASE Crash \/ Elsewhere \/ CallFails \/ UNCHANGED vars \/ \E e \in mem : EntryExpires(e)
  BY <1>2 DEF Crash, EntryExpires, Elsewhere, FilterEdited, GatewayTaken, SelfDeletedExpires,
              CallFails, vars
<1>3. CASE RouteReleased
  BY <1>3 DEF RouteReleased, NoRoute
<1>4. CASE RouteCollected
  <2>1. route'.owner = route.owner
    BY <1>4 DEF RouteCollected, TypeOK, HTTPRoutes
  <2> QED BY <1>4, <2>1 DEF RouteCollected
<1>5. CASE Cleanup
  BY <1>5 DEF Cleanup, TypeOK, HTTPRoutes
<1>6. CASE Start \/ AddFinalizer \/ Gateway \/ MarkRemoved \/ Record \/ Finalize
           \/ DisableIngress \/ ClearIngressStatus
  BY <1>6 DEF Start, AddFinalizer, Gateway, MarkRemoved, Record, Finalize, DisableIngress,
              ClearIngressStatus
<1>7. CASE DeleteIngress
  BY <1>7 DEF DeleteIngress, orphaned, TypeOK, HTTPRoutes
<1>8. CASE Translate
  BY <1>8 DEF Translate, applied, TypeOK, HTTPRoutes
<1>9. CASE WebhookWrites \/ StartFromCanary
  BY <1>9, WebhookStep, CanaryStarts
<1> QED BY <1>1, <1>2, <1>3, <1>4, <1>5, <1>6, <1>7, <1>8, <1>9
        DEF Next, Environment, Kubernetes, Worker, UserWrites, Elsewhere, WebhookWrites

\* removeIngress remembers only what it marked.
LEMMA RememberedStep ==
    ASSUME TypeOK, CopyOlder, [Next]_vars, NEW u \in selfDel'
    PROVE  u \in selfDel \/ obj'.removed
<1>1. CASE UserWrites
  BY <1>1, UserWritesVersion
<1>2. CASE MarkRemoved
  <2>1. [w.o EXCEPT !.removed = TRUE, !.ign = TRUE] \in Ingresses
    BY DEF TypeOK, Workers, Ingresses
  <2>2. Current =>
          obj' = [[w.o EXCEPT !.removed = TRUE, !.ign = TRUE] EXCEPT !.rv = obj.rv + 1]
    BY <1>2, <2>1, UpdateOutcome DEF MarkRemoved
  <2> QED BY <1>2, <2>2 DEF MarkRemoved, TypeOK, Workers, Ingresses
<1>3. CASE Crash \/ Elsewhere \/ CallFails \/ UNCHANGED vars \/ \E e \in mem : EntryExpires(e)
  BY <1>3 DEF Crash, EntryExpires, Elsewhere, FilterEdited, GatewayTaken, SelfDeletedExpires,
              CallFails, vars, cacheVars
<1>4. CASE RouteCollected \/ RouteReleased \/ Cleanup \/ Record \/ Finalize
  BY <1>4 DEF RouteCollected, RouteReleased, Cleanup, Record, Finalize, cacheVars
<1>5. CASE Start \/ AddFinalizer \/ Gateway \/ Translate \/ DeleteIngress \/ DisableIngress
           \/ ClearIngressStatus
  BY <1>5 DEF Start, AddFinalizer, Gateway, Translate, DeleteIngress, DisableIngress,
              ClearIngressStatus, cacheVars
<1>6. CASE WebhookWrites \/ StartFromCanary
  BY <1>6, WebhookStep, CanaryStarts
<1> QED BY <1>1, <1>2, <1>3, <1>4, <1>5, <1>6
        DEF Next, Environment, Kubernetes, Worker, UserWrites, Elsewhere, WebhookWrites

\* A copy that is outdated was overtaken by a write, which enqueued the Ingress.
LEMMA StaleStep ==
    ASSUME TypeOK, CopyOlder, StaleIsQueued, [Next]_vars
    PROVE  StaleIsQueued'
<1> SUFFICES ASSUME w'.pc # "idle", w'.o.rv # obj'.rv, ~queued' PROVE FALSE
  BY TypeStep DEF StaleIsQueued
<1>1. obj' = obj
  BY ObjectStep
<1>2. w'.o # obj' /\ w'.o # obj
  BY <1>1
<1>3. w'.o = w.o /\ w.pc # "idle" /\ ~Start
  <2>1. ~Start \/ w.pc = "idle"
    BY DEF Start
  <2> QED BY <1>2, <2>1, WorkerStep, CanaryStarts
<1>4. queued
  BY <1>1, <1>3 DEF StaleIsQueued
<1> QED BY <1>3, <1>4, QueueStep

\* Only the webhook acts before the Ingress is created.
LEMMA NotBegunStep ==
    ASSUME TypeOK, CopyOlder, NotBegun, [Next]_vars
    PROVE  NotBegun'
<1> SUFFICES ASSUME obj'.uid = 0 PROVE NotBegun'
  BY DEF NotBegun
<1>1. obj.uid \in Nat
  BY DEF TypeOK, Ingresses
<1>2. ASSUME NEW s, NEW c, UserCreates(s, c) PROVE FALSE
  BY <1>1, <1>2 DEF UserCreates, Written, NoIngress
<1>3. obj.uid = 0 /\ obj.st = "none"
  BY <1>2, ObjectStep DEF NotBegun
<1>4. obj' = obj
  BY <1>2, <1>3, ObjectStep
<1>5. w'.pc = "idle"
  BY <1>3, WorkerStep, CanaryStarts DEF NotBegun
<1>6. route'.st # "term" /\ route'.owner = 0
  <2>1. ~Translate /\ ~Cleanup /\ route.st # "term" /\ route.owner = 0
    BY <1>3 DEF NotBegun, Translate, Cleanup
  <2> QED BY <2>1, RouteStep
<1>7. mem' = {} /\ disk' = {}
  BY <1>3, CacheGains DEF NotBegun, Record
<1>8. selfDel' = {}
  <2>1. w.pc = "idle" /\ selfDel = {} /\ ~MarkRemoved
    BY <1>3 DEF NotBegun, MarkRemoved
  <2>2. CASE UserWrites
    BY <2>1, <2>2, UserWritesVersion
  <2>3. CASE Crash \/ Elsewhere \/ CallFails \/ UNCHANGED vars \/ \E e \in mem : EntryExpires(e)
    BY <2>1, <2>3 DEF Crash, EntryExpires, Elsewhere, FilterEdited, GatewayTaken,
                      SelfDeletedExpires, CallFails, vars, cacheVars
  <2>4. CASE RouteCollected \/ RouteReleased \/ Cleanup \/ Record \/ Finalize
    BY <2>1, <2>4 DEF RouteCollected, RouteReleased, Cleanup, Record, Finalize, cacheVars
  <2>5. CASE Start \/ AddFinalizer \/ Gateway \/ Translate \/ DeleteIngress \/ DisableIngress
             \/ ClearIngressStatus
    BY <2>1, <2>5 DEF Start, AddFinalizer, Gateway, Translate, DeleteIngress, DisableIngress,
                      ClearIngressStatus, cacheVars
  <2>6. CASE WebhookWrites \/ StartFromCanary
    BY <2>1, <2>6, WebhookStep, CanaryStarts
  <2> QED BY <2>1, <2>2, <2>3, <2>4, <2>5, <2>6
          DEF Next, Environment, Kubernetes, Worker, UserWrites, Elsewhere, WebhookWrites
<1> QED BY <1>3, <1>4, <1>5, <1>6, <1>7, <1>8 DEF NotBegun

\* The creation of the first incarnation finds nothing there but an HTTPRoute of
\* the webhook.
LEMMA Creation ==
    ASSUME TypeOK, NotBegun, NEW s \in Rules \cup {Hostless}, NEW c \in UserClass,
           UserCreates(s, c), obj'.uid = 1
    PROVE  /\ w' = w /\ w.pc = "idle" /\ route' = route /\ route.st # "term" /\ route.owner = 0
           /\ selfDel' = {} /\ mem' = {} /\ disk' = {} /\ queued'
<1>1. obj'.uid = obj.uid + 1
  BY DEF UserCreates, Written, NoIngress
<1>2. obj.uid = 0
  BY <1>1 DEF TypeOK, Ingresses
<1> QED BY <1>2 DEF NotBegun, UserCreates, Written, cacheVars

\* As long as the first incarnation lives its HTTPRoute stays, and it was there
\* before it was seen.
LEMMA FirstKept ==
    ASSUME TypeOK, CopyOlder, NotBegun, FirstOwned, [Next]_vars, FirstLive'
    PROVE  \/ \E s \in Rules \cup {Hostless}, c \in UserClass : UserCreates(s, c)
           \/ /\ FirstLive /\ (obj.removed => obj'.removed)
              /\ route'.st = route.st \/ (route.st = "none" /\ route'.st = "live")
<1> SUFFICES ASSUME ~\E s \in Rules \cup {Hostless}, c \in UserClass : UserCreates(s, c)
             PROVE  /\ FirstLive /\ (obj.removed => obj'.removed)
                    /\ route'.st = route.st \/ (route.st = "none" /\ route'.st = "live")
  OBVIOUS
<1>1. FirstLive /\ (obj.removed => obj'.removed)
  BY ObjectStep DEF FirstLive
<1>2. route.st # "term" /\ w.pc # "cleanup" /\ route.owner \in {0, 1} /\ obj.uid = 1
      /\ obj.st = "live"
  BY <1>1 DEF FirstOwned, FirstLive
<1> QED BY <1>1, <1>2, RouteStep

LEMMA OwnedStep ==
    ASSUME TypeOK, CopyOlder, NotBegun, FirstOwned, [Next]_vars
    PROVE  FirstOwned'
<1> SUFFICES ASSUME obj'.uid = 1 PROVE FirstOwned'
  BY DEF FirstOwned, FirstLive
<1>1. ASSUME NEW s \in Rules \cup {Hostless}, NEW c \in UserClass, UserCreates(s, c)
      PROVE  FirstOwned'
  BY <1>1, Creation DEF FirstOwned
<1>2. ASSUME ~\E s \in Rules \cup {Hostless}, c \in UserClass : UserCreates(s, c)
      PROVE  FirstOwned'
  <2>1. obj.uid = 1 /\ (obj' = obj \/ obj.st # "none")
    BY <1>2, ObjectStep
  <2>2. route'.owner \in {0, 1}
    <3>1. Translate => w.pc = "translate"
      BY DEF Translate
    <3> QED BY <2>1, <3>1, RouteStep DEF FirstOwned
  <2>3. w'.pc # "idle" => w'.o.uid = 1
    BY <2>1, WorkerStep, CanaryStarts DEF FirstOwned
  <2>4. ASSUME FirstLive'
        PROVE  /\ route'.st # "term" /\ w'.pc \notin {"cleanup", "finalize"}
               /\ 1 \in selfDel' => obj'.removed
    <3>1. /\ FirstLive /\ (obj.removed => obj'.removed)
          /\ route'.st = route.st \/ route'.st = "live"
      BY <1>2, <2>4, FirstKept
    <3>2. obj.st = "live" /\ route.st # "term" /\ w.pc \notin {"cleanup", "finalize"}
          /\ (1 \in selfDel => obj.removed)
      BY <3>1 DEF FirstOwned, FirstLive
    <3>3. w'.pc \notin {"cleanup", "finalize"}
      BY <3>2, WorkerStep, CanaryStarts
    <3> QED BY <3>1, <3>2, <3>3, RememberedStep
  <2> QED BY <2>2, <2>3, <2>4 DEF FirstOwned
<1> QED BY <1>1, <1>2

\* What was translated has an HTTPRoute, now and when it is cached.
LEMMA ServedStep ==
    ASSUME IInv, NotBegun, FirstOwned, FirstServed, [Next]_vars
    PROVE  FirstServed'
<1> USE DEF IInv
<1> SUFFICES ASSUME ~opt'.clear, FirstLive'
             PROVE  /\ w'.pc \in {"gateway", "mark", "disable", "delete"}
                         \/ (w'.pc = "record" /\ ~w'.canary /\ w'.o.rules # Hostless)
                         => route'.st = "live"
                    /\ obj'.rules # Hostless /\ <<1, obj'.rv>> \in mem' \cup disk'
                         => route'.st = "live"
  BY DEF FirstServed
<1>1. CASE \E s \in Rules \cup {Hostless}, c \in UserClass : UserCreates(s, c)
  BY <1>1, Creation DEF FirstLive
<1>2. CASE ~\E s \in Rules \cup {Hostless}, c \in UserClass : UserCreates(s, c)
  <2>1. ~opt.clear /\ FirstLive
    BY <1>2, OptionsFixed, FirstKept
  <2>2. route.st = "live" => route'.st = "live"
    BY <1>2, FirstKept
  <2>3. ASSUME w'.pc \in {"gateway", "mark", "disable", "delete"}
                 \/ (w'.pc = "record" /\ ~w'.canary /\ w'.o.rules # Hostless)
        PROVE  route'.st = "live"
    <3>1. CASE w' = w \/ w.pc \in {"gateway", "mark", "disable", "delete"}
      BY <2>1, <2>2, <2>3, <3>1 DEF FirstServed
    <3>2. CASE Translate /\ w'.o = w.o /\ w'.canary = w.canary /\ w.pc = "translate"
      <4>1. ~w.canary => shouldInclude(w.o)
        BY <3>2 DEF CopyTranslated
      <4>2. CASE w.o.rules = Hostless \/ ~shouldInclude(w.o)
        <5>1. w'.pc = "record"
          BY <3>2, <4>2 DEF Translate, Goto, TypeOK, Workers
        <5> QED BY <2>3, <3>2, <4>1, <4>2, <5>1
      <4>3. CASE w.o.rules # Hostless /\ shouldInclude(w.o)
        <5>1. route.st # "term" /\ route.st \in {"none", "live", "term"}
          BY <2>1 DEF FirstOwned, TypeOK, HTTPRoutes
        <5>2. route.st = "none" => route'.st = "live"
          BY <3>2, <4>3 DEF Translate, applied
        <5> QED BY <2>2, <5>1, <5>2
      <4> QED BY <4>2, <4>3
    <3>3. w.pc # "clear"
      BY <2>1 DEF CopyTranslated
    <3> QED BY <2>3, <3>1, <3>2, <3>3, WorkerStep, CanaryStarts
  <2>4. ASSUME obj'.rules # Hostless, <<1, obj'.rv>> \in mem' \cup disk'
        PROVE  route'.st = "live"
    <3>0. obj.rv \in Nat /\ w.o.rv \in Nat
      BY DEF TypeOK, Workers, Ingresses
    <3>1. CASE <<1, obj'.rv>> \in mem \cup disk
      <4>1. obj'.rv <= obj.rv
        BY <3>1 DEF CacheOlder
      <4>2. obj' = obj
        BY <3>0, <4>1, VersionsGrow
      <4> QED BY <2>1, <2>2, <2>4, <3>1, <4>2 DEF FirstServed
    <3>2. CASE Record /\ ~w.canary /\ <<1, obj'.rv>> = <<w.o.uid, w.o.rv>>
      <4>1. w.pc = "record" /\ ~w.canary /\ obj' = obj /\ w.o.rv = obj.rv
        BY <3>2 DEF Record
      <4>2. w.o = obj
        BY <4>1 DEF CopyOlder
      <4> QED BY <2>1, <2>2, <2>4, <4>1, <4>2 DEF FirstServed
    <3> QED BY <2>4, <3>1, <3>2, CacheGains
  <2> QED BY <2>3, <2>4
<1> QED BY <1>1, <1>2

\* A reconcile that leaves the HTTPRoute alone finds it translated; one that does
\* not, and is not to be repeated, works with the Ingress of now.
LEMMA FollowedStep ==
    ASSUME IInv, FirstInv, [Next]_vars
    PROVE  FirstFollowed'
<1> USE DEF IInv, FirstInv
<1> SUFFICES ASSUME ~opt'.clear, FirstLive', Wanted(obj)', ~queued', writer' # "webhook",
                    w'.pc \notin {"finalizer", "translate"} \/ w'.canary
             PROVE  route'.st = "live" /\ route'.rules = obj'.rules
  BY DEF FirstFollowed
<1>1. obj' = obj /\ ~\E s \in Rules \cup {Hostless}, c \in UserClass : UserCreates(s, c)
  <2>1. ASSUME NEW s, NEW c, UserCreates(s, c) PROVE FALSE
    BY <2>1 DEF UserCreates, Written
  <2> QED BY <2>1, ObjectStep
<1>2. ~opt.clear /\ FirstLive /\ (route.st = "live" => route'.st = "live")
  BY <1>1, OptionsFixed, FirstKept
<1>3. obj.st = "live" /\ obj.uid = 1 /\ obj.rules # Hostless /\ Wanted(obj)
  BY <1>1, <1>2 DEF Wanted, FirstLive
<1>4. CASE Start
  <2>1. UNCHANGED routeVars /\ w' = IF obj.st = "none" \/ shouldSkipIngress(obj) THEN IdleWorker
                                ELSE [IdleWorker EXCEPT !.o = obj, !.pc =
                                        IF obj.st = "term" THEN "cleanup"
                                        ELSE IF opt.del /\ ~obj.fin THEN "finalizer"
                                        ELSE "translate"]
    BY <1>4 DEF Start
  <2>2. shouldSkipIngress(obj)
    BY <1>3, <2>1 DEF IdleWorker
  <2>3. shouldInclude(obj)
    BY <1>2, <1>3 DEF shouldInclude, classMatches, Wanted, FirstOwned
  <2>4. <<obj.uid, obj.rv>> \in mem
    BY <2>2, <2>3 DEF shouldSkipIngress, shouldSkipReconcile
  <2>5. route.st = "live"
    BY <1>2, <1>3, <2>4 DEF FirstServed
  <2> QED BY <1>1, <1>2, <1>3, <2>1, <2>4, <2>5 DEF CacheSound
<1>5. CASE ~Start
  <2>1. ~queued
    BY <1>3, <1>5, QueueStep
  <2>2. CASE Translate
    <3>1. w.pc = "translate" /\ w.o = obj
      BY <2>1, <2>2 DEF Translate, StaleIsQueued, CopyOlder
    <3>2. shouldInclude(w.o) /\ route.st # "term"
      BY <1>2, <1>3, <3>1 DEF shouldInclude, classMatches, Wanted, FirstOwned
    <3>3. route' = applied(w.o.rules, w.o.uid)
      BY <1>3, <2>2, <3>1, <3>2 DEF Translate
    <3> QED BY <1>1, <3>1, <3>2, <3>3 DEF applied, TypeOK, HTTPRoutes
  <2>3. CASE ~Translate
    <3>1. writer' = writer
      BY <2>3, RouteStep
    <3>2. ASSUME w.pc \in {"finalizer", "translate"}, ~w.canary PROVE FALSE
      <4>1. w'.pc = "idle"
        BY <1>5, <2>3, <3>2, WorkerStep, CanaryStarts
      <4>2. CallFails \/ Crash \/ AddFinalizer
        <5>1. ~Record /\ ~Finalize /\ ~MarkRemoved /\ ~DisableIngress /\ ~ClearIngressStatus
              /\ ~Gateway /\ ~DeleteIngress /\ ~Cleanup
          BY <3>2 DEF Record, Finalize, MarkRemoved, DisableIngress, ClearIngressStatus, Gateway,
                      DeleteIngress, Cleanup
        <5>2. ~UserWrites /\ ~WebhookWrites /\ ~StartFromCanary
          BY <3>2, <4>1, UserWritesVersion, WebhookStep, CanaryStarts
        <5>3. ~Elsewhere /\ ~RouteCollected /\ ~RouteReleased /\ ~\E e \in mem : EntryExpires(e)
          BY <3>2, <4>1 DEF Elsewhere, FilterEdited, GatewayTaken, SelfDeletedExpires, EntryExpires,
                            RouteCollected, RouteReleased
        <5>4. ~UNCHANGED vars
          BY <3>2, <4>1 DEF vars
        <5> QED BY <1>5, <2>3, <5>1, <5>2, <5>3, <5>4
                DEF Next, Environment, Kubernetes, Worker, UserWrites, Elsewhere, WebhookWrites
      <4>3. queued'
        BY <1>3, <3>2, <4>2 DEF CallFails, Crash, AddFinalizer, UpdateIngress, Requeue, Written
      <4> QED BY <4>3
    <3>3. route.st = "live" /\ route.rules = obj.rules
      BY <1>2, <1>3, <2>1, <3>1, <3>2 DEF FirstFollowed
    <3> QED BY <1>1, <1>2, <2>3, <3>3, LiveRoute
  <2> QED BY <2>2, <2>3
<1> QED BY <1>4, <1>5

\* Every edit of the first incarnation of an Ingress reaches its HTTPRoute in
\* spite of conflicts, failed calls, restarts, expiring and partly saved caches:
\* at rest the HTTPRoute has the rules of the Ingress (without status clearing,
\* and unless the webhook wrote it last).
THEOREM FirstIsTranslated == Spec => []FirstTranslated
<1>1. Init => FirstInv
  BY DEF Init, FirstInv, NotBegun, FirstOwned, FirstServed, StaleIsQueued, FirstFollowed,
         FirstLive, NoIngress, NoRoute, IdleWorker
<1>2. IInv /\ FirstInv /\ [Next]_vars => FirstInv'
  <2> SUFFICES ASSUME IInv, FirstInv, [Next]_vars PROVE FirstInv'
    OBVIOUS
  <2>1. NotBegun' /\ FirstOwned' /\ StaleIsQueued'
    BY NotBegunStep, OwnedStep, StaleStep DEF IInv, FirstInv
  <2> QED BY <2>1, ServedStep, FollowedStep DEF FirstInv
<1>3. FirstInv => FirstTranslated
  BY DEF FirstInv, FirstFollowed, FirstTranslated, QuietTranslated, FirstLive, Wanted, Quiet
<1> QED BY <1>1, <1>2, <1>3, InvariantHolds, PTL DEF Spec
=============================================================================
