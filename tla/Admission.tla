------------------------------ MODULE Admission ------------------------------
(***************************************************************************)
(* The admission webhook and the Ingress worker of the operator: two       *)
(* processes that translate the Ingresses of one namespace, and the        *)
(* filters their HTTPRoutes refer to.                                      *)
(*                                                                         *)
(* A SnippetsFilter or an extension filter (authentication, headers) that  *)
(* an Ingress asks for is copied from the namespace of the Gateway, one    *)
(* copy for all Ingresses of the namespace; the annotations of an Ingress  *)
(* give it an automatic SnippetsFilter of its own, named here by the       *)
(* Ingress.  The webhook does all of that before it denies the Ingress, or *)
(* lets it pass to the operator, which does it again.                      *)
(*                                                                         *)
(* Every call of the API server is a step.  An Update is refused when the  *)
(* copy is not current (`fresh' holds the processes whose copy is); a      *)
(* Delete has no precondition.  The content of an Ingress is a record of   *)
(* module Translation with the fields ignore, allow, auto and the filters  *)
(* that its class or name, its annotation, and the rules of the options    *)
(* give it: byClass, listed, added, removed, auths.  The splitting of      *)
(* routes is in RouteApply, ReferenceGrants in ReferenceGrants, deletion   *)
(* with a finalizer in IngressLifecycle.                                   *)
(***************************************************************************)
EXTENDS Translation, FiniteSets

CONSTANTS
    Ing,               \* the Ingresses of the namespace
    Contents,          \* what a user may write into one
    Classes,           \* classes that the class filters let through
    Snippets, Auths,   \* names of SnippetsFilters and of extension filters
    NoIngress, NoOwner, Gone,
    Operator,          \* whether the operator runs beside the webhook
    MaxVersion,        \* bound: versions of a filter
    MaxEvents,         \* bound: changes made from outside, restarts, timeouts
    MaxFails           \* bound: failed calls of the API server

Copied == Snippets \cup Auths
Filter == Copied \cup Ing

\* The three kinds of filters are told apart, and so are the values that stand
\* for none; an Ingress asks for filters of the right kind.
ASSUME KindsAssumption ==
    /\ IsFiniteSet(Snippets) /\ IsFiniteSet(Auths)
    /\ Snippets \cap Auths = {} /\ Copied \cap Ing = {}
    /\ NoIngress \notin Contents
    /\ NoOwner # Gone /\ {NoOwner, Gone} \cap ({"ingress", "route"} \X Ing) = {}

ASSUME ContentsAssumption ==
    \A o \in Contents :
        /\ o.byClass \cup o.listed \cup o.added \subseteq Snippets /\ o.auths \subseteq Auths
        /\ o.auto \in BOOLEAN /\ o.allow \in BOOLEAN

ASSUME BoundsAssumption == MaxVersion \in Nat \ {0} /\ MaxEvents \in Nat /\ MaxFails \in Nat

VARIABLES
    gw,       \* the shared Gateway: its listeners and the content they are of
    ing,      \* [Ing -> Contents \cup {NoIngress}]: the stored Ingresses
    src,      \* [Copied -> 0..MaxVersion]: the filters at the Gateway; 0: none
    obj,      \* [Filter -> [st, v, owner]]: the filters of the namespace
    route,    \* [Ing -> [st, refs, owner]]: the HTTPRoutes
    queue,    \* Ingresses the operator is to reconcile
    seen,     \* those whose version is in its reconcile cache
    held,     \* those whose version is the one it is translating
    proc,     \* ["op", "wh" -> state of the process]
    fresh,    \* processes holding a current copy of the filter at hand
    denied,   \* the requests <<i, o>> that the webhook denied
    unstored, \* history: Ingresses with a request that the webhook served and that was
              \* not stored, unless the operator wrote their route since
    excused,  \* history: filters that missed their source, or the Ingress they are for,
              \* at some time, or with an error that was logged
    events, fails

gwVars == <<gw, src>>
routeVars == <<ing, route>>
opVars == <<queue, seen, held>>
envVars == <<events, fails>>
vars == <<gwVars, routeVars, obj, opVars, proc, fresh, denied, unstored, excused, envVars>>

-----------------------------------------------------------------------------
NoGateway == [of |-> NoIngress, listeners |-> {}]

Owners == {NoOwner, Gone} \cup ({"ingress", "route"} \X Ing)

Objects == [st: {"none", "ours", "foreign"}, v: 0..MaxVersion, owner: Owners]
NoObject == [st |-> "none", v |-> 0, owner |-> NoOwner]

Routes == [st: {"none", "live"}, refs: SUBSET Filter, owner: Owners]
NoRoute == [st |-> "none", refs |-> {}, owner |-> NoOwner]

\* The calls made for one filter.
Calls == {"source", "orphan", "delete", "owner", "get", "create", "update"}

\* i, o: the Ingress at hand and its content; todo: the filters still to be
\* ensured; after: what follows; refs: those the rules of the route refer to; v: the version of the
\* source just read; owner: of the route (operator) and of an automatic filter.
Processes ==
    [pc: Calls \cup {"idle", "gateway", "apply", "answer"}, i: {{}} \cup {{j} : j \in Ing},
     o: Contents \cup {NoIngress}, todo: Seq(Filter), after: {"apply", "answer"},
     refs: SUBSET Filter, v: 0..MaxVersion, owner: Owners]
Idle == [pc |-> "idle", i |-> {}, o |-> NoIngress, todo |-> <<>>, after |-> "apply", refs |-> {},
         v |-> 0, owner |-> NoOwner]

Init ==
    /\ gw = NoGateway
    /\ ing = [i \in Ing |-> NoIngress]
    /\ src = [f \in Copied |-> 1]
    /\ obj = [x \in Filter |-> NoObject]
    /\ route = [i \in Ing |-> NoRoute]
    /\ queue = {} /\ seen = {} /\ held = {}
    /\ proc = [me \in {"op", "wh"} |-> Idle]
    /\ fresh = {} /\ denied = {} /\ unstored = {} /\ excused = {}
    /\ events = 0 /\ fails = 0

-----------------------------------------------------------------------------
(* Which Ingresses, and which filters.                                     *)

\* The checks before the translation, the same in Handle and in
\* shouldSkipIngress.  Canaries are the operator's (module SiblingRoutes).
translated(o) == ~o.ignore /\ o.cls \in Classes /\ ~o.canary

\* applySnippetsFilters of the operator: the remove rules apply to all of them.
operatorSnippets(o) == (o.byClass \cup o.listed \cup o.added) \ o.removed

\* Of the webhook: its remove rules apply to the filters of the add rules only.
snippetsOverrides(o) == o.added \ o.removed
webhookSnippets(o) == o.byClass \cup snippetsOverrides(o)

automatic(i, o) == IF o.auto THEN <<i>> ELSE <<>>

filtersOf(me, i, o) ==
    IF me = "op"
    THEN SetToSeq(o.auths) \o SetToSeq(operatorSnippets(o)) \o automatic(i, o)
    ELSE SetToSeq(webhookSnippets(o)) \o automatic(i, o)

\* enqueueIngressesForSnippetsName and -ForExtension.
enqueueFor(f) ==
    {i \in Ing : /\ ing[i] # NoIngress /\ ing[i].cls \in Classes
                 /\ f \in ing[i].byClass \cup ing[i].listed \cup ing[i].added \cup ing[i].auths}

\* The operator refers to a filter that is ready.  The webhook refers to a
\* shared one whatever becomes of the copy, and to an automatic one unless
\* there was an error.
refersTo(me, x, result) ==
    result = "ready" \/ (me = "wh" /\ (x \in Snippets \/ result = "skipped"))

-----------------------------------------------------------------------------
(* The world outside.                                                      *)

Event == events < MaxEvents /\ events' = events + 1 /\ UNCHANGED fails

\* The API server stores an Ingress, which the operator's watch reports.
Store(i, o) ==
    /\ ing' = [ing EXCEPT ![i] = o]
    /\ queue' = IF Operator THEN queue \cup {i} ELSE queue
    /\ seen' = seen \ {i} /\ held' = held \ {i}

\* failurePolicy is Ignore: without a webhook the Ingress is stored.
Bypass(i, o) ==
    /\ Event /\ Operator
    /\ o # ing[i]
    /\ Store(i, o)
    /\ UNCHANGED <<gwVars, route, obj, proc, fresh, denied, unstored, excused>>

\* After the webhook let a request pass, the API server stores it, or does not:
\* a dry run, an update that changes nothing, one that a later check or the
\* resourceVersion refuses.  The webhook cannot tell, and asks for none of it.
StoreOrNot(i, o) ==
    \/ Store(i, o) /\ UNCHANGED unstored
    \/ unstored' = unstored \cup {i} /\ UNCHANGED <<ing, opVars>>

\* A user sends an Ingress through the webhook, a new one or one as it is.  One
\* that is not translated passes at once, and if it is not stored nothing changes.
Admit(i, o) ==
    /\ Event
    /\ proc["wh"].pc = "idle"
    /\ IF translated(o)
       THEN /\ proc' = [proc EXCEPT !["wh"] = [Idle EXCEPT !.pc = "gateway", !.i = {i}, !.o = o]]
            /\ UNCHANGED <<ing, opVars>>
       ELSE Store(i, o) /\ UNCHANGED proc
    /\ UNCHANGED <<gwVars, route, obj, fresh, denied, unstored, excused>>

\* The webhook stops, or the API server does not wait for it any longer.
Timeout ==
    /\ Event
    /\ proc["wh"].pc # "idle"
    /\ \A i \in proc["wh"].i : StoreOrNot(i, proc["wh"].o)
    /\ proc' = [proc EXCEPT !["wh"] = Idle]
    /\ fresh' = fresh \ {"wh"}
    /\ UNCHANGED <<gwVars, route, obj, denied, excused>>

\* Whatever an object owned that does not exist any longer waits for the
\* garbage collector, and so will what is about to be written.
orphaned(owner, of) == IF owner = of THEN Gone ELSE owner
objOrphaned(of) == [x \in Filter |-> [obj[x] EXCEPT !.owner = orphaned(@, of)]]
procOrphaned(of) == [me \in {"op", "wh"} |-> [proc[me] EXCEPT !.owner = orphaned(@, of)]]

UserDelete(i) ==
    /\ Event
    /\ ing[i] # NoIngress
    /\ ing' = [ing EXCEPT ![i] = NoIngress]
    /\ route' = [route EXCEPT ![i].owner = orphaned(@, <<"ingress", i>>)]
    /\ obj' = objOrphaned(<<"ingress", i>>)
    /\ proc' = procOrphaned(<<"ingress", i>>)
    /\ seen' = seen \ {i} /\ held' = held \ {i}
    /\ excused' = excused \cup {i}
    /\ UNCHANGED <<gwVars, queue, fresh, denied, unstored>>

\* A user writes or deletes a filter in the namespace of the Gateway.
UserSource(f) ==
    /\ Event
    /\ \/ src[f] < MaxVersion /\ src' = [src EXCEPT ![f] = @ + 1] /\ UNCHANGED excused
       \/ src[f] > 0 /\ src' = [src EXCEPT ![f] = 0] /\ excused' = excused \cup {f}
    /\ queue' = IF Operator THEN queue \cup enqueueFor(f) ELSE queue
    /\ UNCHANGED <<gw, routeVars, obj, seen, held, proc, fresh, denied, unstored>>

\* A user removes the managed-by annotation from a filter of the namespace.
UserTakes(x) ==
    /\ Event
    /\ obj[x].st = "ours"
    /\ obj' = [obj EXCEPT ![x].st = "foreign"]
    /\ fresh' = {me \in fresh : Head(proc[me].todo) # x}
    /\ UNCHANGED <<gwVars, routeVars, opVars, proc, denied, unstored, excused>>

\* The operator restarts with the reconcile cache it saved.
Restart ==
    /\ Event /\ Operator
    /\ proc' = [proc EXCEPT !["op"] = Idle]
    /\ fresh' = fresh \ {"op"}
    /\ queue' = {i \in Ing : ing[i] # NoIngress}
    /\ held' = {}
    /\ UNCHANGED <<gwVars, routeVars, obj, seen, denied, unstored, excused>>

\* An entry of the reconcile cache is older than its TTL.
Expire(i) ==
    /\ Event
    /\ i \in seen
    /\ seen' = seen \ {i}
    /\ UNCHANGED <<gwVars, routeVars, obj, queue, held, proc, fresh, denied, unstored, excused>>

CollectRoute(i) ==
    /\ route[i].owner = Gone
    /\ route' = [route EXCEPT ![i] = NoRoute]
    /\ obj' = objOrphaned(<<"route", i>>)
    /\ proc' = procOrphaned(<<"route", i>>)
    /\ UNCHANGED <<gwVars, ing, opVars, fresh, denied, unstored, excused, envVars>>

CollectFilter(x) ==
    /\ obj[x].owner = Gone
    /\ obj' = [obj EXCEPT ![x] = NoObject]
    /\ fresh' = {me \in fresh : Head(proc[me].todo) # x}
    /\ UNCHANGED <<gwVars, routeVars, opVars, proc, denied, unstored, excused, envVars>>

-----------------------------------------------------------------------------
(* Ensuring one filter after the other: EnsureSnippetsFilterCopyForHTTPRoute, *)
(* EnsureExtensionResource and EnsureSnippetsFilterForIngress.             *)

unchangedByFilters == <<gwVars, routeVars, opVars, denied, unstored, events>>

\* The first step for the filter at the head of w.todo; after the last one the
\* route is applied, and after the webhook's second round it answers.
started(w) ==
    [w EXCEPT !.pc = IF w.todo = <<>> THEN w.after
                     ELSE IF Head(w.todo) \in Copied THEN "source"
                     ELSE IF w.after = "answer" THEN "owner" ELSE "get"]

\* The filter at the head is done.
Done(me, result) ==
    LET w == proc[me]
        x == Head(w.todo)
        refs == IF w.after = "apply" /\ refersTo(me, x, result) THEN w.refs \cup {x} ELSE w.refs
    IN  /\ proc' = [proc EXCEPT ![me] = started([w EXCEPT !.todo = Tail(@), !.refs = refs])]
        /\ excused' = IF result = "failed" \/ (result = "error" /\ x \in Ing)
                      THEN excused \cup {x} ELSE excused

Goto(me, pc) == proc' = [proc EXCEPT ![me].pc = pc] /\ UNCHANGED excused

At(me, pc, x) == proc[me].pc = pc /\ x = Head(proc[me].todo)

\* The process writes x: copies that others hold are stale.
Write(x, new) ==
    /\ obj' = [obj EXCEPT ![x] = new]
    /\ fresh' = {m \in fresh : Head(proc[m].todo) # x}

\* Mutant: a missing source is copied as an empty one.
sourcePlan_NoCheck(x) == "get"

\* A copy whose source is missing is deleted, if it is of a SnippetsFilter.
sourcePlan(x) ==
    IF src[x] > 0 THEN "get" ELSE IF x \in Snippets THEN "orphan" ELSE "skipped"

GetSource(me, x) ==
    /\ At(me, "source", x)
    /\ IF sourcePlan(x) = "skipped" THEN Done(me, "skipped")
       ELSE proc' = [proc EXCEPT ![me].pc = sourcePlan(x), ![me].v = src[x]] /\ UNCHANGED excused
    /\ UNCHANGED <<unchangedByFilters, obj, fresh, fails>>

GetOrphan(me, x) ==
    /\ At(me, "orphan", x)
    /\ IF obj[x].st = "ours" THEN Goto(me, "delete") ELSE Done(me, "skipped")
    /\ UNCHANGED <<unchangedByFilters, obj, fresh, fails>>

DeleteOrphan(me, x) ==
    /\ At(me, "delete", x)
    /\ Write(x, NoObject)
    /\ Done(me, "skipped")
    /\ UNCHANGED <<unchangedByFilters, fails>>

\* The webhook's second round gives the automatic filter its owner.
GetOwner(me, x) ==
    /\ At(me, "owner", x)
    /\ IF route[x].st = "none" THEN Done(me, "skipped")
       ELSE /\ proc' = [proc EXCEPT ![me].pc = "get", ![me].owner = <<"route", x>>]
            /\ UNCHANGED excused
    /\ UNCHANGED <<unchangedByFilters, obj, fresh, fails>>

GetFilter(me, x) ==
    /\ At(me, "get", x)
    /\ CASE obj[x].st = "none"    -> Goto(me, "create") /\ UNCHANGED fresh
         [] obj[x].st = "ours"    -> Goto(me, "update") /\ fresh' = fresh \cup {me}
         [] obj[x].st = "foreign" -> Done(me, "skipped") /\ UNCHANGED fresh
    /\ UNCHANGED <<unchangedByFilters, obj, fails>>

\* Mutant: a copy belongs to the Ingress it was made for.
desired_Owned(w, x) ==
    [st |-> "ours", v |-> IF x \in Copied THEN w.v ELSE 0, owner |-> w.owner]

\* A copy has no owner: other Ingresses may share it.
desired(w, x) ==
    [st |-> "ours", v |-> IF x \in Copied THEN w.v ELSE 0,
     owner |-> IF x \in Copied THEN NoOwner ELSE w.owner]

CreateFilter(me, x) ==
    /\ At(me, "create", x)
    /\ IF obj[x].st = "none"
       THEN Write(x, desired(proc[me], x)) /\ Done(me, "ready")
       ELSE Done(me, "error") /\ UNCHANGED <<obj, fresh>>
    /\ UNCHANGED <<unchangedByFilters, fails>>

\* Mutant: the Update carries no resourceVersion.
UpdateAccepted_Blind(me, x) == obj[x].st # "none"

UpdateAccepted(me, x) == me \in fresh

UpdateFilter(me, x) ==
    /\ At(me, "update", x)
    /\ IF UpdateAccepted(me, x)
       THEN Write(x, desired(proc[me], x)) /\ Done(me, "ready")
       ELSE Done(me, "error") /\ fresh' = fresh \ {me} /\ UNCHANGED obj
    /\ UNCHANGED <<unchangedByFilters, fails>>

\* A call fails; the callers log it and go on.
FilterFails(me, x) ==
    /\ fails < MaxFails
    /\ proc[me].pc \in Calls
    /\ At(me, proc[me].pc, x)
    /\ fails' = fails + 1
    /\ Done(me, "failed")
    /\ fresh' = fresh \ {me}
    /\ UNCHANGED <<unchangedByFilters, obj>>

EnsureFilter(me, x) ==
    \/ GetSource(me, x) \/ GetOrphan(me, x) \/ DeleteOrphan(me, x) \/ GetOwner(me, x)
    \/ GetFilter(me, x) \/ CreateFilter(me, x) \/ UpdateFilter(me, x) \/ FilterFails(me, x)

-----------------------------------------------------------------------------
(* ApplyHTTPRoutesAtomic for a route r that the operator manages.          *)

\* Mutant: a route that exists is left alone.
applied_CreateOnly(r, refs, owner) ==
    IF r.st = "none" THEN [st |-> "live", refs |-> refs, owner |-> owner] ELSE r

\* An existing route keeps its owner.
applied(r, refs, owner) ==
    IF r.st = "none" THEN [st |-> "live", refs |-> refs, owner |-> owner]
    ELSE [r EXCEPT !.refs = refs]

-----------------------------------------------------------------------------
(* The operator: Reconcile and reconcileIngressToHTTPRoute.                *)

OpStart(i) ==
    /\ proc["op"].pc = "idle" /\ i \in queue
    /\ queue' = queue \ {i}
    /\ IF ing[i] # NoIngress /\ translated(ing[i]) /\ i \notin seen
       THEN /\ proc' = [proc EXCEPT !["op"] =
                 started([Idle EXCEPT !.i = {i}, !.o = ing[i],
                                      !.todo = filtersOf("op", i, ing[i]),
                                      !.owner = <<"ingress", i>>])]
            /\ held' = {i}
       ELSE UNCHANGED <<proc, held>>
    /\ UNCHANGED <<gwVars, routeVars, seen, obj, fresh, denied, unstored, excused, envVars>>

\* The version that was translated is recorded, which is not the current one
\* when the Ingress was written since.
OpApply(i) ==
    /\ proc["op"].pc = "apply" /\ proc["op"].i = {i}
    /\ route' = [route EXCEPT ![i] = applied(@, proc["op"].refs, proc["op"].owner)]
    /\ seen' = seen \cup held /\ held' = {}
    /\ proc' = [proc EXCEPT !["op"] = Idle]
    /\ unstored' = unstored \ {i}
    /\ UNCHANGED <<gwVars, ing, queue, obj, fresh, denied, excused, envVars>>

\* ApplyHTTPRoutesAtomic fails: the error is returned, the Ingress is retried.
OpApplyFails(i) ==
    /\ fails < MaxFails
    /\ proc["op"].pc = "apply" /\ proc["op"].i = {i}
    /\ fails' = fails + 1
    /\ queue' = queue \cup {i} /\ held' = {}
    /\ proc' = [proc EXCEPT !["op"] = Idle]
    /\ UNCHANGED <<gwVars, routeVars, seen, obj, fresh, denied, unstored, excused, events>>

-----------------------------------------------------------------------------
(* The webhook: Handle.                                                    *)

\* The first Gateway is created.  The Update of one that exists carries no
\* resourceVersion, and the API server refuses that for custom resources.
WHGateway(i) ==
    /\ proc["wh"].pc = "gateway" /\ proc["wh"].i = {i}
    /\ LET o == proc["wh"].o
       IN  /\ gw' = IF gw = NoGateway
                    THEN [of |-> o, listeners |-> TranslateToGateway(o)] ELSE gw
           /\ proc' = [proc EXCEPT !["wh"] =
                started([@ EXCEPT !.after = "apply", !.todo = filtersOf("wh", i, o)])]
    /\ UNCHANGED <<src, routeVars, opVars, obj, fresh, denied, unstored, excused, envVars>>

\* The route, or an error that is only logged; then the second round.
WHApply(i) ==
    /\ proc["wh"].pc = "apply" /\ proc["wh"].i = {i}
    /\ \/ route' = [route EXCEPT ![i] = applied(@, proc["wh"].refs, NoOwner)] /\ UNCHANGED fails
       \/ fails < MaxFails /\ fails' = fails + 1 /\ UNCHANGED route
    /\ proc' = [proc EXCEPT !["wh"] =
         started([@ EXCEPT !.after = "answer", !.todo = filtersOf("wh", i, proc["wh"].o)])]
    /\ UNCHANGED <<gwVars, ing, opVars, obj, fresh, denied, unstored, excused, events>>

\* Denied, or let pass as it is but for an annotation.
WHAnswer(i) ==
    /\ proc["wh"].pc = "answer" /\ proc["wh"].i = {i}
    /\ IF proc["wh"].o.allow
       THEN StoreOrNot(i, proc["wh"].o) /\ UNCHANGED denied
       ELSE /\ denied' = denied \cup {<<i, proc["wh"].o>>}
            /\ unstored' = unstored \cup {i}
            /\ UNCHANGED <<ing, opVars>>
    /\ proc' = [proc EXCEPT !["wh"] = Idle]
    /\ UNCHANGED <<gwVars, route, obj, fresh, excused, envVars>>

-----------------------------------------------------------------------------
Environment ==
    \/ \E i \in Ing : \/ \E o \in Contents : Bypass(i, o) \/ Admit(i, o)
                      \/ UserDelete(i) \/ Expire(i) \/ CollectRoute(i)
    \/ \E f \in Copied : UserSource(f)
    \/ \E x \in Filter : UserTakes(x) \/ CollectFilter(x)
    \/ Restart \/ Timeout

Work ==
    \/ \E me \in {"op", "wh"}, x \in Filter : EnsureFilter(me, x)
    \/ \E i \in Ing : \/ OpStart(i) \/ OpApply(i) \/ OpApplyFails(i)
                      \/ WHGateway(i) \/ WHApply(i) \/ WHAnswer(i)

Next == Environment \/ Work

Spec == Init /\ [][Next]_vars

-----------------------------------------------------------------------------
(* Properties.                                                             *)

\* Every variable stays in its set; a copy has the version of some source.
TypeOK ==
    /\ gw.of \in Contents \cup {NoIngress}
    /\ ing \in [Ing -> Contents \cup {NoIngress}]
    /\ src \in [Copied -> 0..MaxVersion]
    /\ obj \in [Filter -> Objects]
    /\ \A f \in Copied : obj[f].st # "none" => obj[f].v > 0
    /\ route \in [Ing -> Routes]
    /\ queue \subseteq Ing /\ seen \subseteq Ing /\ held \subseteq Ing
    /\ denied \subseteq Ing \X Contents /\ unstored \subseteq Ing
    /\ proc \in [{"op", "wh"} -> Processes]
    /\ fresh \subseteq {"op", "wh"}
    /\ excused \subseteq Filter
    /\ events \in 0..MaxEvents /\ fails \in 0..MaxFails

\* Neither process rewrites a filter without the managed-by annotation, not
\* even one that lost it between the read and the write.
ForeignFilterUntouched ==
    [][\A x \in Filter : obj[x].st = "foreign" /\ obj'[x].st # "none" =>
         /\ obj'[x].st = "foreign" /\ obj'[x].v = obj[x].v
         /\ obj'[x].owner \in {obj[x].owner, Gone}]_vars

Quiet ==
    /\ queue = {} /\ \A me \in DOMAIN proc : proc[me].pc = "idle"
    /\ \A i \in Ing : route[i].owner # Gone
    /\ \A x \in Filter : obj[x].owner # Gone

\* A filter that a route refers to exists, at every moment: a shared copy
\* outlives the Ingress it was made for, and an automatic filter lives as long
\* as its route.  That is not so for a copy whose source was missing at
\* some time, for the automatic filter of an Ingress that was deleted at some
\* time (the webhook makes a route without owner, and the operator gives the
\* filter that of the Ingress), and after an error that was only logged.
FiltersExist ==
    \A i \in Ing : \A x \in route[i].refs \ excused : obj[x].st # "none"

\* When nothing is left to do, the route of a stored Ingress refers to every
\* extension filter it asks for, authentication among them, that could be
\* copied: what the webhook writes without it is written again.  That rests on
\* the new version, which the operator's cache does not know: a request that
\* the webhook served and that was not stored after all (denied, a dry run,
\* no change, a conflict) leaves its route until the operator writes it again.
FiltersApplied ==
    Quiet /\ Operator => \A i \in Ing \ unstored :
        ing[i] # NoIngress /\ translated(ing[i]) /\ i \in seen /\ route[i].st = "live" =>
            \A f \in ing[i].auths \ excused :
                obj[f].st = "ours" => f \in route[i].refs

\* A certificate for name c is good for hostname h: the same name, or a wildcard
\* that stands for the first label of h and no more (RFC 6125, section 6.4.3).
covers(c, h) ==
    c = h \/ (Len(c) > 2 /\ Len(c) = Len(h) /\ c[1] = "*" /\ Tail(c) = Tail(h))

\* A listener of the Gateway that the webhook creates offers a certificate of
\* the Ingress only when that certificate covers the name of the listener,
\* which is the hostname of the Ingress after the rewriting.
CertificateCovers ==
    \A l \in gw.listeners : l.secret # NoSecret /\ l.secret[1] = l.ns =>
        \E k \in DOMAIN gw.of.tls : \E c \in gw.of.tls[k].hosts :
            l.secret[2] = gw.of.tls[k].secret /\ covers(c, l.name)

\* Every hostname of an Ingress that was denied because "Gateway and HTTPRoute
\* have been created instead" has a listener.
DeniedIsServed ==
    \A p \in denied : \A h \in hosts(p[2]) :
        \E l \in gw.listeners : l.name = TransformHostname(h)
=============================================================================
