---------------------------- MODULE SiblingRoutes ----------------------------
(***************************************************************************)
(* The Ingresses of one namespace and the HTTPRoutes made of them          *)
(* (ingress_controller.go).  The route of a primary Ingress depends on its *)
(* siblings: canaries on one of its paths are folded into it, and a        *)
(* directive that may stand once in a server block is left to the oldest   *)
(* sibling on a shared hostname.  A canary has no route; its reconcile     *)
(* makes the routes of its primaries again.                                *)
(*                                                                         *)
(* One worker reconciles one Ingress after the other.  Between its steps   *)
(* users create, edit and delete Ingresses, each once under a name.  The   *)
(* skip rules, the reconcile cache and the post-processing are in module   *)
(* IngressLifecycle, how a route is written in module RouteApply.          *)
(***************************************************************************)
EXTENDS Translation, FiniteSets

CONSTANTS
    Name,        \* names of Ingresses, which are numbers: ties go by name
    Contents,    \* what the Ingress of a name may contain: the records of Translation
                 \* with `key': it has an annotation for a server-only directive
    MaxEvents,   \* bound: changes by users
    MaxFails     \* bound: failing calls

ASSUME NameAssumption == Name \subseteq Nat /\ IsFiniteSet(Name)
ASSUME ContentsAssumption ==
    \A n \in Name : \A c \in Contents[n] :
        /\ c.canary \in BOOLEAN /\ c.key \in BOOLEAN
        /\ admissible(c) /\ configured(c.cfg)
ASSUME SiblingBounds == MaxEvents \in Nat /\ MaxFails \in Nat

VARIABLES
    del,     \* --enable-deletion
    obj,     \* the Ingresses: [st, ts, fin, c]
    route,   \* the HTTPRoutes: [hosts, rules, server] or NoRoute
    queue,   \* the work queue
    w,       \* the worker
    lost,    \* history: primaries that a failure, a missing finalizer, an edit or a
             \* tie kept from seeing a change of a sibling
    events, fails

vars == <<del, obj, route, queue, w, lost, events, fails>>

-----------------------------------------------------------------------------
NoRoute == [hosts |-> {}, rules |-> <<>>, server |-> FALSE]
NoContent == [canary |-> FALSE, cls |-> "", rules |-> <<>>]
Written == UNION {Contents[n] : n \in Name}
AnyContent == Written \cup {NoContent}

Ingresses == [st: {"new", "live", "term", "gone"}, ts: Nat, fin: BOOLEAN, c: AnyContent]

\* n: the Ingress reconciled, as it was read: content self, being deleted or
\* not; todo: the primaries still to do; p, c: the Ingress whose route is made
\* and its content; canaries, suppress: what the lists gave; blind: a list
\* failed or is outdated without anyone being told.
Workers ==
    [pc: {"idle", "primaries", "next", "canaries", "conflicts", "apply"}, n: Name \cup {0}, self: AnyContent,
     term: BOOLEAN, todo: SUBSET (Name \X AnyContent), p: Name \cup {0}, c: AnyContent,
     canaries: Seq(Written), suppress: BOOLEAN, blind: BOOLEAN]
Idle == [pc |-> "idle", n |-> 0, self |-> NoContent, term |-> FALSE, todo |-> {},
         p |-> 0, c |-> NoContent, canaries |-> <<>>, suppress |-> FALSE, blind |-> FALSE]

Init ==
    /\ del \in BOOLEAN
    /\ obj = [n \in Name |-> [st |-> "new", ts |-> 0, fin |-> FALSE, c |-> NoContent]]
    /\ route = [n \in Name |-> NoRoute]
    /\ queue = {}
    /\ w = Idle
    /\ lost = {}
    /\ events = 0 /\ fails = 0

Exists(n) == obj[n].st \in {"live", "term"}
Live(n) == obj[n].st = "live"

-----------------------------------------------------------------------------
(* Whose route an Ingress has a part in.                                   *)

\* The siblings of n, in the order a List returns them, which is any.
siblings(n) == {m \in Name : m # n /\ Exists(m)}

isCanaryOf(m, c) ==
    /\ obj[m].c.canary /\ Live(m)
    /\ obj[m].c.cls = c.cls
    /\ sharesHostPath(c, obj[m].c)

\* Mutant: a canary that is being deleted is still folded in.
findCanarySiblings_Terminating(n, c) ==
    {m \in siblings(n) : obj[m].c.canary /\ obj[m].c.cls = c.cls /\ sharesHostPath(c, obj[m].c)}

\* The canaries of n, when it has content c.
findCanarySiblings(n, c) == {m \in siblings(n) : isCanaryOf(m, c)}

\* reconcileCanaryPrimaries: the primaries of canary n with content c.
primariesOf(n, c) ==
    {m \in siblings(n) : /\ ~obj[m].c.canary /\ Live(m)
                         /\ obj[m].c.cls = c.cls
                         /\ sharesHostPath(obj[m].c, c)}

\* Mutant: nothing breaks a tie.
isOlderIngress_Tie(a, s, b, t) == s < t

\* a was created at s and b at t.  Creation timestamps have the granularity of a
\* second; names break ties.
isOlderIngress(a, s, b, t) == s < t \/ (s = t /\ a < b)

\* isConflictCandidate, sharesAnyHost and suppressServerOnlyConflicts.
suppresses(m, n, c) ==
    /\ ~obj[m].c.canary /\ Live(m)
    /\ isOlderIngress(m, obj[m].ts, n, obj[n].ts)
    /\ transformedHostSet(c) \cap transformedHostSet(obj[m].c) # {}
    /\ c.key /\ obj[m].c.key

\* What an Ingress is translated to: the route, and whether the snippets
\* filter made for it has the directive.
translation(c, canaries, suppress) ==
    LET r == TranslateToHTTPRoute(c, canaries)
    IN  [hosts |-> r.hosts, rules |-> r.rules, server |-> c.key /\ ~suppress]

-----------------------------------------------------------------------------
(* Users.                                                                  *)

Event == events < MaxEvents /\ events' = events + 1

Clock == Max({obj[n].ts : n \in Name})

\* What happens to the routes of M goes unnoticed, also by the worker.
Unseen(M) ==
    /\ lost' = lost \cup M
    /\ w' = [w EXCEPT !.blind = @ \/ (w.pc \in {"conflicts", "apply"} /\ w.p \in M)]

\* The routes that n with content c, created at t, takes the directive from.  It
\* makes only its own.
overruled(n, c, t) ==
    {m \in siblings(n) : /\ ~c.canary /\ c.key /\ obj[m].c.key
                         /\ isOlderIngress(n, t, m, obj[m].ts)
                         /\ transformedHostSet(c) \cap transformedHostSet(obj[m].c) # {}}

\* In the second of the last creation or a later one; seconds count from 1.
UserCreates(n, c) ==
    /\ Event
    /\ obj[n].st = "new"
    /\ \E t \in {Clock, Clock + 1} \ {0} :
          /\ obj' = [obj EXCEPT ![n] = [st |-> "live", ts |-> t, fin |-> FALSE, c |-> c]]
          /\ Unseen(overruled(n, c, t))
    /\ queue' = queue \cup {n}
    /\ UNCHANGED <<del, route, fails>>

\* The routes that n with its new content c is no longer folded into, or takes
\* the directive from, and that its reconcile does not make again.
outdated(n, c) ==
    (IF obj[n].c.canary
     THEN primariesOf(n, obj[n].c) \ (IF c.canary THEN primariesOf(n, c) ELSE {}) ELSE {})
    \cup overruled(n, c, obj[n].ts)

UserEdits(n, c) ==
    /\ Event
    /\ Live(n) /\ obj[n].c # c
    /\ obj' = [obj EXCEPT ![n].c = c]
    /\ queue' = queue \cup {n}
    /\ Unseen(outdated(n, c))
    /\ UNCHANGED <<del, route, fails>>

\* Without the finalizer the operator finds nothing of the Ingress: what was
\* folded of a canary stays until its primary is reconciled again.
UserDeletes(n) ==
    /\ Event
    /\ Live(n)
    /\ obj' = [obj EXCEPT ![n].st = IF obj[n].fin THEN "term" ELSE "gone"]
    /\ queue' = queue \cup {n}
    /\ Unseen(IF obj[n].c.canary /\ ~obj[n].fin THEN primariesOf(n, obj[n].c) ELSE {})
    /\ UNCHANGED <<del, route, fails>>

\* The garbage collector: the route refers to its Ingress as owner.
Collect(n) ==
    /\ obj[n].st = "gone" /\ route[n] # NoRoute
    /\ route' = [route EXCEPT ![n] = NoRoute]
    /\ UNCHANGED <<del, obj, queue, w, lost, events, fails>>

-----------------------------------------------------------------------------
(* The worker.                                                             *)

\* Reconcile up to the first List: the finalizer, and for a primary that is
\* being deleted all of it (deleteManagedHTTPRoutes, finalizeDeletion).
Reconcile(n) ==
    /\ w.pc = "idle" /\ n \in queue
    /\ queue' = queue \ {n}
    /\ \/ /\ ~Exists(n)
          /\ UNCHANGED <<obj, route, w>>
       \/ /\ obj[n].st = "term" /\ ~obj[n].c.canary
          /\ obj' = [obj EXCEPT ![n].st = "gone"]
          /\ route' = [route EXCEPT ![n] = NoRoute]
          /\ UNCHANGED w
       \/ /\ Live(n) \/ (obj[n].st = "term" /\ obj[n].c.canary)
          /\ obj' = [obj EXCEPT ![n].fin = @ \/ del]
          /\ w' = IF obj[n].c.canary
                  THEN [Idle EXCEPT !.pc = "primaries", !.n = n, !.self = obj[n].c,
                                    !.term = obj[n].st = "term"]
                  ELSE [Idle EXCEPT !.pc = "canaries", !.n = n, !.p = n, !.c = obj[n].c]
          /\ UNCHANGED route
    /\ UNCHANGED <<del, lost, events, fails>>

\* reconcileCanaryPrimaries lists the primaries of the canary at hand, ...
ListPrimaries ==
    /\ w.pc = "primaries"
    /\ w' = [w EXCEPT !.pc = "next",
                      !.todo = {<<m, obj[m].c>> : m \in primariesOf(w.n, w.self)}]
    /\ UNCHANGED <<del, obj, route, queue, lost, events, fails>>

\* ... and makes their routes, one after the other.
NextPrimary ==
    /\ w.pc = "next" /\ w.todo # {}
    /\ \E t \in w.todo :
          w' = [w EXCEPT !.pc = "canaries", !.todo = @ \ {t}, !.p = t[1], !.c = t[2]]
    /\ UNCHANGED <<del, obj, route, queue, lost, events, fails>>

\* findCanarySiblings lists the namespace, ...
ListCanaries ==
    /\ w.pc = "canaries"
    /\ \E s \in SetToSeqs(findCanarySiblings(w.p, w.c)) :
          w' = [w EXCEPT !.pc = "conflicts", !.canaries = [i \in DOMAIN s |-> obj[s[i]].c]]
    /\ UNCHANGED <<del, obj, route, queue, lost, events, fails>>

\* ... and detectSnippetConflicts does so again.
ListConflicts ==
    /\ w.pc = "conflicts"
    /\ w' = [w EXCEPT !.pc = "apply",
                      !.suppress = \E m \in siblings(w.p) : suppresses(m, w.p, w.c)]
    /\ UNCHANGED <<del, obj, route, queue, lost, events, fails>>

\* The snippets filter, ApplyHTTPRoutesAtomic, and the end of the reconcile of a
\* primary.
Apply ==
    /\ w.pc = "apply"
    /\ route' = [route EXCEPT ![w.p] = translation(w.c, w.canaries, w.suppress)]
    /\ w' = IF w.n = w.p THEN Idle
            ELSE [w EXCEPT !.pc = "next", !.p = 0, !.c = NoContent, !.canaries = <<>>,
                           !.suppress = FALSE, !.blind = FALSE]
    /\ lost' = IF w.blind THEN lost \cup {w.p} ELSE lost \ {w.p}
    /\ UNCHANGED <<del, obj, queue, events, fails>>

\* The reconcile of a canary ends; when it is being deleted, finalizeDeletion.
Finish ==
    /\ w.pc = "next" /\ w.todo = {}
    /\ w' = Idle
    /\ obj' = IF w.term THEN [obj EXCEPT ![w.n].st = "gone"] ELSE obj
    /\ UNCHANGED <<del, route, queue, lost, events, fails>>

\* An error of Apply ends the reconcile and the Ingress is queued again, and
\* so it is when the primaries of a canary cannot be listed.
CallFails ==
    /\ fails < MaxFails /\ fails' = fails + 1
    /\ w.pc = "apply" \/ (w.pc = "primaries" /\ ~w.term)
    /\ w' = Idle /\ queue' = queue \cup {w.n}
    /\ UNCHANGED <<del, obj, route, lost, events>>

\* A List that fails unnoticed: handleDeletion drops the request to be called
\* again and releases the canary, findCanarySiblings then finds no canary and
\* detectSnippetConflicts no conflict.
ListFails ==
    /\ fails < MaxFails /\ fails' = fails + 1
    /\ \/ /\ w.pc = "primaries" /\ w.term
          /\ w' = [w EXCEPT !.pc = "next"]
          /\ lost' = lost \cup primariesOf(w.n, w.self)
       \/ /\ w.pc \in {"canaries", "conflicts"}
          /\ w' = [w EXCEPT !.pc = IF w.pc = "canaries" THEN "conflicts" ELSE "apply",
                            !.blind = TRUE]
          /\ UNCHANGED lost
    /\ UNCHANGED <<del, obj, route, queue, events>>

Next ==
    \/ \E n \in Name : \E c \in Contents[n] : UserCreates(n, c) \/ UserEdits(n, c)
    \/ \E n \in Name : UserDeletes(n) \/ Collect(n) \/ Reconcile(n)
    \/ ListPrimaries \/ NextPrimary \/ ListCanaries \/ ListConflicts \/ Apply \/ Finish
    \/ CallFails \/ ListFails

Spec == Init /\ [][Next]_vars

-----------------------------------------------------------------------------
(* What a request is answered by: the Gateway API's choice among the rules *)
(* of a route, and what the Ingresses ask for.                             *)

\* A request: the hostname of an Ingress it is for, its path, and the values
\* of the canary header and cookie.
Requests(c) ==
    [host: hosts(c), path: {p.path : p \in ToSet(pathsOf(c))} \cup {<<"a", "b">>},
     header: {"none", "always", "never", "value", "pattern"},
     cookie: {"none", "always", "never"}]

PathMatches(r, req) == IF r.exact THEN r.path = req.path ELSE IsPrefix(r.path, req.path)

HeaderMatches(r, req) ==
    \/ r.header = AnyHeader
    \/ r.header = <<"header", req.header>>
    \/ r.header = <<"cookie", req.cookie>>

\* The precedence of the Gateway API: an exact path, a longer one, the rule
\* that matches a header, the first.
Precedence(r, i) == <<IF r.exact THEN 1 ELSE 0, Len(r.path), Len(r.header), -i>>

Before(a, b) ==
    \E k \in DOMAIN a : a[k] > b[k] /\ \A j \in 1..k - 1 : a[j] = b[j]

\* The backends with their shares, which do not count when there is one.
Shares(refs) ==
    LET used == {r \in ToSet(refs) : r.weight > 0}
        to == {<<r.svc, r.port>> : r \in used}
    IN  IF Cardinality(to) = 1 THEN {<<b, 1>> : b \in to}
        ELSE {<< <<r.svc, r.port>>, r.weight>> : r \in used}

Served(rules, req) ==
    LET fit == {i \in DOMAIN rules : PathMatches(rules[i], req) /\ HeaderMatches(rules[i], req)}
        best == CHOOSE i \in fit : \A j \in fit \ {i} :
                   Before(Precedence(rules[i], i), Precedence(rules[j], j))
    IN  IF fit = {} THEN {} ELSE Shares(rules[best].refs)

\* The backend an Ingress names in a path.
NamedBackend(p) ==
    [svc |-> p.svc, weight |-> 1,
     port |-> IF p.num # 0 THEN p.num
              ELSE IF p.svc \in DOMAIN ServicePorts /\ p.port \in DOMAIN ServicePorts[p.svc]
              THEN ServicePorts[p.svc][p.port] ELSE FallbackPort]

\* How ingress-nginx decides about a canary: by the header, of which a value
\* goes before a pattern, then by the cookie.
ByHeader(cfg, req) ==
    LET canary == IF cfg.value THEN "value" ELSE IF cfg.pattern THEN "pattern" ELSE "always"
    IN  IF ~cfg.header THEN "open"
        ELSE IF req.header = canary THEN "canary"
        ELSE IF canary = "always" /\ req.header = "never" THEN "primary"
        ELSE "open"
ByCookie(cfg, req) ==
    IF ~cfg.cookie THEN "open"
    ELSE IF req.cookie = "always" THEN "canary"
    ELSE IF req.cookie = "never" THEN "primary"
    ELSE "open"

\* How it splits the requests of a path of which x is a canary's.
Canaried(p, x, cfg, req) ==
    LET choice == IF ByHeader(cfg, req) # "open" THEN ByHeader(cfg, req) ELSE ByCookie(cfg, req)
    IN  IF choice = "primary" THEN Shares(<<NamedBackend(p)>>)
        ELSE IF choice = "canary" THEN Shares(<<NamedBackend(x)>>)
        ELSE Shares(<<[NamedBackend(p) EXCEPT !.weight = canaryTotal(cfg) - canaryWeight(cfg)],
                      [NamedBackend(x) EXCEPT !.weight = canaryWeight(cfg)]>>)

\* Where canary.go departs from that: a canary with a value and a pattern goes by
\* the pattern, and a cookie "never" is not asked for.
Departs(cfg, req) ==
    \/ cfg.header /\ cfg.value /\ cfg.pattern /\ req.header \in {"value", "pattern"}
    \/ cfg.cookie /\ req.cookie = "never" /\ ByHeader(cfg, req) = "open"

\* What a request may be answered by, by the Ingresses as they are: there may
\* be several canaries on a path, of which any may be taken.
Wanted(n, req) ==
    LET ps == pathsOf(obj[n].c)
        fit == {i \in DOMAIN ps : PathMatches(ps[i], req)}
        best == CHOOSE i \in fit : \A j \in fit \ {i} :
                   \/ ps[i].exact /\ ~ps[j].exact
                   \/ ps[i].exact = ps[j].exact /\ Len(ps[i].path) > Len(ps[j].path)
        p == ps[best]
        on == UNION {{<<x, obj[m].c.cfg>> : x \in {y \in ToSet(pathsOf(obj[m].c)) :
                                                     y.path = p.path /\ y.svc # NoService}} :
                       m \in {k \in findCanarySiblings(n, obj[n].c) : validCanary(obj[k].c.cfg)}}
    IN  IF fit = {} \/ p.svc = NoService THEN {{}}
        ELSE IF on = {} THEN {Shares(<<NamedBackend(p)>>)}
        ELSE {Canaried(p, x[1], x[2], req) : x \in on}

Quiet == queue = {} /\ w.pc = "idle" /\ \A n \in Name : obj[n].st = "gone" => route[n] = NoRoute

\* The primaries whose routes are to be up to date.
Settled == {n \in Name : Live(n) /\ ~obj[n].c.canary /\ n \notin lost}

\* n and its canaries are on one hostname, n has no path twice, and a service has
\* the same port name wherever it is named.
Unambiguous(n) ==
    LET on == {n} \cup findCanarySiblings(n, obj[n].c)
        ps == pathsOf(obj[n].c)
    IN  /\ \A m \in on : Cardinality(hosts(obj[m].c)) = 1
        /\ \A i, j \in DOMAIN ps : ps[i].path = ps[j].path /\ ps[i].exact = ps[j].exact => i = j
        /\ \A a, b \in UNION {ToSet(pathsOf(obj[m].c)) : m \in on} : a.svc = b.svc => a.port = b.port

-----------------------------------------------------------------------------
(* Properties.                                                             *)

\* No port is left unresolved and no weight is negative.
PortsResolved(r) ==
    \A i \in DOMAIN r.rules : \A j \in DOMAIN r.rules[i].refs :
        /\ r.rules[i].refs[j].port \in PortNumber
        /\ r.rules[i].refs[j].weight \in 0..MaxTotal

\* Every variable stays in its set; in the routes no port is left unresolved and
\* no weight is negative, whatever the canaries ask for.
TypeOK ==
    /\ del \in BOOLEAN
    /\ obj \in [Name -> Ingresses] /\ DOMAIN route = Name
    /\ \A n \in Name :
          /\ obj[n].fin => del
          /\ obj[n].st # "new" => obj[n].c \in Contents[n]
          /\ route[n].server \in BOOLEAN
          /\ PortsResolved(route[n])
    /\ queue \subseteq Name /\ lost \subseteq Name
    /\ w \in Workers
    /\ events \in 0..MaxEvents /\ fails \in 0..MaxFails

\* The route of n is what the translator makes of n and its canaries as they
\* are, listed in some order.
UpToDate(n) ==
    \E s \in SetToSeqs(findCanarySiblings(n, obj[n].c)) :
        LET r == TranslateToHTTPRoute(obj[n].c, [i \in DOMAIN s |-> obj[s[i]].c])
        IN  route[n].hosts = r.hosts /\ route[n].rules = r.rules

\* Whenever the operator has nothing left to do, the route of a primary Ingress
\* is made of its present content and of the present content of exactly its
\* present canaries, whatever was created, edited or deleted between the lists
\* and the write.
RoutesCurrent == Quiet => \A n \in Settled : UpToDate(n)

\* Whenever the operator has nothing left to do, each request for a hostname of
\* a primary Ingress is answered by the backends and with the shares that the
\* Ingresses as they now are have at ingress-nginx: header before cookie before
\* weight, with the canary's own ports.  Left out are the requests for which
\* canary.go departs from ingress-nginx; Ingresses with several hostnames: their
\* rules are put together in one route whose rules hold for each hostname, and a
\* canary is looked up by path alone (canary.go:121); and services with several
\* named ports: the name is looked up by service (httproute.go:309).
RequestsRouted ==
    Quiet => \A n \in Settled : Unambiguous(n) =>
                \A req \in Requests(obj[n].c) :
                    \/ \E m \in findCanarySiblings(n, obj[n].c) : Departs(obj[m].c.cfg, req)
                    \/ Served(route[n].rules, req) \in Wanted(n, req)

\* Whenever the operator has nothing left to do, no two routes that share a
\* hostname both carry the directive that may stand once in its server block
\* (detectSnippetConflicts): the later one gives way, also in the same second when
\* its name comes later.  (Not when its name comes first: then the other one would
\* have to give way and is not reconciled again.  Nor after an edit of an older one.)
OneServerDirective ==
    Quiet => \A m, n \in Settled :
                m # n /\ route[m].hosts \cap route[n].hosts # {}
                   => ~(route[m].server /\ route[n].server)

\* h is a domain or below it, and its name when the domain is moved by rule i.
Below(h, domain) ==
    IsSuffix(domain, h) /\ (Len(h) = Len(domain) \/ h[Len(h) - Len(domain)] = ".")
Renamed(h, i) == SubSeq(h, 1, Len(h) - Len(RewriteFrom[i])) \o RewriteTo[i]

\* The first of the rules for a domain of h counts.  A wildcard is not rewritten
\* (isValidHostname).
InDomains(h) == {i \in DOMAIN RewriteFrom : Below(h, RewriteFrom[i])}
NewName(h) ==
    IF InDomains(h) = {} \/ h[1] = "*" THEN h ELSE Renamed(h, Min(InDomains(h)))

\* The two lists have domains in pairs, and a hostname ends with one only as a
\* name in that domain.
DomainsRewritten ==
    /\ Len(RewriteFrom) = Len(RewriteTo)
    /\ \A s \in ToSet(RewriteFrom) \cup ToSet(RewriteTo) : isValidHostname(s)
EndsAtLabel(c) ==
    \A h \in hosts(c) : \A i \in DOMAIN RewriteFrom :
        IsSuffix(RewriteFrom[i], h) => Below(h, RewriteFrom[i])

\* A route has the hostnames of its Ingress, each in the new domain when it is in
\* a domain to rewrite, and no others, and names in the same domains stay distinct
\* (TransformHostname).
HostsRenamed ==
    Quiet /\ DomainsRewritten => \A n \in Settled : EndsAtLabel(obj[n].c) =>
        /\ route[n].hosts = {NewName(h) : h \in hosts(obj[n].c)}
        /\ \A g, h \in hosts(obj[n].c) :
              g # h /\ InDomains(g) = InDomains(h) => TransformHostname(g) # TransformHostname(h)

=============================================================================
