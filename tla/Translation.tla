----------------------------- MODULE Translation -----------------------------
(***************************************************************************)
(* What the built-in translator computes (internal/translator), as         *)
(* operators: the rewritten hostname, the rules of an HTTPRoute with the   *)
(* canary Ingresses folded in, their ports and header filters, and the     *)
(* listeners of a Gateway.  Modules SiblingRoutes and Admission use them.  *)
(*                                                                         *)
(* A hostname is a sequence of tokens, "." being one of them, so that a    *)
(* suffix of a hostname need not start at a label.  A path is the sequence *)
(* of its segments.  An Ingress is a record [canary, cls, rules, cfg,      *)
(* tls, mods, ...]; `rules' is a sequence of [host, paths], a path being   *)
(* [path, exact, svc, num, port]: the number of the port, or 0 and its     *)
(* name.                                                                   *)
(***************************************************************************)
EXTENDS Integers, SequencesExt

CONSTANTS
    RewriteFrom, RewriteTo,  \* --hostname-rewrite-from and -to, split at ","
    NoHost, NoService,       \* a rule without host, a path without service
    ServicePorts             \* the ports of the Services: svc -> (name -> number)

\* Both are lists of lists of tokens.
ASSUME RewriteAssumption ==
    /\ RewriteFrom \in Seq(ToSet(RewriteFrom)) /\ RewriteTo \in Seq(ToSet(RewriteTo))
    /\ \A s \in ToSet(RewriteFrom) \cup ToSet(RewriteTo) : s \in Seq(ToSet(s))

\* A port number, and the number of a backend's port: 0 when it goes by name.
MaxPort == 65535
PortNumber == 1..MaxPort
ASSUME PortAssumption ==
    \A svc \in DOMAIN ServicePorts : \A name \in DOMAIN ServicePorts[svc] :
        ServicePorts[svc][name] \in PortNumber

-----------------------------------------------------------------------------
(* Hostnames.                                                              *)

TrimSuffix(s, t) == IF IsSuffix(t, s) THEN SubSeq(s, 1, Len(s) - Len(t)) ELSE s

\* No empty label, and no wildcard: the pattern knows letters, digits and "-".
isValidHostname(h) ==
    /\ h # <<>> /\ Head(h) # "." /\ Last(h) # "."
    /\ \A k \in DOMAIN h : h[k] # "*" /\ (k > 1 /\ h[k] = "." => h[k - 1] # ".")

\* The names the API server admits: those, and "*." before one.
isHost(h) ==
    /\ h \in Seq(ToSet(h))
    /\ \/ isValidHostname(h)
       \/ Len(h) > 2 /\ h[1] = "*" /\ h[2] = "." /\ isValidHostname(SubSeq(h, 3, Len(h)))

\* Mutant: the dot before the domain stays with the prefix.
rewritten_DotKept(i, h) ==
    TrimSuffix(h, RewriteFrom[i]) \o <<".">> \o RewriteTo[i]

\* Rule i applied to a hostname that ends with its `from'.
rewritten(i, h) ==
    LET prefix == TrimSuffix(TrimSuffix(h, RewriteFrom[i]), <<".">>)
        host == IF prefix = <<>> THEN RewriteTo[i] ELSE prefix \o <<".">> \o RewriteTo[i]
    IN  TrimSuffix(ReplaceAllSubSeqs(<<".">>, <<".", ".">>, host), <<".">>)

\* The first rule that matches and gives a valid hostname.
TransformHostname(h) ==
    LET usable == {i \in DOMAIN RewriteFrom :
                     /\ RewriteFrom[i] # <<>> /\ RewriteTo[i] # <<>>
                     /\ IsSuffix(RewriteFrom[i], h)
                     /\ isValidHostname(rewritten(i, h))}
    IN  IF Len(RewriteFrom) # Len(RewriteTo) \/ usable = {}
        THEN h ELSE rewritten(Min(usable), h)

\* CheckCertificateMatch: a wildcard covers whatever ends with its domain.
CheckCertificateMatch(original, transformed, certHosts) ==
    \/ original = transformed
    \/ \E c \in certHosts :
          \/ c = transformed
          \/ /\ IsPrefix(<<"*", ".">>, c)
             /\ IsSuffix(SubSeq(c, 3, Len(c)), transformed)

-----------------------------------------------------------------------------
(* The paths of an Ingress.                                                *)

hosts(o) == {o.rules[i].host : i \in DOMAIN o.rules} \ {NoHost}

transformedHostSet(o) == {TransformHostname(h) : h \in hosts(o)}

pathsOf(o) == FlattenSeq([i \in DOMAIN o.rules |-> o.rules[i].paths])

hostPaths(o) ==
    UNION {{<<o.rules[i].host, o.rules[i].paths[j].path>> : j \in DOMAIN o.rules[i].paths} :
             i \in DOMAIN o.rules}

sharesHostPath(a, b) == hostPaths(a) \cap hostPaths(b) # {}

\* backendRefFromPath; the port of a named port is 0 until it is resolved.
backendRefFromPath(p) == [svc |-> p.svc, port |-> p.num, weight |-> 1]

\* What the API server admits: lists, hostnames, and a port by number or name.
admissible(o) ==
    /\ o.rules \in Seq(ToSet(o.rules))
    /\ \A h \in hosts(o) : isHost(h)
    /\ \A i \in DOMAIN o.rules :
          /\ o.rules[i].paths \in Seq(ToSet(o.rules[i].paths))
          /\ \A p \in ToSet(o.rules[i].paths) :
                /\ p.path \in Seq(ToSet(p.path)) /\ p.exact \in BOOLEAN
                /\ p.num \in PortNumber \cup {0}
                /\ p.svc # NoService /\ p.num = 0 => p.port # ""

-----------------------------------------------------------------------------
(* Canaries.  A canary's cfg is [weight, total, header, value, pattern,    *)
(* cookie]: two annotations that are Unset or a number, and four that are  *)
(* there or not.                                                           *)

Unset == -100   \* no annotation; any other negative number is invalid
MaxTotal == 2147483647

configured(cfg) ==
    /\ cfg.weight \in Int /\ cfg.total \in Int
    /\ cfg.header \in BOOLEAN /\ cfg.value \in BOOLEAN /\ cfg.pattern \in BOOLEAN /\ cfg.cookie \in BOOLEAN

\* ParseCanaryConfig, which reports an error when this does not hold.
canaryTotal(cfg) == IF cfg.total = Unset THEN 100 ELSE cfg.total
canaryWeight(cfg) == IF cfg.weight = Unset THEN 0 ELSE cfg.weight
validCanary(cfg) ==
    /\ canaryWeight(cfg) \in 0..canaryTotal(cfg)
    /\ canaryTotal(cfg) \in 1..MaxTotal

\* The paths p of a canary that have a service, and the usable canaries with one.
servedPaths(c, p) ==
    {j \in DOMAIN pathsOf(c) : pathsOf(c)[j].path = p /\ pathsOf(c)[j].svc # NoService}
usableCanaries(canaries, p) ==
    {i \in DOMAIN canaries : validCanary(canaries[i].cfg) /\ servedPaths(canaries[i], p) # {}}

\* collectCanaryEntries: path -> entry, where the last one of the list stays.
collectCanaryEntries(canaries) ==
    LET paths == UNION {{p.path : p \in ToSet(pathsOf(canaries[i]))} : i \in DOMAIN canaries}
    IN  [p \in {q \in paths : usableCanaries(canaries, q) # {}} |->
            LET c == canaries[Max(usableCanaries(canaries, p))]
            IN  [cfg |-> c.cfg, path |-> pathsOf(c)[Max(servedPaths(c, p))]]]

\* The header a rule matches: its name and value, or none.
AnyHeader == <<>>
canaryHeaderMatch(cfg) ==
    <<"header", IF cfg.pattern THEN "pattern" ELSE IF cfg.value THEN "value" ELSE "always">>
cookieOnPattern == <<"cookie", "always">>

rule(p, header, refs, filters) ==
    [path |-> p.path, exact |-> p.exact, header |-> header, refs |-> refs, filters |-> filters]

weightedRefs(p, entry) ==
    <<[backendRefFromPath(p) EXCEPT !.weight = canaryTotal(entry.cfg) - canaryWeight(entry.cfg)],
      [backendRefFromPath(entry.path) EXCEPT !.weight = canaryWeight(entry.cfg)]>>

\* Mutant: the cookie is asked before the header.
buildCanaryRules_CookieFirst(p, entry, filters) ==
    LET If(b, r) == IF b THEN <<r>> ELSE <<>>
        c == entry.cfg
        canary == <<backendRefFromPath(entry.path)>>
    IN  If(c.cookie, rule(p, cookieOnPattern, canary, filters))
          \o If(c.header, rule(p, canaryHeaderMatch(c), canary, filters))
          \o <<rule(p, AnyHeader, weightedRefs(p, entry), filters)>>

\* buildCanaryRules: header, then cookie, then the split by weight.
buildCanaryRules(p, entry, filters) ==
    LET If(b, r) == IF b THEN <<r>> ELSE <<>>
        c == entry.cfg
        primary == <<backendRefFromPath(p)>>
        canary == <<backendRefFromPath(entry.path)>>
    IN  If(c.header /\ ~c.value /\ ~c.pattern, rule(p, <<"header", "never">>, primary, filters))
          \o If(c.header, rule(p, canaryHeaderMatch(c), canary, filters))
          \o If(c.cookie, rule(p, cookieOnPattern, canary, filters))
          \o <<rule(p, AnyHeader, weightedRefs(p, entry), filters)>>

plainRule(p, filters) ==
    rule(p, AnyHeader, IF p.svc = NoService THEN <<>> ELSE <<backendRefFromPath(p)>>, filters)

\* buildHTTPRouteRules.
buildHTTPRouteRules(o, entries, filters) ==
    LET ps == pathsOf(o)
    IN  FlattenSeq([i \in DOMAIN ps |->
          IF ps[i].path \in DOMAIN entries /\ ps[i].svc # NoService
          THEN buildCanaryRules(ps[i], entries[ps[i].path], filters)
          ELSE <<plainRule(ps[i], filters)>>])

-----------------------------------------------------------------------------
(* Header filters and named ports.                                         *)

Malformed == <<>>

\* parseHeaderNameList and parseHeaderNameValueList: what cannot be read is
\* dropped, and so is what was there before.
parseHeaders(list) ==
    LET read == SelectSeq(list, LAMBDA e : e # Malformed)
    IN  FoldLeft(LAMBDA out, e : IF Contains(out, e) THEN out ELSE Append(out, e), <<>>, read)

\* buildHeaderModifierFilters and collectFilters: o.mods gives the lists of
\* the request and of the response.
headerFilters(o) ==
    SelectSeq(<<parseHeaders(o.mods.request), parseHeaders(o.mods.response)>>,
              LAMBDA f : f # <<>>)

FallbackPort == 80

\* findPortNameInIngresses: of the first path with that service.
findPortName(sources, svc) ==
    LET ps == FlattenSeq([i \in DOMAIN sources |-> pathsOf(sources[i])])
        at == {k \in DOMAIN ps : ps[k].svc = svc}
    IN  IF at = {} THEN "" ELSE ps[Min(at)].port

\* resolveServicePort with the fallback of ResolveNamedPorts.
resolvePort(sources, svc) ==
    LET name == findPortName(sources, svc)
    IN  IF name # "" /\ svc \in DOMAIN ServicePorts /\ name \in DOMAIN ServicePorts[svc]
        THEN ServicePorts[svc][name] ELSE FallbackPort

\* Mutant: the placeholders are left in the route.
ResolveNamedPorts_Left(rules, sources) == rules

ResolveNamedPorts(rules, sources) ==
    [i \in DOMAIN rules |->
        [rules[i] EXCEPT !.refs = [j \in DOMAIN rules[i].refs |->
            IF rules[i].refs[j].port # 0 THEN rules[i].refs[j]
            ELSE [rules[i].refs[j] EXCEPT !.port = resolvePort(sources, rules[i].refs[j].svc)]]]]

\* TranslateToHTTPRouteWithCanaries, with the ports resolved.  The hostnames
\* are also the sections of the Gateway the route refers to.
TranslateToHTTPRoute(o, canaries) ==
    [hosts |-> transformedHostSet(o),
     rules |-> ResolveNamedPorts(
                 buildHTTPRouteRules(o, collectCanaryEntries(canaries), headerFilters(o)),
                 <<o>> \o canaries)]

-----------------------------------------------------------------------------
(* The Gateway of one Ingress.  o.tls is a sequence of [hosts, secret];    *)
(* o.ns is its namespace.                                                  *)

NoSecret == <<>>

\* The TLS entries that name the host; the first one counts.
tlsConfigs(o, h) == {k \in DOMAIN o.tls : h \in o.tls[k].hosts}

certificateFits(h, certHosts) ==
    CheckCertificateMatch(h, TransformHostname(h), certHosts)

\* The secret of a listener: the Ingress's own, or one in the namespace of the
\* Gateway that a certificate is to be issued for.
listenerSecret(o, h) ==
    LET found == tlsConfigs(o, h)
        first == o.tls[Min(found)]
    IN  IF found = {} THEN NoSecret
        ELSE IF first.secret = "" THEN NoSecret
        ELSE IF certificateFits(h, first.hosts) THEN <<o.ns, first.secret>>
        ELSE <<"automatic", o.ns, TransformHostname(h)>>

\* TranslateToGateway: the listeners.
TranslateToGateway(o) ==
    {[name |-> TransformHostname(h), ns |-> o.ns, secret |-> listenerSecret(o, h)] : h \in hosts(o)}

=============================================================================
