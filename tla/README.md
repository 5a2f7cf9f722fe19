# ingress-doperator: TLA+ models and proofs

The operator watches Kubernetes Ingresses and keeps Gateway API objects for
them: a shared Gateway with one listener per hostname, and HTTPRoutes. This
directory holds TLA+ models of it, the TLC configurations that check them
on small instances, and TLAPS proofs. Source paths below are relative to `src/`.

    IC = internal/controller/ingress_controller.go
    HC = internal/controller/httproute_controller.go
    U  = internal/utils/httproute.go
    WH = internal/webhook/ingress_webhook.go
    RE = cmd/reenabler/main.go

`PROJECT.json` maps every definition to the lines it models and lists the runs,
the mutated definitions that show each property can fail, the hazards, the
findings and the theorems.

## 1. Inventory

| Component | State it keeps | Operations | Hard behaviour | What makes it correct |
|---|---|---|---|---|
| Ingress controller (IC) | Ingress finalizer, annotations and class; HTTPRoutes; reconcile cache; set of self-deleted uids | `Reconcile`, translation, listener merge, post-processing (`disable`, `remove`, `disable-external-dns`), deletion | many API calls per reconcile, any of which may fail or meet a conflict; restart between two of them; edits meanwhile | every wanted version is translated; only translated versions are disabled or removed; deletion completes and leaves nothing |
| HTTPRoute controller (HC) | HTTPRoute finalizer, Gateway listeners, ReferenceGrants | create or update, delete, immediate Gateway creation | writes the Gateway the Ingress controller also writes | routes are released; a merge removes nothing |
| Debouncer (HC 66-174) | `pendingUpdates`: one timer per Gateway | schedule, execute | timer goroutines overlap each other and both workers; list first, Gateway afterwards | a scheduled update runs; live routes keep their listeners; foreign Gateways are untouched |
| HTTPRoute writer (U) | HTTPRoutes of one Ingress | split at 16 rules, replace, update, create | one call at a time, objects with another controller's finalizer | each rule is in exactly one live part, nothing old is left |
| Reconcile cache (internal/utils/reconcile_cache.go) | uid -> version, in memory and in sharded ConfigMaps | record, skip, expire, evict, save, load | saved shard by shard, loaded by the next process | a skipped version was translated |
| Reenabler (cmd/reenabler) | none | restores class and external-dns annotations, deletes derived objects | runs beside the operator | restores what the user had |
| ReferenceGrants (internal/utils/referencegrant.go) | sources of a grant, in its annotation | merge, remove a source, delete | two writers, Delete without precondition | a grant exists as long as a route needs it |
| external-dns hand-over (IC 1356, HC 125) | annotations | disable, restore | done only when an update changed the Gateway | exactly one of the Ingress and the HTTPRoute publishes the name |
| Translator, canary folding (internal/translator) | none (pure) | listeners, hostname rewrite, certificate match, weights | boundaries | agreement with a reference definition |
| Snippets and filters (internal/utils/snippets.go) | copies of filter objects | copy, conflict rule | filter edited without a new Ingress version | the older Ingress wins; copies follow their source |
| Webhook (internal/webhook) | none | admits or denies an Ingress, writes Gateway, filters, HTTPRoute and ReferenceGrant | another writer of shared objects | does not undo the operator's work |
| Metrics, start-up, deployment | counters, flags, manifests | - | - | - |

Interaction: users and ingress-nginx write Ingresses; the API server's watches
fill the work queue of the Ingress controller; it writes HTTPRoutes, whose watch
fills the queue of the HTTPRoute controller; that one starts the debouncer's
timers. All of them write the one shared Gateway. Kubernetes' garbage collector
deletes HTTPRoutes whose owning Ingress is gone. The only mutual exclusion
between them is the resourceVersion of an Update; a Delete has none.

## 2. Modules

### GatewaySync - the writers of the shared Gateway

An element of `Route` is an Ingress and the HTTPRoute of the same name.
`gw.lst[h]` is the set of namespaces the listener of hostname `h` admits (empty:
no listener). `gw.st` says whether the Gateway exists and carries the managed-by
annotation.

| Actor | Actions | Code |
|---|---|---|
| Ingress worker | `ICStart`, `ICApply`, `ICReadGateway`, `ICWriteGateway` | IC 169-208, 279-443, 714-744; U 182-247 |
| HTTPRoute worker | `HCStart`, `HCUpsert`, `HCCreate`, `HCCleanup`, `HCFinalize` | HC 177-392 |
| Debouncer | `scheduleGatewayUpdate`, `TimerFires`, `ExecStart`, `ExecList`, `ExecGet`, `ExecWrite`, `ExecRefused`, `ExecCheck`, `ExecDelete` | HC 66-174, 394-557, 932-965 |
| Outside | `UserApply`, `UserDelete`, `UserCreatesGateway`, `UserTakesGateway`, `GatewayStatusWritten`, `GarbageCollect`, `Crash` | external |

Each API call is a step of its own, so that everything else may happen between
a read and the write that depends on it. `fresh` holds the goroutines whose copy
of the Gateway has the current resourceVersion; every write empties it. It
replaces a version counter and keeps the state space finite.

A timer identity is reused once its goroutine is done. `Stop` on a timer that
fired has no effect, and an execution deletes the map entry whoever set it, as
in the code; so two executions for one Gateway can overlap.

### IngressLifecycle - one Ingress, from creation to deletion

The Ingress keeps its name; `uid` tells its incarnations apart and `rv` its
versions. The worker's copy `w.o` is the object the code passes from function to
function, so that the version in it is exactly the one the code would send or
record. `opt` holds the three options that change control flow; it is chosen at
the start, so that one run covers all twelve combinations. The reconcile cache
is in the same module: `mem` is the map, `disk` the ConfigMaps, and `Saved`
allows any subset of the shards to keep its old contents, because
`SaveReconcileCacheSharded` stops at the first error and the caller only logs
it. Outside actors are users (create, edit, change class, ignore, delete),
ingress-nginx (status), the reenabler, the watches of filters, and the owner of
a foreign Gateway. `CallFails` fails any call of the worker; `Crash` restarts
it.

The HTTPRoute has two more writers. `StartFromCanary` is the reconcile of a
canary that translates this Ingress as its primary (IC 494-527): past the cache
and without the step that adds the finalizer. `WebhookApplies` is the route the
webhook writes (WH 163) for a request, whether that is stored or not. The history
`writer` says who wrote the HTTPRoute that is there.

### RouteApply - replacing the HTTPRoutes of one Ingress

`ApplyHTTPRoutesAtomic` call by call: the list of existing routes, the
"one before, one after" shortcut, the delete loop, and for each part the
managed-by check, the second read and the write. The HTTPRoute controller's
finalizer and release are separate actions. `gen` is the generation of the
Ingress a part was translated from, and `rules` the numbers of its rules.

### SharedGateway - what GatewaySync implements

The abstract Gateway has no goroutines, copies or versions. Its three writes are
atomic changes of the Gateway as it is: `Merge` the hostnames of one route,
`Match` the listeners to a list of the live routes taken at one earlier moment,
and `Delete`. GatewaySync instantiates it with the live routes' hostnames for
`wants` and each timer's list for `list`; `WritesAreAtomic` says that every step
of GatewaySync is a step of it or a stutter. What the abstraction still allows,
a list that is out of date and a Delete without precondition, is what
`gateway_served` is about.

### ReferenceGrants - the grant for the TLS Secrets of a namespace

`grant.src` is the set of sources in the annotation. `ensureReferenceGrant` of
both controllers (`ICEnsure`, `HCEnsure`), `cleanupReferenceGrant` (`HCCleanup`,
`HCDelete`, `HCRemove`, HC 850-905) and the webhook's `ApplyReferenceGrant`
(`WHList` to `WHWrite`, internal/utils/referencegrant.go) are split at each
call. None of them retries; `logged` remembers that `ensureReferenceGrant`
failed. The garbage collector deletes routes whose Ingress is gone, and the
grant with the owner the webhook gave it.

### ExternalDNS - the hand-over and the reenabler

One Ingress with its annotations (`host`, `src`, the saved `oHost`, `oSrc`, the
reason and class), its HTTPRoute, published or not, and the Gateway. Actors: the
Ingress worker, the HTTPRoute worker, the debouncer, a user, and runs of the
reenabler, each started with one of `CommandLines`, whose flags are resolved as
in RE 125-204 (`invalidFlags`, `options`). `disableExternalDNS` is a Get and an
Update (`HandGet`, `HandUpdate`); the reenabler works on its list and repeats
Get, mutation and Update up to three times per stage (`ReGet`, `ReUpdate`).
`checkDeleteEligibility`, which the run calls before it begins and again before
it deletes, is a list of the routes, a list of the Gateways and then the Delete
(`ReRoutes`, `ReGateways`, `ReDelete`; RE 415-440). After its update the debouncer
looks at the Gateway again and deletes it when it is empty (`DebCheck`, `DebDrop`;
HC 153-173).
`HandedOver` says that the Ingress is away from external-dns or still has
annotations that `disableExternalDNS` saved. Two histories go with it: `user` is
what the user wrote last, and `touched` that it was written during the hand-over
still under way, so that the saved values are not the user's. `spoilt` says that
a run of the reenabler failed half-way or that the Ingress changed under it,
`vanished` that somebody deleted the route after the reenabler listed it.

### Translation - the translator as operators

`TransformHostname`, `CheckCertificateMatch`, `TranslateToGateway`,
`TranslateToHTTPRoute`, canary entries, weights and rules, header filters and
the resolution of named ports, written from internal/translator and U. A
hostname is a sequence of labels and dots, a path a sequence of segments, so
that suffix and prefix are computed and not assumed. It has no state;
SiblingRoutes and Admission extend it and check it on the objects their runs
produce: the rules and the renaming against reference definitions (`Wanted`,
`Renamed`), the choice of certificates against what a certificate is good for
(`covers`: a wildcard stands for one label, RFC 6125), with the names as they are
after the rewriting.

### SiblingRoutes - Ingresses that share a route or a server block

Up to three Ingresses of one namespace. `Reconcile` of a primary lists its
canaries, then its older siblings, and then applies (`ListCanaries`,
`ListConflicts`, `Apply`); that of a canary lists its primaries and does the same
for each (`ListPrimaries`, `NextPrimary`); IC 169-208, 332-358, 457-640,
1090-1117. Users create, edit and delete Ingresses between those calls. A creation
falls in the second of the last one or in a later one, and then names decide which
Ingress is the older; `overruled` are the Ingresses that would have to give up
their directive for a new or edited one, and are not reconciled for it.

`Requests`, `Served` and `Wanted` define, apart
from the code, which backends the Gateway API selects from the rules of a route
and which ingress-nginx would select from the Ingresses: by the header, where a
value goes before a pattern (`ByHeader`), then by the cookie, where "never" means
the primary (`ByCookie`), then by weight (`Canaried`). canary.go differs from
ingress-nginx in two of these points; `Departs` names the requests concerned, and
the property leaves exactly those out. `RoutesCurrent` comes
before that question: is the route the translation of what is there now
(`UpToDate`), with exactly the present canaries. `Unambiguous` names the
Ingresses about whose requests something can be said, `DomainsRewritten` and
`EndsAtLabel` the options and hostnames for which rewriting means moving a name
to another domain (section 5 says what happens to the others).

### Admission - the webhook beside the operator, and the filters

`WHGateway`, `EnsureFilter`, `WHApply` and `WHAnswer` are `Handle` (WH 60-223) in
the order of its calls; `OpStart`, `EnsureFilter` and `OpApply` are the same part
of the operator. `EnsureFilter` is one machine for both, because both call the
same functions of internal/utils/snippets.go (from 1271 on): get the source,
delete a copy without source, get, create or update the copy; an automatic filter
has an owner instead of a source. The webhook may time out, in which case the API
server stores the Ingress (failurePolicy Ignore) and the rest of the handler's
work is not done. It may also be called for nothing: `Admit` takes an Ingress as
it is stored too, and after an allowed request `StoreOrNot` leaves open whether
it is stored, because a dry run, an update without a change and one that is
refused later have all passed the handler (it declares no side effects, WH 47,
and does not look at `DryRun`). The history `unstored` holds the Ingresses with
such a request until the operator writes their route again. `Processes` is the
state of a process: the Ingress at hand, the filters it still has to ensure, and
those the route will refer to. `excused` collects the filters the code gave up on
or lost: a source was missing, a call failed and was only logged, the Ingress was
deleted under its automatic filter. `FiltersExist` is about every state, not only
about those at rest, because a request may be routed at any moment.

### How the modules fit together

GatewaySync looks at many Ingresses and one Gateway, IngressLifecycle at one
Ingress and everything that happens to it, RouteApply at the inside of the one
step the others take when they write the HTTPRoute (`ICApply`, `Translate`,
`Apply`, `OpApply`). What one abstracts another details: the Gateway is one
Boolean (`foreign`) in IngressLifecycle, an Ingress has no post-processing in
GatewaySync, and HTTPRoutes are not split in either. ReferenceGrants and
ExternalDNS compose the two controllers again around the object they are about;
SiblingRoutes and Admission extend Translation and put it under a worker, or
under worker and webhook. What a restart does to the cache is in
IngressLifecycle; GatewaySync's `Crash` only says that a cached Ingress need not
be reconciled again.

Two conventions hold in all of them. An API call whose result is used later, or
that another actor can come before, is a step of its own, with these exceptions:

- the HTTPRoutes of an Ingress are written in one step everywhere but in
  RouteApply, which has the calls of that step;
- in ExternalDNS a worker's read, merge and write of the Gateway is one step
  (GatewaySync has the calls), and so is `disableExternalDNSForDerived`;
- in SiblingRoutes the Get of `Reconcile` and the finalizer's Update are one step,
  the deletion of a terminating primary another (IngressLifecycle has both in
  full), and the SnippetsFilter with the directive is written with the route
  (Admission has its calls).

`fresh` holds the actors whose copy is the current version, and every accepted
write empties it: optimistic locking without a counter of versions.

## 3. Runs

Passing runs:

| Run | Checks | Bounds |
|---|---|---|
| `gateway_safety` | `TypeOK`, `EmptyGatewayIsTransient`, `ListedRoutesKeepListener`, `ForeignNeverOverwritten`, `MergeNeverShrinks`, `WritesAreAtomic` | 2 routes in 2 namespaces, 2 hostnames, 2 timers, 3 outside events of which one may be a restart |
| `gateway_liveness` | `FinalizerReleased`, `UpdateExecuted` | the same with 2 events, no restart, no symmetry |
| `lifecycle` | `TypeOK`, `CacheSound`, `FirstTranslated`, `SavedOriginal`, `RemovalKeepsRoute`, `NoRouteLeftBehind`, `HandoverOfCurrentRules`, `WantedDeletionCompletes` | all 12 option sets, 2 rule sets and Hostless, 2 user classes, 2 incarnations, 4 events, 1 restart |
| `routes_split` | `TypeOK`, `SplitHasNoStalePart`, `RulesPartitioned` | limit 2, up to 5 rules (3 parts, the last one short), 3 edits, 1 failed call, 1 route taken over |
| `grants` | `TypeOK`, `SecretsReadable`, `ForeignGrantUntouched`, `SourcesKept` | 2 TLS routes, 4 events, 1 failed call, 1 admission |
| `dns` | `TypeOK`, `NamePublished`, `RestoreInverse`, `DeletedIsServed` | 1 hostname, 2 sources, modes `disable-external-dns` and `disable`, 9 command lines of which some are refused, 1 event, 2 runs of the reenabler |
| `siblings` | `TypeOK`, `RoutesCurrent`, `RequestsRouted`, `OneServerDirective`, `HostsRenamed` | 3 names with 2 primary and 4 canary contents, 2 overlapping rewrite rules, 4 events, 1 failed call, with and without deletion |
| `admission` | `TypeOK`, `FiltersExist`, `FiltersApplied`, `ForeignFilterUntouched` | 2 Ingresses with 3 contents (allowed with all kinds of filter; denied with a removed filter and 3 hostnames; canary), 1 SnippetsFilter, 1 authentication filter, 2 versions, 3 events, 1 failed call |

Runs that find a violation (each is a finding in `PROJECT.json`, quoting what
the repository says):

| Run | Property | What happens |
|---|---|---|
| `gateway_served` | `LiveRoutesServed` | the debounced update lists the routes, a new route's listener is merged, the update reads the Gateway and removes the listener; the new route's own reconcile saw it present and schedules nothing |
| `dns_handover` | `HandoverHappens` | the Ingress worker merges the listener first; the HTTPRoute controller finds nothing to update and never takes the Ingress away from external-dns |
| `webhook_listener` | `DeniedIsServed` | without an operator, the second Ingress is denied although the Update of the Gateway was refused: its hostname has no listener |
| `certificates` | `CertificateCovers` | the certificate of `*.domain.cc` is kept for a hostname that the rewriting moves to `foo.migration.domain.cc` |

What each passing property excludes is in its own definition, next to the reason
(`touched`, `spoilt`, `vanished`, `lost`, `excused`, `unstored`, `writer`,
`logged`, `admissions`): the histories name exactly the cases of section 5 in
which it fails. `CacheSound`, `FirstTranslated` and `WantedDeletionCompletes`
exclude status clearing, `FirstTranslated` also the second incarnation of an
Ingress.

Why the bounds are enough. The races need two writers and one change between a
read and a write: two routes, two timers and three events give every pair of
writers (worker and worker, worker and timer, timer and timer) in every order,
and the two hostnames distinguish removing one listener from removing all. Three
refused writes, the limit of the retry loop, need three changes, which fit. For
one Ingress, two incarnations suffice to confuse a uid with its successor, and
four events hold a creation, an edit or a failed call, a deletion and a
re-creation, or a write past the finalizer between two of them. For splitting,
only the comparison of counts (none, one, several parts) and the short last part
matter; the limit of 16 is 2 there. `Timer` has two elements: a third overlapping
execution would need the two others to be in flight together with a pending one.
When both are busy, the model's worker waits for one; the code would start
another.

A grant is deleted under a route that adds itself with two routes and four
events (create, create, delete, and one more). The annotations go to and fro
once per run of the reenabler, and the second run meets what the first left;
one event is enough to change the Ingress under either. Three siblings are a
primary, a canary and one more of either kind; the contents are chosen so that
each branch of the canary rules, of the rewriting and of the port resolution is
taken, with weights 0, equal to the total and above it. In Admission two
Ingresses share one copy of a filter, and three events hold two admissions and a
change of the source. Deadlock checking is off because the system may rest when
the bounded outside events are used up.

Fairness. Weak fairness of each worker: controller-runtime runs a goroutine per
controller that takes the next queued key, and requeues errors. Weak fairness of
each timer's goroutine: the Go runtime runs an expired timer and goroutines are
scheduled fairly. Weak fairness of Kubernetes' garbage collector and of the
HTTPRoute controller's release. The reconcile of a canary begins as an outside
event, because it depends on another Ingress; the worker goes on with it fairly.
In ExternalDNS `FairSpec` is weak fairness of the operator as a whole, which is
enough for a counterexample in which it comes to rest. No fairness is assumed of
users, of the API server accepting a particular write, of the reenabler or of
restarts; refusals and failures are finitely many because the outside events are
bounded.

## 4. Proofs

### GatewaySyncProofs

For any sets of routes, hostnames, namespaces and timers and any bounds:

- `TypeCorrect`: `TypeOK` is invariant;
- `ForeignSafe`: no goroutine rewrites a Gateway that does not carry the
  annotation;
- `MergeSafe`: steps of the two workers never take a namespace from a listener;
- `ListedSafe`: a debounced write keeps the listener of every route it listed,
  if there was one;
- `EmptyTransient`: without a restart, a managed Gateway without listeners is
  about to be checked by the goroutine that emptied it.

The assumptions are those of GatewaySync: `RouteNs` is a function from routes to
namespaces, `NoTimer` and `"ic"` are no timers, the bounds are natural numbers.

The three action properties are not inductive: they speak of a write, but what
makes them true was read several steps before. The inductive invariant is
`IInv == TypeOK /\ CopiesCurrent`. `CopiesCurrent` says what a goroutine in
`fresh` knows: the Ingress worker's copy equals the Gateway and is not foreign;
a timer's Gateway is ours and its target covers what it listed. It also says
that an absent Gateway has no listeners, which is what makes Create safe. Every
action either leaves the Gateway alone, or changes it and empties `fresh`.
`TypeStep` and `CopiesStep` go through the actions one by one; the lemmas
`MergeType`, `DesiredType` and `ReconciledType` state what the three listener
computations return. `EmptyTransient` needs `HostsKnown` besides: no route and
no reconcile is without hostnames, so that no merge produces an empty Gateway.

### GatewaySyncRefinement

`Refinement`: GatewaySync implements SharedGateway, for any constants. It rests
on `IInv` of GatewaySyncProofs, by which the copy of a goroutine in `fresh` is
the present Gateway, and on `CopiesExact`: what such a timer is about to write is
the match of that Gateway with its own list. `ExactStep` shows that this is
inductive, `Simulation` maps each action: reads to stutters (or `Drop`, when a
list is given up), `ExecList` to `TakeList`, accepted writes to `Merge` or
`Match`, and whatever changes the routes to `RoutesChange`. A refused write maps
to `Drop` or to a stutter; that the code gives up after three of them is
therefore harmless to the Gateway, it only leaves it as it was.

### IngressLifecycleProofs

For any sets of rules, classes and options and any bounds:

- `LifecycleTypeCorrect`: `TypeOK` is invariant;
- `CacheIsSound`, `OriginalIsSaved`, `NothingLeftBehind`,
  `RouteOutlivesRemoval`: the invariants `CacheSound`, `SavedOriginal`,
  `NoRouteLeftBehind` and `RemovalKeepsRoute`;
- `FirstIsTranslated`: the invariant `FirstTranslated`;
- `HandoverSafe`: the action property `HandoverOfCurrentRules`.

The assumptions are that `Hostless` is not a rule set, that `NoClass` is not a
class and `Disabled` is one, that options are well formed and bounds natural.

The inductive invariant has one part per argument. `CopyOlder`: the worker's copy
is an older version or exactly the present object, so an accepted Update is an
Update of what is there. `CacheOlder`: during a reconcile the cache knows nothing
newer than the copy, so an old copy cannot overwrite the HTTPRoute of a version
that is recorded already. `CopyTranslated`: after the translation step a live
HTTPRoute has the rules of the copy, unless the webhook wrote it since. These
three make `CacheSound` inductive and give `HandoverOfCurrentRules`. `ClassSaved`
keeps the class, the annotation and the saved class in step. `FinalizerFirst`:
with deletion enabled, a live HTTPRoute that the operator's own reconcile wrote
implies the finalizer, from before it is created until it is being deleted; a
reconcile that began from a canary only knows what its copy had, and counts as
the operator's own when that had the finalizer. That is the whole of what
`NothingLeftBehind` claims: a route that a canary's reconcile wrote before, or
the webhook, may be left (section 5). `OwnerKnown`: the owner of a live HTTPRoute
is the present Ingress or one a user deleted. All parts were model-checked before
they were proved.

`FirstTranslated` speaks of a state at rest; the invariant has to say why
somebody is still going to act in all the others. Its core is `FirstFollowed`: an
HTTPRoute that does not have the rules of the Ingress, and was not written by the
webhook, means that the Ingress is queued or the worker is before its translation
step in a reconcile of its own (one from a canary records nothing, so it promises
nothing). To keep it,
`StaleIsQueued`: whoever changes the Ingress under the worker also queues it, so
that what is translated from an old copy is translated again. `FirstServed`: the
worker past its translation, and the cache in memory or on disk, imply that the
HTTPRoute is there, so that a skip is right; with `CacheSound` it also has the
right rules. `FirstOwned` and `NotBegun` exclude that an HTTPRoute of another
incarnation is in the way or that this one is being deleted. A restart keeps
`FirstFollowed` because the new process lists every Ingress; it may then skip it
because of what was saved, which is why `FirstServed` is about `disk` too.

### ReferenceGrantsProofs

For any set of routes, any subset of them with TLS and any bounds:

- `TypeCorrect`: `TypeOK` is invariant;
- `ForeignSafe`, `SourcesSafe`: the action properties `ForeignGrantUntouched`
  and `SourcesKept`;
- `SecretsSafe`: the invariant `SecretsReadable`.

The assumptions are that the TLS routes are routes, that `NoOwner` is none, and
that the bounds are natural numbers. The first three theorems need
`CopiesCurrent`, as for the Gateway: a writer in `fresh` has the sources of the
present grant, which is the operator's.

`SecretsReadable` is about a Delete, which `fresh` does not protect. Its
invariant is `CountInv`, whose main part `Counted` says that a due route is
among the sources, or the HTTPRoute worker has it at hand or queued. While the
grant is about to be deleted being a source does not count; there the argument
is that the deleting worker and the one that would add the route again are the
same, so that the route is still in its queue and the grant is made again
afterwards. `Cleaning` (a cleanup is of a route that stays in deletion), `Owned`
(a live owner has its Ingress) and `Unaided` (the webhook did nothing) support
it.

### RouteApplyProofs

For any limit of rules per route, any number of rules and any bounds:

- `TypeCorrect`: `TypeOK` is invariant;
- `NothingStale`: `SplitHasNoStalePart`;
- `Partitioned`: `RulesPartitioned`.

The assumptions are that the limit and the largest number of rules are positive
and the bounds natural. TLC checks a limit of 2; the code's limit is 16, and that
the split is right for it is arithmetic: `SlicesDisjoint` (no rule is in two
parts), `SlicesCover` (each is in one) and `PartCount` (more rules have no fewer
parts), from `Quotient` and `Monotone`, the facts about division that the prover
takes only one at a time.

The invariant `IInv` adds to the types: `Translated`, the worker's translation is
of the present Ingress or the Ingress is queued; `Contents`, a part holds rules
of its own slice, and exactly its chunk if it is of the present generation;
`Replaced`, what serves was written by this pass, or is in the delete list, or is
at a place the pass has still to come to; `Settled`, the same when the worker is
done. `Replaced` is what makes the order of the code matter: the deletes come
first, and a refused write ends the pass with an error and a retry (a route of
somebody else is passed over, and does not count as serving). For an Ingress that
is not split it says less, because of the shortcut for one route (section 5);
there `NoStalePart` is false and not claimed.

### ExternalDNSProofs

For any names and sources, any accepted command lines and any number of runs of
the reenabler:

- `TypeCorrect`: `TypeOK` is invariant;
- `Published`: the invariant `NamePublished`;
- `Restored`, `DeletesServed`: the action properties `RestoreInverse` and
  `DeletedIsServed`.

The assumptions are that the absent annotation is no value, that
`annotation-only` is a value a user may set, that the modes are the two in which
the hand-over or the disabling happens, and that command lines consist of the
flags.

`Copies` says what the reenabler's copies are worth: the listed one is the
present Ingress unless the run is spoilt, the one about to be written is whenever
the write will be accepted. `Saved` relates the annotations to the histories: if
the Ingress is not handed over, the user's values are in place; if it is and
nobody touched it, they are the saved ones. It holds over any number of
hand-overs only because `restoredDNS` leaves nothing saved, and because
`disabledDNS` never saves `annotation-only`. `Republished` answers who will
publish the name when neither object does: the Ingress controller, queued or
about to apply, or the reenabler, in its restoring stage. `DeletesServed` is about
four calls, of which the last is unguarded: `Judged` and `Listed` keep what the
lists found, namely that the copy was eligible and the route was there, over
whatever the operator, the user and the run itself do until the Delete. Only the
deletion of the route in between is not seen (`vanished`). A run that unpublishes
the route and then deletes instead of restoring does not exist: the checks on the
flags refuse it (`DeletingKeepsDNS`).

### AdmissionProofs

For any sets of Ingresses, contents and filters and any bounds, every property of
the run `admission`:

- `TypeCorrect`: `TypeOK` is invariant;
- `ForeignSafe`: the action property `ForeignFilterUntouched`;
- `ReferencesExist`: the invariant `FiltersExist`;
- `AuthenticationApplied`: the invariant `FiltersApplied`.

The assumptions are that the kinds of filter are disjoint and those that are
copied finitely many, that the values for "none" are no others, that an Ingress
asks for filters of the right kind, and that the bounds are natural numbers.

`ForeignSafe` is the argument of the Gateway: a process in `fresh` has a filter
that is the operator's (`Current`), and every write empties `fresh`.

`ReferencesExist` rests on `ExistInv`. A reference passes through three places,
the filter at hand, the list the process collects, and the route, and `Existing`
says for each that the filter is there or excused. Whoever makes a filter
disappear makes it excused: `Missing`, a process that deletes a copy has found
its source gone; `Owned`, an automatic filter is only collected with its own
Ingress or route, so that a deletion cannot take the filter of another.

`AuthenticationApplied` is about the two writers of a route of which one, the
webhook, leaves the authentication filters out. `ApplyInv` adds to `ExistInv`:
`Held`, what the operator translates is not in the cache meanwhile; `Alone`, only
the operator ensures these filters, so what it found is still so when it writes;
`Pursued`, a filter the Ingress asks for is still to be ensured or already among
the references; `Served`, the route of an Ingress in the cache has them all,
unless the webhook wrote it and has not answered yet, or wrote it for a request
that was not stored. A version that the API server stores after the answer is a
new one, which the cache does not have: that is why the webhook's route is then
written again, and why it stays when nothing is stored.

The lemmas before these theorems say what a step does to one variable
(`ObjectStep`, `ProcessStep`, `RouteStep`, `CallStep`), so that each part of the
invariant has cases for the kinds of change and not for each of the actions
again.

### SiblingRoutesProofs

For any finite set of Ingresses, any contents the API server admits, any rewrite
rules and Services and any bounds, every property of the run `siblings`:

- `TypeCorrect`: `TypeOK` is invariant, with what it says of ports and weights;
- `RoutesAreCurrent`: the invariant `RoutesCurrent`;
- `OneDirective`: the invariant `OneServerDirective`;
- `NamesRewritten`: the invariant `HostsRenamed`;
- `RequestsAreRouted`: the invariant `RequestsRouted`.

The assumptions are that names are finitely many numbers (ties between Ingresses
of the same second go by name), that contents are what the API server admits
(`admissible`: sequences of rules and paths, ports from 1 to 65535 or a name,
hostnames without empty labels) with canary annotations that are present or not
(`configured`), that the rewrite rules are lists of lists of tokens, that
Services have port numbers, and that the bounds are natural numbers.

*The state machine.* All but the types speak of a state at rest. The invariant
`IInv` says for every other state who is going to make the route:

- `Followed`: the route of a primary that is not in `lost` is up to date, or it
  is `Pending`: the primary is queued, or a canary of it is, or the worker is
  about to list it, has it on its list, or is making it;
- `Owing`: while the worker reconciles a canary, each primary it has still to do
  is the canary's, or queued itself, or lost. Without it, a canary edited away
  from a primary in mid-reconcile would make that primary pending by a list that
  is no longer true;
- `Reread`: a primary changed after it was listed is queued, so that a write from
  the old content is followed by another;
- `Current`: what is about to be written comes from the present canaries, or the
  write will be repeated, or it is `blind` (a failed List, an unnoticed change)
  and the primary will be lost;
- `Yielded`: where an older Ingress has the directive, the route does not have
  it, or the primary is queued or in hand. A creation in the same second may make
  an Ingress older than one that has the directive: `Created` says that the
  Ingresses it takes the directive from are then in `lost`, as after an edit;
- `Working`: what the worker has in hand at each step.

`SharesSymmetric` and `CanariesOf` are the hinge: findCanarySiblings, asked from
the primary, and reconcileCanaryPrimaries, asked from the canary, are one
relation, so whoever leaves or enters a primary's list is reconciled for it.
There is one lemma per group of steps (`ListStep`, `ApplyStep`, `FailStep`,
`FinishStep`, `ReconcileStep`, `CreateStep`, `EditStep`, `DeleteStep`).

*The translator.* What a translation computes rests on a concatenation of any
number of parts. The induction it needs is done once, in `Induction`: it is about
membership in a set, and follows from `Least`, that a set of numbers has a least
element. From it `FlattenFunction` shows that the recursive function of
`FlattenSeq` exists, and `Flattened` where each rule is: the parts stand one
after the other, in their order. All else is said about positions.

- Ports and weights (`TranslationPorts`): each rule has proper weights because
  the canary it comes from is valid (`CanaryRulesShape`, `Entries`).
- Hostnames: for a name in a domain, trimming and joining gives its name in the
  other domain (`RewrittenIs`), the usable rules are the ones for a domain of it
  unless it is a wildcard (`NewNames`), and the prefix, which is kept, tells two
  names apart (`NewNamesDiffer`).
- Requests: among the paths that fit there is one best (`BestPath`: two of the
  same kind and length would be the same path, `SamePath`); the rules made of it
  precede those of other paths whatever their headers are, and among themselves
  they answer as asked (`CanaryRules`, `RequestServed`), which is as
  ingress-nginx would (`Choice`, `AskedBy`) unless the canary `Departs` from it;
  their backends have the ports the Ingresses name (`PortFound`, for which a
  service must have one port name); and the canary entry used is one of those on
  the path (`EntryOn`), which is what `Wanted` allows.

### Only model-checked

Liveness under fairness, which is outside the prover's reach: `FinalizerReleased`,
`UpdateExecuted`, `WantedDeletionCompletes`. The four properties that are
violated. Every other property of a passing run is proved.

## 5. Behaviours seen while modelling

Besides the four findings the models show the following. They are how the code
works, and the reason for the exceptions in the properties; where a document of
the repository speaks of it, it is named.

Gateway and routes.

- The Gateway found empty is deleted without asking `--enable-deletion`, and
  without a precondition, so a listener or an owner that came in between goes
  too (HC 167; repository README 790, 798).
- An Ingress created again before its predecessor's HTTPRoute is collected
  overwrites that route, which keeps the old owner and is then collected (U 225).
- If only part 2 exists and one part is wanted, it is taken for an update of one
  route: part 2 stays (U 137). A part that is still terminating is found and
  updated, and disappears with its finalizer (U 154).

Life of an Ingress.

- If the Delete after the removal mark fails, the mark makes each retry skip
  (IC 241, 1491).
- A disabled or ignored Ingress with the finalizer is skipped before its
  deletion is handled (IC 185; repository README 799).
- `clearIngressStatus` reads the Ingress again after a conflict into the object
  whose version is recorded (IC 1469): an untranslated version may be skipped, and
  the version with which a deletion begins may be.
- An HTTPRoute can outlive its Ingress although deletion is enabled. The reconcile
  of a canary writes the route of its primary without adding the primary's
  finalizer (IC 494-527); when the primary is deleted before a reconcile of its
  own, the operator does not delete the route, and only the garbage collector
  does, later, if the deletion did not orphan it. The webhook writes a route
  without owner before the Ingress is stored, if it is stored (WH 163); that one
  stays. The repository README (795) says "Always deleted when the corresponding
  Ingress is deleted".

Siblings.

- Rules of several hostnames are put together in one HTTPRoute, and canary
  entries are looked up by path only (internal/translator/canary.go:121).
- A canary that is moved, loses its annotation or changes class leaves its old
  primary as it is (repository README 443-447); a primary turned into a canary
  keeps its route; of several canaries on one path any may win.
- A failed List is taken for no siblings (IC 464, 569), and for a canary being
  deleted the requeue is dropped and the finalizer released (IC 1100-1104).
- An older Ingress that gets a server-only directive does not reconcile the
  younger one that has it. So it is with two Ingresses of one second when the one
  created last has the smaller name: it is taken for the older one (IC 643-650),
  keeps the directive, and the other, which has it, is not reconciled again.
- Two points of the canary precedence are not those of ingress-nginx, which
  canary.go:153 and the repository README (402) refer to: a pattern goes before a
  value where a canary has both (canary.go:189-198), and the cookie value "never"
  has no rule, so that such a request is split by weight (165-188).
- A named port is looked up by service only (U 304-325). A rewritten suffix need
  not start at a label, and wildcards are not rewritten.
- A wildcard certificate counts for every hostname that ends with its domain as
  text (internal/translator/translator.go:985). The run `certificates` has the
  case of a deeper name; it also counts for the domain itself, and for names in
  which no dot precedes the domain.

Filters and webhook.

- The watches of filters enqueue Ingresses that the reconcile cache then skips
  (IC 1732). A filter that cannot be copied is left out of the route and the
  version is recorded as reconciled (IC 877).
- If a source is deleted, the next Ingress to be reconciled deletes the shared
  copy, also when the route of another refers to it
  (internal/utils/snippets.go:1415).
- The webhook adds references to filters that are missing or foreign, applies no
  authentication filters, and writes the route before anything is stored. A
  denied update, a dry run (WH 47 declares no side effects), an update that
  changes nothing and one that is refused later leave the route of the stored
  Ingress without them, and the operator's cache skips that version.
- Routes the webhook makes have no owner and are not collected. If the operator
  runs too, the automatic filter of such a route gets the Ingress as its owner
  and goes with it.
- The webhook replaces the sources of the ReferenceGrant by the TLS Ingresses it
  lists and sets an owner on it, which HC 766 says it has not. A failed
  `ensureReferenceGrant` is logged and not retried.

Reenabler.

- It removes an `ingress-hostname-source` that a user set and nobody saved. A
  user's edit during the hand-over is reverted. With an old list, or after three
  conflicts, route and Ingress may both be silent.
- Its Delete has no precondition: a route that is deleted after the check listed
  it is not noticed, and the Ingress goes as well (RE 421, 433).
- Gateways made by the operator have no source annotation, so that an Ingress
  behind one is not eligible for deletion (RE 667-807).
- `--remove-derived-resources` has no effect with any accepted combination of
  flags (RE and repository README 878-881), and
  `--prevent-further-reconciliation` sets a mark that the Ingress controller's
  skip rules do not look at.

## 6. Abstractions

- A Get or List returns the current state. The code reads through an informer
  cache that may lag; that makes more copies stale than the models have, and
  every Update still carries its resourceVersion.
- Hostnames, rules, classes and namespaces are opaque. TLS of a listener is
  reduced to whether the source Ingress can be read (HC 967-1069). Class filters
  are the set `Watched`.
- In GatewaySync the options are the defaults (shared Gateway, no deletion,
  mode `none`), a failing API call other than a refused write is left out
  (HC logs it and drops the update), and ReferenceGrants and external-dns are
  in modules of their own.
- In IngressLifecycle one worker reconciles one Ingress; controller-runtime
  never runs two reconciles of one key. The options do not change at a restart.
- In ReferenceGrants there is one namespace and a managed Gateway; two
  namespaces have separate grants. In ExternalDNS there is one Ingress, and what
  other routes do to the Gateway is `dirty`.
- In SiblingRoutes and Admission an Ingress is one of a few contents. Header
  modifications are opaque pairs, canary patterns and values are present or not;
  a directive is one Boolean (`key`, `server`).
- Class, name and option patterns that select filters are resolved in the
  contents (`byClass`, `added`, `removed`): a glob is an opaque set of matches.
- Times are left out: a timer or a cache entry may expire at any moment.

## 7. Not modelled, and the plan

Left for later:

- Reconcile cache: shards, the format of entries and the eviction of the oldest
  ones, refining the cache of IngressLifecycle.

Left out for good: metrics (nothing reads them), the production of nginx
directives from annotations (internal/utils/snippets.go 458-1269, text), flag
parsing of the operator, the ingress2gateway provider (a library does the
translation), manifests and charts, and functions that have no caller:
`TranslateMultipleToSharedGateway`, `MergeGatewaySpec`, `EnsureReferenceGrants`
and `CleanupReferenceGrantIfNeeded`.
