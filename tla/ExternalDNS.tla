---------------------------- MODULE ExternalDNS ----------------------------
(***************************************************************************)
(* Who publishes the hostnames of an Ingress in DNS: the hand-over from    *)
(* the Ingress to its HTTPRoute, and the way back.                         *)
(*                                                                         *)
(* With --ingress-postprocessing=disable-external-dns the HTTPRoute        *)
(* controller takes the Ingress away from external-dns once an update of   *)
(* the Gateway of its own went through (disableExternalDNS): it sets the   *)
(* annotation ingress-hostname-source to annotation-only and keeps what    *)
(* was there in annotations of its own.  The reenabler, a command a user   *)
(* runs beside the operator, takes the route away from external-dns and    *)
(* puts the annotations, and the class of a disabled Ingress, back.        *)
(*                                                                         *)
(* There is one Ingress and its HTTPRoute.  What other routes do to the    *)
(* shared Gateway appears as a difference the next debounced update        *)
(* repairs (`dirty').  The API server refuses an Update of a copy of the   *)
(* Ingress that is not the current version: `fresh' holds the actors whose *)
(* copy is, every write of the Ingress empties it.                         *)
(***************************************************************************)
EXTENDS Naturals

CONSTANTS
    Name,         \* values of the external-dns hostname annotation
    Source,       \* values of ingress-hostname-source a user may set
    Only,         \* annotation-only, the value that stops external-dns
    None,         \* annotation absent
    Modes,        \* post-processing modes the operator may be started with
    CommandLines, \* flags the reenabler is called with
    MaxEvents,    \* bound: changes from outside the operator, and restarts
    MaxRuns       \* bound: runs of the reenabler

ASSUME DNSAssumption ==
    /\ Only \in Source /\ None \notin Source /\ None \notin Name
    /\ Modes \subseteq {"dns", "disable"}
ASSUME DNSBounds == MaxEvents \in Nat /\ MaxRuns \in Nat

VARIABLES
    mode,     \* --ingress-postprocessing, fixed at the start
    ing,      \* the Ingress: annotations and class
    fresh,    \* actors holding a copy of the current Ingress
    route,    \* its HTTPRoute: "none", "on", or "off" (not published)
    gw,       \* the Gateway: [st, lst, src, on]; lst: it has the route's
              \* listener; src: it names the Ingress as a source
    dirty,    \* the Gateway has the listener of another, deleted, route
    icq, ic,  \* the Ingress controller: queued, and its worker
    hcq,      \* the HTTPRoute controller: queued
    hand,     \* disableExternalDNS as called by the worker ("hc") and by the
              \* debouncer ("deb"): its step
    timer,    \* a debounced update is scheduled
    re,       \* the reenabler
    user,     \* history: the annotations the user last wrote, or the Ingress was
              \* given back with, [host, src]
    touched,  \* history: the user wrote them during the hand-over still under way
    spoilt,   \* history: a reenabler failed, or worked with an old list
    vanished, \* history: somebody deleted the route between the reenabler's list of
              \* the routes and its Delete of the Ingress
    events, runs

opVars == <<icq, ic, hcq, hand, timer>>
histVars == <<user, touched, spoilt, vanished, events, runs>>
vars == <<mode, ing, fresh, route, gw, dirty, opVars, re, histVars>>

-----------------------------------------------------------------------------
Ingresses ==
    [st: {"none", "live"}, host: Name \cup {None}, src: Source \cup {None},
     oHost: Name \cup {None}, oSrc: Source \cup {None},
     reason: {"", "normal", "dns"}, cls: {"user", "none", "disabled"},
     oCls: BOOLEAN, ign: BOOLEAN]

Gateways == [st: {"none", "ours"}, lst: BOOLEAN, src: BOOLEAN, on: BOOLEAN]
NoGateway == [st |-> "none", lst |-> FALSE, src |-> FALSE, on |-> FALSE]

Actor == {"ic", "hc", "deb", "re"}
Workers == [pc: {"idle", "apply", "gateway", "disable"}, reason: {"", "normal", "dns"}]
Idle == [pc |-> "idle", reason |-> ""]

-----------------------------------------------------------------------------
(* What the functions compute.                                             *)

\* Mutant: a source is saved although the saved one is still there.
disabledDNS_SavedAgain(o) ==
    [o EXCEPT !.oHost = IF @ = None THEN o.host ELSE @,
              !.oSrc = IF o.src # None THEN o.src ELSE @,
              !.reason = IF @ = "" THEN "dns" ELSE @,
              !.src = Only]

\* disableExternalDNS: save the hostname and the source, once, mark the
\* Ingress and switch external-dns to annotation-only.
disabledDNS(o) ==
    [o EXCEPT !.oHost = IF @ = None THEN o.host ELSE @,
              !.oSrc = IF @ = None /\ o.src # Only THEN o.src ELSE @,
              !.reason = IF @ = "" THEN "dns" ELSE @,
              !.src = Only]

\* isDisabledIngress
isDisabledIngress(o) == o.reason # "" /\ o.cls = "disabled"

\* needsExternalDNSRestore
needsExternalDNSRestore(o) == o.oHost # None \/ o.oSrc # None \/ o.src # None

\* shouldRestoreIngress
shouldRestoreIngress(o, dns) ==
    isDisabledIngress(o) \/ (dns /\ (o.reason = "dns" \/ needsExternalDNSRestore(o)))

\* shouldDeleteIngress
shouldDeleteIngress(o) ==
    \/ o.reason = "normal" /\ isDisabledIngress(o)
    \/ o.reason = "dns" /\ o.src # None /\ (o.oHost # None \/ o.oSrc # None)

\* checkDeleteEligibility: what it asks of the listed copy, ...
eligible(o) == o.reason # "" /\ shouldDeleteIngress(o)

\* Mutant: the route is not looked for.
hasRoute_Unchecked == TRUE

\* ... and what hasManagedResources asks of two lists read one after the other:
\* the route must be there, and a Gateway that names the Ingress as a source.
hasRoute == route # "none"
hasGateway == gw.st = "ours" /\ gw.src

\* restoreIngressState: the class part.
restoredClass(o) ==
    [o EXCEPT !.cls = IF o.oCls THEN "user" ELSE "none", !.oCls = FALSE, !.reason = ""]

\* restoreIngressState: the external-dns part; a source that was not saved is
\* removed.
restoredDNS(o) ==
    [o EXCEPT !.host = IF o.oHost # None THEN o.oHost ELSE @, !.oHost = None,
              !.src = o.oSrc, !.oSrc = None,
              !.reason = IF @ = "dns" THEN "" ELSE @]

\* The three mutations the reenabler makes through updateIngressWithRetry.
restored(o, disabled, opts) ==
    LET c == IF disabled /\ opts.cls THEN restoredClass(o) ELSE o
    IN  IF opts.dns THEN restoredDNS(c) ELSE c

\* Mutant: the annotation is set to "true", which no reader knows.
marked_True(o, opts) == [o EXCEPT !.reason = "true"]

marked(o, opts) == [o EXCEPT !.reason = IF opts.cls THEN "normal" ELSE "dns"]
ignored(o) == [o EXCEPT !.ign = TRUE]

mutated(stage, o, opts, disabled) ==
    CASE stage = "restore" -> restored(o, disabled, opts)
      [] stage = "mark" -> marked(o, opts)
      [] stage = "ignore" -> ignored(o)

-----------------------------------------------------------------------------
(* The reenabler's flags.  Tri: a flag not given, or given with a value.   *)

Tri == {"unset", "true", "false"}
Flags == [restore: Tri, restoreClass: Tri, restoreDNS: Tri,
          remove: BOOLEAN, del: BOOLEAN, prevent: BOOLEAN, mark: BOOLEAN]

someSet(f) == f.restoreClass # "unset" \/ f.restoreDNS # "unset"
restoreValue(f) == f.restore # "false" /\ ~f.del

\* Combinations main refuses.
invalidFlags(f) ==
    \/ f.del /\ (someSet(f) \/ f.remove)
    \/ f.remove /\ (someSet(f) \/ restoreValue(f))

\* --restore stands for both, unless one of them is given.
both(f) == restoreValue(f) /\ ~someSet(f)
options(f) ==
    [cls |-> both(f) \/ f.restoreClass = "true", dns |-> both(f) \/ f.restoreDNS = "true",
     remove |-> f.remove, del |-> f.del, prevent |-> f.prevent, mark |-> f.mark]

ASSUME FlagAssumption == CommandLines \subseteq Flags

Options == {options(f) : f \in {g \in CommandLines : ~invalidFlags(g)}}

MaxTries == 3
NotRunning == [pc |-> "idle"]
Runs == [pc: {"routes", "gateways", "derived", "delete", "get", "update", "finish"},
         o: Ingresses, cur: Ingresses, try: 0..(MaxTries - 1), opts: Options,
         stage: {"preflight", "restore", "mark", "ignore", "finish"}]

\* The stages that follow one another; each is skipped when not asked for.
nextStage(stage, opts) ==
    LET wants == opts.cls \/ opts.dns IN
    CASE stage = "restore" /\ opts.prevent /\ wants -> "mark"
      [] stage \in {"restore", "mark"} /\ opts.mark /\ wants -> "ignore"
      [] OTHER -> "finish"

-----------------------------------------------------------------------------
\* The user's Ingress; the Gateway may be one the webhook made, which names
\* the Ingress as a source, or is still to come.
Init ==
    /\ mode \in Modes
    /\ \E h \in Name \cup {None}, s \in Source \cup {None} :
         /\ user = [host |-> h, src |-> s]
         /\ ing = [st |-> "live", host |-> h, src |-> s, oHost |-> None, oSrc |-> None,
                   reason |-> "", cls |-> "user", oCls |-> FALSE, ign |-> FALSE]
    /\ route = "none"
    /\ gw \in {NoGateway} \cup [st: {"ours"}, lst: {FALSE}, src: BOOLEAN, on: {TRUE}]
    /\ dirty = FALSE /\ fresh = {}
    /\ icq = TRUE /\ ic = Idle /\ hcq = FALSE
    /\ hand = [a \in {"hc", "deb"} |-> "idle"] /\ timer = FALSE
    /\ re = NotRunning
    /\ touched = FALSE /\ spoilt = FALSE /\ vanished = FALSE /\ events = 0 /\ runs = 0

\* The Ingress is away from external-dns, or has annotations of disableExternalDNS.
HandedOver(o) == o.src = Only \/ o.oHost # None \/ o.oSrc # None

\* A write of the Ingress: the watch enqueues it.
WriteIngress(o) ==
    /\ ing' = o
    /\ fresh' = {}
    /\ icq' = TRUE
    /\ spoilt' = (spoilt \/ re.pc # "idle")

\* The user edits the external-dns annotations.
UserEdits(h, s) ==
    /\ events < MaxEvents /\ ing.st = "live"
    /\ [host |-> h, src |-> s] # [host |-> ing.host, src |-> ing.src]
    /\ events' = events + 1
    /\ WriteIngress([ing EXCEPT !.host = h, !.src = s])
    /\ user' = [host |-> h, src |-> s]
    /\ touched' = (HandedOver(ing) /\ HandedOver(ing'))
    /\ UNCHANGED <<mode, route, gw, dirty, ic, hcq, hand, timer, re, vanished, runs>>

\* Another route goes; the debouncer is told.
OtherRouteGoes ==
    /\ events < MaxEvents /\ gw.st = "ours"
    /\ events' = events + 1
    /\ dirty' = TRUE /\ timer' = TRUE
    /\ UNCHANGED <<mode, ing, fresh, route, gw, icq, ic, hcq, hand, re, user, touched, spoilt,
                   vanished, runs>>

\* Somebody deletes the route; the HTTPRoute controller tells the debouncer.
RouteGoes ==
    /\ events < MaxEvents /\ route # "none"
    /\ events' = events + 1
    /\ route' = "none" /\ vanished' = (vanished \/ re.pc \in {"gateways", "delete"})
    /\ timer' = (timer \/ gw.st = "ours")
    /\ UNCHANGED <<mode, ing, fresh, gw, dirty, icq, ic, hcq, hand, re, user, touched, spoilt, runs>>

\* Restart of the operator: scheduled updates and calls under way are lost.
Crash ==
    /\ events < MaxEvents
    /\ events' = events + 1
    /\ ic' = Idle /\ icq' \in {TRUE, icq \/ ic.pc # "idle"}
    /\ hcq' = (route # "none")
    /\ hand' = [a \in {"hc", "deb"} |-> "idle"] /\ timer' = FALSE
    /\ fresh' = fresh \cap {"re"}
    /\ UNCHANGED <<mode, ing, route, gw, dirty, re, user, touched, spoilt, vanished, runs>>

-----------------------------------------------------------------------------
(* The Ingress controller's worker.                                        *)

\* Ignored and disabled Ingresses are skipped.
ICStart ==
    /\ ic.pc = "idle" /\ icq
    /\ icq' = FALSE
    /\ ic' = IF ing.st = "live" /\ ~ing.ign /\ ing.cls # "disabled"
             THEN [pc |-> "apply", reason |-> ing.reason] ELSE ic
    /\ fresh' = IF ic' = ic THEN fresh ELSE fresh \cup {"ic"}
    /\ UNCHANGED <<mode, ing, route, gw, dirty, hcq, hand, timer, re, histVars>>

\* Mutant: an existing route keeps its annotations.
appliedRoute_Kept == IF route = "none" THEN "on" ELSE route

\* applyHTTPRoute replaces the annotations of the route.
appliedRoute == "on"

ICApply ==
    /\ ic.pc = "apply"
    /\ hcq' = (hcq \/ appliedRoute # route)
    /\ route' = appliedRoute
    /\ ic' = [ic EXCEPT !.pc = "gateway"]
    /\ UNCHANGED <<mode, ing, fresh, gw, dirty, icq, hand, timer, re, histVars>>

\* The listener is merged into the Gateway, or the Gateway created.  Then the
\* post-processing: in mode "disable" the Ingress is disabled (unless marked
\* before); for external-dns nothing is done here.
postMode(o) == IF o.reason = "normal" THEN "disable" ELSE IF o.reason = "dns" THEN "dns" ELSE mode

ICGateway ==
    /\ ic.pc = "gateway"
    /\ gw' = IF gw.st = "none" THEN [st |-> "ours", lst |-> TRUE, src |-> FALSE, on |-> TRUE]
             ELSE [gw EXCEPT !.lst = TRUE]
    /\ ic' = IF postMode(ic) = "disable" /\ ic.reason # "normal"
             THEN [ic EXCEPT !.pc = "disable"] ELSE Idle
    /\ fresh' = IF ic' = Idle THEN fresh \ {"ic"} ELSE fresh
    /\ UNCHANGED <<mode, ing, route, dirty, icq, hcq, hand, timer, re, histVars>>

\* disableIngress; a conflict requeues.
ICDisable ==
    /\ ic.pc = "disable"
    /\ ic' = Idle
    /\ IF "ic" \in fresh
       THEN WriteIngress([ing EXCEPT !.oCls = @ \/ ing.cls = "user",
                                     !.cls = "disabled", !.reason = "normal"])
       ELSE icq' = TRUE /\ UNCHANGED <<ing, fresh, spoilt>>
    /\ UNCHANGED <<mode, route, gw, dirty, hcq, hand, timer, re, user, touched, vanished, events,
                   runs>>

-----------------------------------------------------------------------------
(* The HTTPRoute controller and the debouncer.                             *)

\* handleHTTPRouteCreateOrUpdate: without the source Ingress nothing; a missing
\* Gateway is created and the Ingress handed over; a missing listener is
\* scheduled.
HCUpsert ==
    /\ hcq /\ hand["hc"] = "idle"
    /\ hcq' = FALSE
    /\ LET found == route # "none" /\ ing.st = "live" IN
       /\ timer' = (timer \/ (found /\ gw.st = "ours" /\ ~gw.lst))
       /\ IF found /\ gw.st = "none"
          THEN /\ gw' = [st |-> "ours", lst |-> TRUE, src |-> FALSE, on |-> TRUE]
               /\ hand' = IF mode = "dns" THEN [hand EXCEPT !["hc"] = "get"] ELSE hand
          ELSE UNCHANGED <<gw, hand>>
    /\ UNCHANGED <<mode, ing, fresh, route, dirty, icq, ic, re, histVars>>

\* executeGatewayUpdate: the listeners are made to match the routes.  Only when
\* that changed the Gateway the Ingresses are handed over, and the Gateway is
\* looked at once more.
ExecUpdate ==
    /\ timer /\ hand["deb"] = "idle"
    /\ timer' = FALSE
    /\ IF gw.st = "ours" /\ (dirty \/ gw.lst # (route # "none"))
       THEN /\ gw' = [gw EXCEPT !.lst = (route # "none")]
            /\ dirty' = FALSE
            /\ hand' = [hand EXCEPT !["deb"] = IF mode = "dns" /\ route # "none" /\ ing.st = "live"
                                               THEN "get" ELSE "check"]
       ELSE UNCHANGED <<gw, dirty, hand>>
    /\ UNCHANGED <<mode, ing, fresh, route, icq, ic, hcq, re, histVars>>

\* What the caller of disableExternalDNS does next.
afterHand(a) == IF a = "deb" THEN "check" ELSE "idle"

\* disableExternalDNS: Get the Ingress of now; nothing when it is gone or done.
HandGet(a) ==
    /\ hand[a] = "get"
    /\ hand' = [hand EXCEPT ![a] = IF ing.st = "live" /\ disabledDNS(ing) # ing
                                   THEN "update" ELSE afterHand(a)]
    /\ fresh' = IF hand'[a] = "update" THEN fresh \cup {a} ELSE fresh
    /\ UNCHANGED <<mode, ing, route, gw, dirty, icq, ic, hcq, timer, re, histVars>>

\* Update; a refusal is only logged.
HandUpdate(a) ==
    /\ hand[a] = "update"
    /\ hand' = [hand EXCEPT ![a] = afterHand(a)]
    /\ IF a \in fresh
       THEN WriteIngress(disabledDNS(ing)) ELSE UNCHANGED <<ing, fresh, icq, spoilt>>
    /\ UNCHANGED <<mode, route, gw, dirty, ic, hcq, timer, re, user, touched, vanished, events, runs>>

\* executeGatewayUpdate reads the Gateway again: it is empty when it has neither
\* the route's listener nor, which is left open, one of another route.
DebCheck ==
    /\ hand["deb"] = "check"
    /\ \E next \in {"idle", "drop"} :
         /\ next = "drop" => gw.st = "ours" /\ ~gw.lst /\ ~dirty
         /\ hand' = [hand EXCEPT !["deb"] = next]
    /\ UNCHANGED <<mode, ing, fresh, route, gw, dirty, icq, ic, hcq, timer, re, histVars>>

\* The empty Gateway is deleted, whatever was merged into it meanwhile.
DebDrop ==
    /\ hand["deb"] = "drop"
    /\ hand' = [hand EXCEPT !["deb"] = "idle"]
    /\ gw' = NoGateway /\ dirty' = FALSE
    /\ UNCHANGED <<mode, ing, fresh, route, icq, ic, hcq, timer, re, histVars>>

-----------------------------------------------------------------------------
(* The reenabler.                                                          *)

\* runReenabler: list the Ingress; a deleting run first checks it (preflightDelete).
ReStart(opts) ==
    /\ re.pc = "idle" /\ runs < MaxRuns /\ ing.st = "live"
    /\ runs' = runs + 1
    /\ re' = [pc |-> IF opts.del THEN "routes" ELSE "derived", o |-> ing, cur |-> ing,
              try |-> 0, opts |-> opts, stage |-> IF opts.del THEN "preflight" ELSE "restore"]
    /\ UNCHANGED <<mode, ing, fresh, route, gw, dirty, opVars, user, touched, spoilt, vanished,
                   events>>

\* checkDeleteEligibility, called by preflightDelete and again by
\* deleteIngressIfEligible: the listed copy, the routes of now, ...
ReRoutes ==
    /\ re.pc = "routes"
    /\ re' = IF eligible(re.o) /\ hasRoute THEN [re EXCEPT !.pc = "gateways"] ELSE NotRunning
    /\ vanished' = FALSE
    /\ UNCHANGED <<mode, ing, fresh, route, gw, dirty, opVars, user, touched, spoilt, events, runs>>

\* ... and the Gateways of a moment later.
ReGateways ==
    /\ re.pc = "gateways"
    /\ re' = IF ~hasGateway THEN NotRunning
             ELSE IF re.stage = "preflight" THEN [re EXCEPT !.pc = "derived", !.stage = "restore"]
             ELSE [re EXCEPT !.pc = "delete"]
    /\ UNCHANGED <<mode, ing, fresh, route, gw, dirty, opVars, histVars>>

\* processIngress: disableExternalDNSForDerived takes the route, and a Gateway
\* all whose routes were changed by this run, away from external-dns; an
\* error is logged and the Ingress restored all the same.
ReDerived ==
    /\ re.pc = "derived"
    /\ re' = IF re.opts.del /\ shouldDeleteIngress(re.o) THEN [re EXCEPT !.pc = "routes"]
             ELSE IF shouldRestoreIngress(re.o, re.opts.dns) THEN [re EXCEPT !.pc = "get"]
             ELSE NotRunning
    /\ IF re.opts.dns /\ route = "on"
       THEN \/ /\ route' = "off" /\ hcq' = TRUE
               /\ gw' \in {gw, [gw EXCEPT !.on = @ /\ ~gw.src]}
            \/ UNCHANGED <<route, gw, hcq>>
       ELSE UNCHANGED <<route, gw, hcq>>
    /\ UNCHANGED <<mode, ing, fresh, dirty, icq, ic, hand, timer, histVars>>

\* deleteIngressIfEligible: the Delete, by name.  The route is orphaned, that is
\* kept.
ReDelete ==
    /\ re.pc = "delete"
    /\ re' = NotRunning
    /\ ing' = [ing EXCEPT !.st = "none"] /\ fresh' = {} /\ icq' = TRUE
    /\ UNCHANGED <<mode, route, gw, dirty, ic, hcq, hand, timer, histVars>>

\* updateIngressWithRetry: Get the Ingress; an Ingress that is gone is an error.
ReGet ==
    /\ re.pc = "get"
    /\ IF ing.st = "none"
       THEN re' = NotRunning /\ spoilt' = TRUE /\ UNCHANGED fresh
       ELSE /\ re' = [re EXCEPT !.pc = "update", !.cur = ing]
            /\ fresh' = fresh \cup {"re"}
            /\ UNCHANGED spoilt
    /\ UNCHANGED <<mode, ing, route, gw, dirty, opVars, user, touched, vanished, events, runs>>

\* The mutation and the Update; after MaxTries conflicts the run gives up.
ReUpdate ==
    /\ re.pc = "update"
    /\ LET new == mutated(re.stage, re.cur, re.opts, isDisabledIngress(re.o))
           stage == nextStage(re.stage, re.opts)
           go == [re EXCEPT !.stage = stage, !.try = 0,
                            !.pc = IF stage = "finish" THEN "finish" ELSE "get"]
       IN  \/ /\ new = re.cur
              /\ re' = go
              /\ fresh' = fresh \ {"re"}
              /\ UNCHANGED <<ing, icq, spoilt, user, touched>>
           \/ /\ new # re.cur /\ "re" \in fresh
              /\ re' = go
              /\ ing' = new /\ fresh' = {} /\ icq' = TRUE
              /\ user' = IF HandedOver(new) THEN user ELSE [host |-> new.host, src |-> new.src]
              /\ touched' = (touched /\ HandedOver(new))
              /\ UNCHANGED spoilt
           \/ /\ new # re.cur /\ "re" \notin fresh
              /\ IF re.try + 1 < MaxTries
                 THEN re' = [re EXCEPT !.pc = "get", !.try = @ + 1] /\ UNCHANGED spoilt
                 ELSE re' = NotRunning /\ spoilt' = TRUE
              /\ UNCHANGED <<ing, fresh, icq, user, touched>>
    /\ UNCHANGED <<mode, route, gw, dirty, ic, hcq, hand, timer, vanished, events, runs>>

\* The derived resources go when the class was restored and their removal
\* asked for: no combination of flags main accepts asks for both.
ReFinish ==
    /\ re.pc = "finish"
    /\ re' = NotRunning
    /\ route' = IF isDisabledIngress(re.o) /\ re.opts.cls /\ re.opts.remove THEN "none" ELSE route
    /\ UNCHANGED <<mode, ing, fresh, gw, dirty, opVars, histVars>>

-----------------------------------------------------------------------------
Operator ==
    \/ ICStart \/ ICApply \/ ICGateway \/ ICDisable \/ HCUpsert \/ ExecUpdate
    \/ DebCheck \/ DebDrop
    \/ \E a \in {"hc", "deb"} : HandGet(a) \/ HandUpdate(a)

Reenabler ==
    \/ \E opts \in Options : ReStart(opts)
    \/ ReRoutes \/ ReGateways \/ ReDerived \/ ReDelete \/ ReGet \/ ReUpdate \/ ReFinish

Next ==
    \/ Operator \/ Reenabler
    \/ \E h \in Name \cup {None}, s \in Source \cup {None} : UserEdits(h, s)
    \/ OtherRouteGoes \/ RouteGoes \/ Crash

Spec == Init /\ [][Next]_vars

\* The workers and the debouncer keep running.
FairSpec == Spec /\ WF_vars(Operator)

-----------------------------------------------------------------------------
(* Properties.                                                             *)

\* Every variable stays in the set its declaration describes.
TypeOK ==
    /\ mode \in Modes
    /\ ing \in Ingresses /\ fresh \subseteq Actor
    /\ ic \in Workers /\ hand \in [{"hc", "deb"} -> {"idle", "get", "update", "check", "drop"}]
    /\ re \in {NotRunning} \cup Runs
    /\ route \in {"none", "on", "off"}
    /\ gw \in Gateways
    /\ {dirty, icq, hcq, timer, touched, spoilt, vanished} \subseteq BOOLEAN
    /\ user \in [host: Name \cup {None}, src: Source \cup {None}]
    /\ events \in Nat /\ runs \in Nat

Quiet ==
    /\ ~icq /\ ~hcq /\ ~timer /\ ic = Idle /\ re.pc = "idle"
    /\ \A a \in {"hc", "deb"} : hand[a] = "idle"

\* When operator and reenabler are at rest, an Ingress that is taken away from
\* external-dns has no route that is taken away too, unless a reenabler
\* failed half-way or the Ingress changed under it.
NamePublished ==
    Quiet /\ ~spoilt /\ ing.st = "live" /\ ing.src = Only
        /\ ing.cls # "disabled" /\ ~ing.ign => route # "off"

\* disableExternalDNS and restoreIngressState are inverse: a user who left the
\* annotations alone during the hand-over gets them back, however often the
\* Ingress goes to and fro.
RestoreInverse ==
    [][ReUpdate /\ re.stage = "restore" /\ re.opts.dns /\ HandedOver(ing) /\ ing' # ing
         /\ ~touched /\ user.src # Only
       => ing'.host = user.host /\ ing'.src = user.src]_vars

\* A reenabler whose list of Ingresses is up to date deletes only an Ingress that
\* is disabled or handed over (unless the user took it back); and the route that
\* is to serve it is there when the Ingress goes, whatever the operator and the
\* run itself did since the routes were listed.  Only somebody else's deletion of
\* the route in that time is not noticed.
DeletedIsServed ==
    [][ing.st = "live" /\ ing'.st = "none" /\ ~spoilt =>
         /\ ing.cls = "disabled" \/ ing.src = Only \/ touched
         /\ route # "none" \/ vanished]_vars

\* An Ingress that was migrated, that is whose route has its listener, is taken
\* away from external-dns.
HandoverHappens == mode = "dns" /\ route = "on" /\ gw.lst ~> ing.src = Only
=============================================================================
