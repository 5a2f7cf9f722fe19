------------------------- MODULE ExternalDNSProofs -------------------------
(***************************************************************************)
(* Proofs about the external-dns hand-over (ExternalDNS), for any names,   *)
(* any command lines of the reenabler and any number of runs.              *)
(*                                                                         *)
(* NamePublished is about a state at rest and RestoreInverse about one     *)
(* step, but both depend on what happened since the reenabler listed the   *)
(* Ingress.  The invariant says what its copies are worth (Copies), what   *)
(* the saved annotations stand for (Saved), and who is still going to put  *)
(* an unpublished route back (Republished).                                *)
(***************************************************************************)
EXTENDS ExternalDNS, TLAPS

\* A run begins with the restoration and has finished when no stage is left.
Staged ==
    /\ re.pc \in {"get", "update"} => re.stage \notin {"preflight", "finish"}
    /\ re.pc = "derived" => re.stage = "restore"

\* The listed copy is the Ingress of now until something spoils the run; the
\* copy about to be written is whenever the API server will accept it, and it
\* will unless the run is spoilt.
Copies ==
    /\ re.pc \in {"routes", "gateways", "derived", "delete"} /\ ~spoilt => ing = re.o
    /\ "re" \in fresh => re.pc = "update" /\ re.cur = ing
    /\ re.pc = "update" /\ ~spoilt => "re" \in fresh

\* What is saved is what the user wrote, as long as it was left alone; an Ingress
\* that is not handed over has it in place.
Saved ==
    /\ ing.oSrc # Only
    /\ ing.oHost # None \/ ing.oSrc # None => ing.src = Only \/ touched
    /\ ~HandedOver(ing) => user = [host |-> ing.host, src |-> ing.src]
    /\ HandedOver(ing) /\ ~touched =>
         /\ user.host = (IF ing.oHost # None THEN ing.oHost ELSE ing.host)
         /\ user.src = ing.oSrc \/ user.src = Only

\* Somebody still has to look at the Ingress when neither it nor its route is
\* published: the Ingress controller, which publishes the route, or the
\* reenabler, which publishes the Ingress.
Restoring == re.pc \in {"get", "update"} /\ re.stage = "restore" /\ re.opts.dns
Republished ==
    route = "off" /\ ~spoilt /\ ing.st = "live" /\ ing.src = Only /\ ing.cls # "disabled" /\ ~ing.ign
        => icq \/ ic.pc = "apply" \/ Restoring

\* A run that has listed the routes saw one, and judged its copy of the Ingress.
Judged == re.pc \in {"gateways", "delete"} => eligible(re.o)
Listed == re.pc \in {"gateways", "delete"} => route # "none" \/ vanished

IInv == TypeOK /\ Staged /\ Copies /\ Saved /\ Republished /\ Judged /\ Listed

-----------------------------------------------------------------------------
(* The operators.                                                          *)

\* What disableExternalDNS makes of an Ingress.
LEMMA DisabledDNS ==
    ASSUME NEW o \in Ingresses
    PROVE  /\ disabledDNS(o) \in Ingresses
           /\ disabledDNS(o).st = o.st /\ disabledDNS(o).host = o.host
           /\ disabledDNS(o).src = Only
           /\ disabledDNS(o).oHost = IF o.oHost = None THEN o.host ELSE o.oHost
           /\ disabledDNS(o).oSrc = IF o.oSrc = None /\ o.src # Only THEN o.src ELSE o.oSrc
  BY DNSAssumption DEF disabledDNS, Ingresses

\* The mutations of the reenabler other than the restoration of the external-dns
\* annotations leave these alone.
LEMMA RestoredClass ==
    ASSUME NEW o \in Ingresses
    PROVE  /\ restoredClass(o) \in Ingresses
           /\ restoredClass(o).host = o.host /\ restoredClass(o).src = o.src
           /\ restoredClass(o).oHost = o.oHost /\ restoredClass(o).oSrc = o.oSrc
           /\ restoredClass(o).st = o.st
  BY DEF restoredClass, Ingresses

\* The restoration takes the saved annotations and keeps none.
LEMMA RestoredDNS ==
    ASSUME NEW o \in Ingresses
    PROVE  /\ restoredDNS(o) \in Ingresses
           /\ restoredDNS(o).host = IF o.oHost # None THEN o.oHost ELSE o.host
           /\ restoredDNS(o).src = o.oSrc
           /\ restoredDNS(o).oHost = None /\ restoredDNS(o).oSrc = None
           /\ restoredDNS(o).st = o.st
  BY DEF restoredDNS, Ingresses

\* What a mutation of the reenabler does to the annotations of external-dns.
SameDNS(o, p) == p.host = o.host /\ p.src = o.src /\ p.oHost = o.oHost /\ p.oSrc = o.oSrc
BackDNS(o, p) ==
    /\ p.host = IF o.oHost # None THEN o.oHost ELSE o.host
    /\ p.src = o.oSrc /\ p.oHost = None /\ p.oSrc = None

LEMMA Mutated ==
    ASSUME NEW stage \in {"restore", "mark", "ignore"}, NEW o \in Ingresses, NEW opts,
           NEW d \in BOOLEAN
    PROVE  LET p == mutated(stage, o, opts, d)
           IN  /\ p \in Ingresses /\ p.st = o.st
               /\ IF stage = "restore" /\ opts.dns THEN BackDNS(o, p) ELSE SameDNS(o, p)
<1>1. CASE stage = "restore" /\ opts.dns
  <2> DEFINE c == IF d /\ opts.cls THEN restoredClass(o) ELSE o
  <2>1. c \in Ingresses /\ SameDNS(o, c) /\ c.st = o.st
    BY RestoredClass DEF SameDNS
  <2>2. mutated(stage, o, opts, d) = restoredDNS(c)
    BY <1>1 DEF mutated, restored
  <2> HIDE DEF c
  <2> QED BY <1>1, <2>1, <2>2, RestoredDNS DEF SameDNS, BackDNS
<1>2. CASE stage = "restore" /\ ~opts.dns
  <2>1. mutated(stage, o, opts, d) = IF d /\ opts.cls THEN restoredClass(o) ELSE o
    BY <1>2 DEF mutated, restored
  <2> QED BY <1>2, <2>1, RestoredClass DEF SameDNS
<1>3. CASE stage = "mark"
  <2>1. mutated(stage, o, opts, d) = marked(o, opts)
    BY <1>3 DEF mutated
  <2> QED BY <1>3, <2>1 DEF marked, SameDNS, Ingresses
<1>4. CASE stage = "ignore"
  <2>1. mutated(stage, o, opts, d) = ignored(o)
    BY <1>4 DEF mutated
  <2> QED BY <1>4, <2>1 DEF ignored, SameDNS, Ingresses
<1> QED BY <1>1, <1>2, <1>3, <1>4

\* main refuses to delete and to restore in one call.
LEMMA DeletingKeepsDNS == \A opts \in Options : opts.del => ~opts.dns
<1> SUFFICES ASSUME NEW f \in CommandLines, ~invalidFlags(f), options(f).del
             PROVE  ~options(f).dns
  BY DEF Options
<1>1. f.del
  BY DEF options
<1>2. f \in Flags /\ ~someSet(f)
  BY <1>1, FlagAssumption DEF invalidFlags
<1> QED BY <1>1, <1>2 DEF options, both, restoreValue, someSet

\* The stages follow one another and never come back.
LEMMA NextStage ==
    ASSUME NEW stage, NEW opts
    PROVE  nextStage(stage, opts) \in {"mark", "ignore", "finish"}
  BY DEF nextStage

\* The state of a reenabler that runs.
LEMMA Running ==
    ASSUME TypeOK, re.pc # "idle"
    PROVE  re \in Runs
  BY DEF TypeOK, NotRunning

\* The steps, one by one.
LEMMA Steps ==
    ASSUME [Next]_vars
    PROVE  \/ ICStart \/ ICApply \/ ICGateway \/ ICDisable \/ HCUpsert \/ ExecUpdate
           \/ DebCheck \/ DebDrop
           \/ \E a \in {"hc", "deb"} : HandGet(a) \/ HandUpdate(a)
           \/ \E opts \in Options : ReStart(opts)
           \/ ReRoutes \/ ReGateways \/ ReDerived \/ ReDelete \/ ReGet \/ ReUpdate \/ ReFinish
           \/ \E h \in Name \cup {None}, s \in Source \cup {None} : UserEdits(h, s)
           \/ OtherRouteGoes \/ RouteGoes \/ Crash
           \/ UNCHANGED vars
  BY DEF Next, Operator, Reenabler

\* The outcomes of updateIngressWithRetry: nothing to write, written, or refused.
newIngress == mutated(re.stage, re.cur, re.opts, isDisabledIngress(re.o))
Advanced ==
    /\ re' \in Runs
    /\ re'.stage = nextStage(re.stage, re.opts)
    /\ re'.pc = IF re'.stage = "finish" THEN "finish" ELSE "get"
Nothing ==
    /\ newIngress = re.cur /\ Advanced /\ fresh' = fresh \ {"re"}
    /\ UNCHANGED <<ing, icq, spoilt, user, touched>>
Written ==
    /\ "re" \in fresh /\ Advanced
    /\ ing' = newIngress /\ fresh' = {} /\ icq' = TRUE
    /\ user' = IF HandedOver(newIngress) THEN user
               ELSE [host |-> newIngress.host, src |-> newIngress.src]
    /\ touched' = (touched /\ HandedOver(newIngress))
    /\ UNCHANGED spoilt
Refused ==
    /\ "re" \notin fresh
    /\ \/ /\ re' \in Runs /\ re'.pc = "get" /\ re'.stage = re.stage /\ re'.opts = re.opts
          /\ UNCHANGED spoilt
       \/ re' = NotRunning /\ spoilt' = TRUE
    /\ UNCHANGED <<ing, fresh, icq, user, touched>>

LEMMA UpdateOutcomes ==
    ASSUME TypeOK, Staged, ReUpdate
    PROVE  /\ re \in Runs /\ re.stage \in {"restore", "mark", "ignore"}
           /\ newIngress \in Ingresses
           /\ newIngress.st = re.cur.st
           /\ IF re.stage = "restore" /\ re.opts.dns THEN BackDNS(re.cur, newIngress)
              ELSE SameDNS(re.cur, newIngress)
           /\ Nothing \/ Written \/ Refused
           /\ UNCHANGED <<mode, route, gw, dirty, ic, hcq, hand, timer, vanished, events, runs>>
<1>1. re \in Runs /\ re.pc = "update"
  BY Running DEF ReUpdate
<1>2. re.stage \in {"restore", "mark", "ignore"} /\ re.cur \in Ingresses /\ re.try \in 0..(MaxTries - 1)
  BY <1>1 DEF Runs, Staged
<1>3. isDisabledIngress(re.o) \in BOOLEAN
  BY DEF isDisabledIngress
<1>4. /\ newIngress \in Ingresses /\ newIngress.st = re.cur.st
      /\ IF re.stage = "restore" /\ re.opts.dns THEN BackDNS(re.cur, newIngress)
         ELSE SameDNS(re.cur, newIngress)
  BY <1>2, <1>3, Mutated DEF newIngress
<1> DEFINE stage == nextStage(re.stage, re.opts)
           go == [re EXCEPT !.stage = stage, !.try = 0,
                            !.pc = IF stage = "finish" THEN "finish" ELSE "get"]
<1>5. ASSUME re' = go PROVE Advanced
  <2>1. stage \in {"mark", "ignore", "finish"} /\ 0 \in 0..(MaxTries - 1)
    BY NextStage DEF MaxTries
  <2> HIDE DEF stage
  <2>2. go \in Runs
    BY <1>1, <2>1 DEF Runs
  <2>3. go.stage = stage /\ go.pc = IF stage = "finish" THEN "finish" ELSE "get"
    BY <1>1 DEF Runs
  <2> QED BY <1>5, <2>2, <2>3 DEF Advanced, stage
<1>6. ASSUME re' = [re EXCEPT !.pc = "get", !.try = @ + 1], re.try + 1 < MaxTries
      PROVE  re' \in Runs /\ re'.pc = "get" /\ re'.stage = re.stage /\ re'.opts = re.opts
  <2>1. re.try + 1 \in 0..(MaxTries - 1)
    BY <1>2, <1>6 DEF MaxTries
  <2> QED BY <1>1, <1>6, <2>1 DEF Runs
<1>7. Nothing \/ Written \/ Refused
  <2> USE DEF ReUpdate
  <2>1. CASE newIngress = re.cur
    BY <1>5, <2>1 DEF newIngress, Nothing
  <2>2. CASE newIngress # re.cur /\ "re" \in fresh
    BY <1>5, <2>2 DEF newIngress, Written
  <2>3. CASE newIngress # re.cur /\ "re" \notin fresh
    BY <1>6, <2>3 DEF newIngress, Refused
  <2> QED BY <2>1, <2>2, <2>3
<1>8. UNCHANGED <<mode, route, gw, dirty, ic, hcq, hand, timer, vanished, events, runs>>
  BY DEF ReUpdate
<1> QED BY <1>1, <1>2, <1>4, <1>7, <1>8

-----------------------------------------------------------------------------
(* The type invariant.                                                     *)

\* The steps of checkDeleteEligibility.
LEMMA CheckSteps ==
    ASSUME TypeOK, ReRoutes \/ ReGateways
    PROVE  /\ re'.pc = "idle" \/ (re'.pc \in {"gateways", "derived", "delete"} /\ re'.o = re.o)
           /\ ReRoutes /\ re'.pc # "idle" => eligible(re.o) /\ route # "none" /\ re'.pc = "gateways"
           /\ UNCHANGED route
<1>1. re \in Runs
  BY Running DEF ReRoutes, ReGateways
<1>2. CASE ReRoutes
  <2>1. CASE eligible(re.o) /\ hasRoute
    BY <1>1, <1>2, <2>1 DEF ReRoutes, hasRoute, Runs
  <2>2. CASE ~(eligible(re.o) /\ hasRoute)
    BY <1>2, <2>2 DEF ReRoutes, NotRunning
  <2> QED BY <2>1, <2>2
<1>3. CASE ReGateways
  BY <1>1, <1>3 DEF ReGateways, ReRoutes, hasGateway, NotRunning, Runs
<1> QED BY <1>2, <1>3

LEMMA TypeStep ==
    ASSUME TypeOK, Staged, [Next]_vars
    PROVE  TypeOK' /\ Staged'
<1> USE DEF TypeOK
<1>1. Idle \in Workers
  BY DEF Idle, Workers
<1>2. CASE ICStart
  <2>1. ic' \in Workers
    BY <1>2 DEF ICStart, Workers, Ingresses
  <2>2. fresh' \subseteq Actor
    BY <1>2 DEF ICStart, Actor
  <2> QED BY <1>2, <2>1, <2>2 DEF ICStart, Staged, histVars
<1>3. CASE ICApply
  <2>1. ic' \in Workers
    BY <1>3 DEF ICApply, Workers
  <2> QED BY <1>3, <2>1 DEF ICApply, appliedRoute, Staged, histVars
<1>4. CASE ICGateway
  <2>1. ic' \in Workers
    BY <1>1, <1>4 DEF ICGateway, Workers
  <2>2. gw' \in Gateways
    BY <1>4 DEF ICGateway, Gateways
  <2>3. fresh' \subseteq Actor
    BY <1>4 DEF ICGateway
  <2> QED BY <1>4, <2>1, <2>2, <2>3 DEF ICGateway, Staged, histVars
<1>5. CASE ICDisable
  <2>1. [ing EXCEPT !.oCls = @ \/ ing.cls = "user", !.cls = "disabled", !.reason = "normal"]
          \in Ingresses
    BY DEF Ingresses
  <2>2. CASE "ic" \in fresh
    BY <1>1, <1>5, <2>1, <2>2 DEF ICDisable, WriteIngress, Staged
  <2>3. CASE "ic" \notin fresh
    BY <1>1, <1>5, <2>3 DEF ICDisable, Staged
  <2> QED BY <2>2, <2>3
<1>6. CASE HCUpsert
  <2>1. gw' \in Gateways
    <3>1. [st |-> "ours", lst |-> TRUE, src |-> FALSE, on |-> TRUE] \in Gateways
      BY DEF Gateways
    <3> QED BY <1>6, <3>1 DEF HCUpsert
  <2>2. hand' \in [{"hc", "deb"} -> {"idle", "get", "update", "check", "drop"}]
    BY <1>6 DEF HCUpsert
  <2>3. timer' \in BOOLEAN
    BY <1>6 DEF HCUpsert
  <2> QED BY <1>6, <2>1, <2>2, <2>3 DEF HCUpsert, Staged, histVars
<1>7. CASE ExecUpdate
  <2>1. gw' \in Gateways
    BY <1>7 DEF ExecUpdate, Gateways
  <2>2. hand' \in [{"hc", "deb"} -> {"idle", "get", "update", "check", "drop"}]
    BY <1>7 DEF ExecUpdate
  <2>3. dirty' \in BOOLEAN
    BY <1>7 DEF ExecUpdate
  <2> QED BY <1>7, <2>1, <2>2, <2>3 DEF ExecUpdate, Staged, histVars
<1>8. ASSUME NEW a \in {"hc", "deb"}, HandGet(a) PROVE TypeOK' /\ Staged'
  <2>1. hand' \in [{"hc", "deb"} -> {"idle", "get", "update", "check", "drop"}]
    BY <1>8 DEF HandGet, afterHand
  <2>2. fresh' \subseteq Actor
    BY <1>8 DEF HandGet, Actor
  <2> QED BY <1>8, <2>1, <2>2 DEF HandGet, Staged, histVars
<1>9. ASSUME NEW a \in {"hc", "deb"}, HandUpdate(a) PROVE TypeOK' /\ Staged'
  <2>1. hand' \in [{"hc", "deb"} -> {"idle", "get", "update", "check", "drop"}]
    BY <1>9 DEF HandUpdate, afterHand
  <2>2. CASE a \in fresh
    BY <1>9, <2>1, <2>2, DisabledDNS DEF HandUpdate, WriteIngress, Staged
  <2>3. CASE a \notin fresh
    BY <1>9, <2>1, <2>3 DEF HandUpdate, Staged
  <2> QED BY <2>2, <2>3
<1>10. ASSUME NEW opts \in Options, ReStart(opts) PROVE TypeOK' /\ Staged'
  <2>1. re' \in Runs /\ re'.pc \in {"routes", "derived"}
    BY <1>10 DEF ReStart, Runs, MaxTries
  <2>2. re'.pc = "derived" => re'.stage = "restore"
    BY <1>10 DEF ReStart
  <2> QED BY <1>10, <2>1, <2>2 DEF ReStart, opVars, Staged
<1>11. CASE ReDerived
  <2>1. re \in Runs
    BY <1>11, Running DEF ReDerived
  <2>2. [re EXCEPT !.pc = "routes"] \in Runs /\ [re EXCEPT !.pc = "get"] \in Runs
    BY <2>1 DEF Runs
  <2>3. re' \in {NotRunning} \cup Runs
    BY <1>11, <2>2 DEF ReDerived
  <2>4. Staged'
    BY <1>11, <2>1 DEF ReDerived, Staged, NotRunning, Runs
  <2>5. route' \in {"none", "on", "off"} /\ gw' \in Gateways /\ hcq' \in BOOLEAN
    BY <1>11 DEF ReDerived, Gateways
  <2> QED BY <1>11, <2>3, <2>4, <2>5 DEF ReDerived, histVars
<1>12. CASE ReDelete
  <2>1. [ing EXCEPT !.st = "none"] \in Ingresses
    BY DEF Ingresses
  <2>2. ing' \in Ingresses /\ fresh' \subseteq Actor /\ icq' \in BOOLEAN
    BY <1>12, <2>1 DEF ReDelete
  <2> QED BY <1>12, <2>2 DEF ReDelete, histVars, Staged, NotRunning
<1>13. CASE ReGet
  <2>1. re \in Runs /\ re.pc = "get"
    BY <1>13, Running DEF ReGet
  <2>2. [re EXCEPT !.pc = "update", !.cur = ing] \in Runs
    BY <2>1 DEF Runs
  <2>3. CASE ing.st = "none"
    BY <1>13, <2>3 DEF ReGet, opVars, Staged, NotRunning
  <2>4. CASE ing.st # "none"
    <3>1. re' \in Runs /\ re'.pc = "update" /\ re'.stage = re.stage
      BY <1>13, <2>1, <2>2, <2>4 DEF ReGet, Runs
    <3>2. fresh' \subseteq Actor
      BY <1>13, <2>4 DEF ReGet, Actor
    <3> QED BY <1>13, <2>1, <2>4, <3>1, <3>2 DEF ReGet, opVars, Staged
  <2> QED BY <2>3, <2>4
<1>14. CASE ReUpdate
  <2> USE <1>14, UpdateOutcomes
  <2>1. CASE Nothing
    BY <2>1, NextStage DEF Nothing, Advanced, Staged
  <2>2. CASE Written
    <3>1. user' \in [host: Name \cup {None}, src: Source \cup {None}]
      BY <2>2 DEF Written, Ingresses
    <3>2. touched' \in BOOLEAN
      BY <2>2 DEF Written
    <3> QED BY <2>2, <3>1, <3>2, NextStage DEF Written, Advanced, Staged
  <2>3. CASE Refused
    <3>1. re' \in {NotRunning} \cup Runs /\ spoilt' \in BOOLEAN
      BY <2>3 DEF Refused
    <3>2. re.stage \notin {"preflight", "finish"}
      OBVIOUS
    <3>3. re'.pc = "idle" \/ (re'.pc = "get" /\ re'.stage \notin {"preflight", "finish"})
      BY <2>3, <3>2 DEF Refused, NotRunning
    <3>4. Staged'
      BY <3>3 DEF Staged
    <3> QED BY <2>3, <3>1, <3>4 DEF Refused
  <2> QED BY <2>1, <2>2, <2>3
<1>15. CASE ReFinish
  BY <1>15 DEF ReFinish, opVars, histVars, Staged, NotRunning
<1>16. ASSUME NEW h \in Name \cup {None}, NEW s \in Source \cup {None}, UserEdits(h, s)
       PROVE  TypeOK' /\ Staged'
  <2>1. [ing EXCEPT !.host = h, !.src = s] \in Ingresses
    BY DEF Ingresses
  <2>2. ing' \in Ingresses /\ fresh' = {} /\ icq' = TRUE /\ spoilt' \in BOOLEAN
    BY <1>16, <2>1 DEF UserEdits, WriteIngress
  <2>3. user' \in [host: Name \cup {None}, src: Source \cup {None}] /\ touched' \in BOOLEAN
    BY <1>16 DEF UserEdits
  <2> QED BY <1>16, <2>2, <2>3 DEF UserEdits, Staged
<1>17. CASE OtherRouteGoes
  BY <1>17 DEF OtherRouteGoes, Staged
<1>18. CASE RouteGoes
  BY <1>18 DEF RouteGoes, Staged
<1>19. CASE Crash
  <2>1. hand' \in [{"hc", "deb"} -> {"idle", "get", "update", "check", "drop"}] /\ icq' \in BOOLEAN
    BY <1>19 DEF Crash
  <2>2. fresh' \subseteq Actor /\ hcq' \in BOOLEAN /\ events' \in Nat
    BY <1>19 DEF Crash
  <2> QED BY <1>1, <1>19, <2>1, <2>2 DEF Crash, Staged
<1>20. CASE UNCHANGED vars
  BY <1>20 DEF vars, opVars, histVars, Staged
<1>21. CASE DebCheck
  <2>1. hand' \in [{"hc", "deb"} -> {"idle", "get", "update", "check", "drop"}]
    BY <1>21 DEF DebCheck
  <2> QED BY <1>21, <2>1 DEF DebCheck, Staged, histVars
<1>22. CASE DebDrop
  <2>1. hand' \in [{"hc", "deb"} -> {"idle", "get", "update", "check", "drop"}]
    BY <1>22 DEF DebDrop
  <2>2. gw' \in Gateways
    BY <1>22 DEF DebDrop, Gateways, NoGateway
  <2> QED BY <1>22, <2>1, <2>2 DEF DebDrop, Staged, histVars
<1>23. CASE ReRoutes
  <2>1. re \in Runs
    BY <1>23, Running DEF ReRoutes
  <2>2. re' \in {NotRunning} \cup Runs /\ re'.pc \in {"idle", "gateways"}
    BY <1>23, <2>1 DEF ReRoutes, NotRunning, Runs
  <2> QED BY <1>23, <2>2 DEF ReRoutes, opVars, Staged
<1>24. CASE ReGateways
  <2>1. re \in Runs
    BY <1>24, Running DEF ReGateways
  <2>2. re' \in {NotRunning} \cup Runs
    BY <1>24, <2>1 DEF ReGateways, Runs
  <2>3. re'.pc \in {"idle", "delete"} \/ (re'.pc = "derived" /\ re'.stage = "restore")
    BY <1>24, <2>1 DEF ReGateways, NotRunning, Runs
  <2> QED BY <1>24, <2>2, <2>3 DEF ReGateways, opVars, histVars, Staged
<1> QED BY <1>2, <1>3, <1>4, <1>5, <1>6, <1>7, <1>8, <1>9, <1>10, <1>11, <1>12, <1>13, <1>14,
           <1>15, <1>16, <1>17, <1>18, <1>19, <1>20, <1>21, <1>22, <1>23, <1>24, Steps

-----------------------------------------------------------------------------
(* The steps of the operator and of the users, as the reenabler and the    *)
(* annotations see them.                                                   *)

\* The Ingress stays what it is.
Elsewhere ==
    /\ UNCHANGED <<ing, re, user, touched, spoilt>>
    /\ "re" \in fresh' <=> "re" \in fresh
\* The Ingress is written: the copies are outdated, the watch enqueues it.
Outside == WriteIngress(ing') /\ UNCHANGED <<re, route>>

LEMMA OperatorSteps ==
    ASSUME TypeOK,
           \/ ICStart \/ ICApply \/ ICGateway \/ ICDisable \/ HCUpsert \/ ExecUpdate
           \/ DebCheck \/ DebDrop
           \/ \E a \in {"hc", "deb"} : HandGet(a) \/ HandUpdate(a)
           \/ OtherRouteGoes \/ RouteGoes \/ Crash
    PROVE  \/ Elsewhere
           \/ /\ Outside /\ UNCHANGED <<user, touched>>
              /\ SameDNS(ing, ing') \/ ing' = disabledDNS(ing)
<1> USE DEF Elsewhere, histVars
<1>1. CASE ICStart \/ ICApply \/ ICGateway
  BY <1>1 DEF ICStart, ICApply, ICGateway
<1>2. CASE ICDisable
  <2>1. CASE "ic" \in fresh
    BY <1>2, <2>1 DEF ICDisable, Outside, WriteIngress, SameDNS, TypeOK, Ingresses
  <2>2. CASE "ic" \notin fresh
    BY <1>2, <2>2 DEF ICDisable
  <2> QED BY <2>1, <2>2
<1>3. CASE HCUpsert \/ ExecUpdate \/ DebCheck \/ DebDrop
  BY <1>3 DEF HCUpsert, ExecUpdate, DebCheck, DebDrop
<1>4. ASSUME NEW a \in {"hc", "deb"}, HandGet(a) PROVE Elsewhere
  BY <1>4 DEF HandGet
<1>5. ASSUME NEW a \in {"hc", "deb"}, HandUpdate(a)
      PROVE  Elsewhere \/ (Outside /\ UNCHANGED <<user, touched>> /\ ing' = disabledDNS(ing))
  <2>1. CASE a \in fresh
    BY <1>5, <2>1 DEF HandUpdate, Outside, WriteIngress
  <2>2. CASE a \notin fresh
    BY <1>5, <2>2 DEF HandUpdate
  <2> QED BY <2>1, <2>2
<1>6. CASE OtherRouteGoes \/ RouteGoes \/ Crash
  BY <1>6 DEF OtherRouteGoes, RouteGoes, Crash
<1> QED BY <1>1, <1>2, <1>3, <1>4, <1>5, <1>6

\* A user's edit is a write from outside, too.
LEMMA EditStep ==
    ASSUME TypeOK, NEW h \in Name \cup {None}, NEW s \in Source \cup {None}, UserEdits(h, s)
    PROVE  /\ Outside
           /\ ing'.host = h /\ ing'.src = s /\ ing'.oHost = ing.oHost /\ ing'.oSrc = ing.oSrc
           /\ user' = [host |-> h, src |-> s]
           /\ touched' = (HandedOver(ing) /\ HandedOver(ing'))
<1>1. ing' = [ing EXCEPT !.host = h, !.src = s]
  BY DEF UserEdits, WriteIngress
<1>2. ing'.host = h /\ ing'.src = s /\ ing'.oHost = ing.oHost /\ ing'.oSrc = ing.oSrc
  BY <1>1 DEF TypeOK, Ingresses
<1> QED BY <1>1, <1>2 DEF UserEdits, Outside, WriteIngress

-----------------------------------------------------------------------------
(* The copies of the reenabler.                                            *)

LEMMA CopiesStep ==
    ASSUME TypeOK, Staged, Copies, [Next]_vars
    PROVE  Copies'
<1>1. CASE Elsewhere
  BY <1>1 DEF Elsewhere, Copies
<1>2. CASE Outside
  BY <1>2 DEF Outside, WriteIngress, Copies
<1>3. ASSUME NEW opts \in Options, ReStart(opts) PROVE Copies'
  <2>1. re'.pc # "update" /\ re'.o = ing
    BY <1>3 DEF ReStart
  <2> QED BY <1>3, <2>1 DEF ReStart, Copies
<1>4. CASE ReDerived
  <2>1. re \in Runs /\ re.pc = "derived"
    BY <1>4, Running DEF ReDerived
  <2>2. re'.pc \in {"idle", "get"} \/ (re'.pc = "routes" /\ re'.o = re.o)
    BY <1>4, <2>1 DEF ReDerived, NotRunning, Runs
  <2> QED BY <1>4, <2>1, <2>2 DEF ReDerived, histVars, Copies
<1>5. CASE ReDelete
  BY <1>5 DEF ReDelete, histVars, Copies, NotRunning
<1>6. CASE ReGet
  <2>1. re \in Runs /\ re.pc = "get"
    BY <1>6, Running DEF ReGet
  <2>2. CASE ing.st = "none"
    BY <1>6, <2>1, <2>2 DEF ReGet, Copies, NotRunning
  <2>3. CASE ing.st # "none"
    <3>1. re'.pc = "update" /\ re'.cur = ing
      BY <1>6, <2>1, <2>3 DEF ReGet, Runs
    <3> QED BY <1>6, <2>3, <3>1 DEF ReGet, Copies
  <2> QED BY <2>2, <2>3
<1>7. CASE ReUpdate
  <2>1. CASE Nothing
    BY <2>1 DEF Nothing, Advanced, Copies
  <2>2. CASE Written
    BY <2>2 DEF Written, Advanced, Copies
  <2>3. CASE Refused
    BY <2>3 DEF Refused, NotRunning, Copies
  <2> QED BY <1>7, <2>1, <2>2, <2>3, UpdateOutcomes
<1>8. CASE ReFinish
  BY <1>8 DEF ReFinish, histVars, Copies, NotRunning
<1>9. CASE UNCHANGED vars
  BY <1>9 DEF vars, opVars, histVars, Copies
<1>10. CASE ReRoutes \/ ReGateways
  <2>1. re \in Runs /\ re.pc \in {"routes", "gateways"}
    BY <1>10, Running DEF ReRoutes, ReGateways
  <2>3. UNCHANGED <<ing, fresh, spoilt>>
    BY <1>10 DEF ReRoutes, ReGateways, histVars
  <2>4. re'.pc = "idle" \/ (re'.pc \in {"gateways", "derived", "delete"} /\ re'.o = re.o)
    BY <1>10, CheckSteps
  <2> QED BY <2>1, <2>3, <2>4 DEF Copies
<1> QED BY <1>1, <1>2, <1>3, <1>4, <1>5, <1>6, <1>7, <1>8, <1>9, <1>10, Steps, OperatorSteps, EditStep

-----------------------------------------------------------------------------
(* The saved annotations.                                                  *)

LEMMA SavedStep ==
    ASSUME TypeOK, Staged, Copies, Saved, [Next]_vars
    PROVE  Saved'
<1> USE DEF HandedOver
<1>1. ing \in Ingresses /\ None # Only /\ user \in [host: Name \cup {None}, src: Source \cup {None}]
  BY DNSAssumption DEF TypeOK
<1>2. CASE UNCHANGED <<user, touched>> /\ SameDNS(ing, ing')
  BY <1>2 DEF Saved, SameDNS
<1>3. CASE UNCHANGED <<user, touched>> /\ ing' = disabledDNS(ing)
  <2>1. /\ ing'.src = Only /\ ing'.host = ing.host
        /\ ing'.oHost = IF ing.oHost = None THEN ing.host ELSE ing.oHost
        /\ ing'.oSrc = IF ing.oSrc = None /\ ing.src # Only THEN ing.src ELSE ing.oSrc
    BY <1>1, <1>3, DisabledDNS
  <2>2. CASE HandedOver(ing)
    BY <1>1, <1>3, <2>1, <2>2 DEF Saved
  <2>3. CASE ~HandedOver(ing)
    BY <1>1, <1>3, <2>1, <2>3 DEF Saved
  <2> QED BY <2>2, <2>3
<1>4. ASSUME NEW h \in Name \cup {None}, NEW s \in Source \cup {None}, UserEdits(h, s)
      PROVE  Saved'
  <2>1. /\ ing'.host = h /\ ing'.src = s /\ ing'.oHost = ing.oHost /\ ing'.oSrc = ing.oSrc
        /\ user' = [host |-> h, src |-> s] /\ touched' = (HandedOver(ing) /\ HandedOver(ing'))
    BY <1>4, EditStep
  <2>2. CASE HandedOver(ing)
    BY <2>1, <2>2 DEF Saved
  <2>3. CASE ~HandedOver(ing)
    BY <2>1, <2>3 DEF Saved
  <2> QED BY <2>2, <2>3
<1>5. CASE ReUpdate
  <2>1. CASE Nothing
    BY <1>2, <2>1 DEF Nothing, SameDNS
  <2>2. CASE Written
    <3>1. re.cur = ing
      BY <2>2 DEF Written, Copies
    <3>2. CASE BackDNS(ing, newIngress)
      BY <1>1, <2>2, <3>2 DEF Written, BackDNS, Saved
    <3>3. CASE SameDNS(ing, newIngress)
      BY <1>1, <2>2, <3>3 DEF Written, SameDNS, Saved
    <3> QED BY <1>5, <3>1, <3>2, <3>3, UpdateOutcomes
  <2>3. CASE Refused
    BY <1>2, <2>3 DEF Refused, SameDNS
  <2> QED BY <1>5, <2>1, <2>2, <2>3, UpdateOutcomes
<1>6. CASE ReDelete
  BY <1>1, <1>2, <1>6 DEF ReDelete, histVars, SameDNS, Ingresses
<1>7. CASE ReRoutes \/ ReGateways \/ ReDerived \/ ReGet \/ ReFinish
             \/ \E opts \in Options : ReStart(opts)
  BY <1>2, <1>7 DEF ReRoutes, ReGateways, ReDerived, ReGet, ReFinish, ReStart, histVars, SameDNS
<1>8. CASE UNCHANGED vars
  BY <1>2, <1>8 DEF vars, histVars, SameDNS
<1>9. CASE Elsewhere
  BY <1>2, <1>9 DEF Elsewhere, SameDNS
<1> QED BY <1>2, <1>3, <1>4, <1>5, <1>6, <1>7, <1>8, <1>9, Steps, OperatorSteps

-----------------------------------------------------------------------------
(* The route that is not published.                                        *)

LEMMA RepublishedStep ==
    ASSUME TypeOK, Staged, Copies, Saved, Republished, [Next]_vars
    PROVE  Republished'
<1>1. CASE icq' \/ route' # "off"
  BY <1>1 DEF Republished
<1>2. CASE UNCHANGED <<route, ing, icq, ic, re, spoilt>>
  BY <1>2 DEF Republished, Restoring
<1>3. CASE ICStart
  <2>1. CASE ing.st = "live" /\ ~ing.ign /\ ing.cls # "disabled"
    BY <1>3, <2>1 DEF ICStart, Republished
  <2>2. CASE ~(ing.st = "live" /\ ~ing.ign /\ ing.cls # "disabled")
    BY <1>3, <2>2 DEF ICStart, Republished
  <2> QED BY <2>1, <2>2
<1>4. CASE ICApply
  BY <1>1, <1>4 DEF ICApply, appliedRoute
<1>5. CASE ICGateway
  BY <1>5 DEF ICGateway, Republished, Restoring, histVars
<1>6. CASE Outside \/ ICDisable
  BY <1>1, <1>6 DEF Outside, ICDisable, WriteIngress
<1>7. CASE HCUpsert \/ ExecUpdate \/ DebCheck \/ DebDrop \/ OtherRouteGoes \/ UNCHANGED vars
  BY <1>2, <1>7 DEF HCUpsert, ExecUpdate, DebCheck, DebDrop, OtherRouteGoes, vars, opVars, histVars
<1>8. ASSUME NEW a \in {"hc", "deb"}, HandGet(a) \/ HandUpdate(a) PROVE Republished'
  <2>1. CASE HandUpdate(a) /\ a \in fresh
    BY <1>1, <2>1 DEF HandUpdate, WriteIngress
  <2>2. CASE HandUpdate(a) /\ a \notin fresh
    BY <1>2, <2>2 DEF HandUpdate
  <2>3. CASE HandGet(a)
    BY <1>2, <2>3 DEF HandGet, histVars
  <2> QED BY <1>8, <2>1, <2>2, <2>3
<1>9. CASE RouteGoes
  BY <1>1, <1>9 DEF RouteGoes
<1>10. CASE Crash
  BY <1>10 DEF Crash, Republished, Restoring
<1>11. ASSUME NEW opts \in Options, ReStart(opts) PROVE Republished'
  BY <1>11 DEF ReStart, Republished, Restoring, opVars
<1>12. CASE ReDerived
  <2>1. re \in Runs /\ re.pc = "derived" /\ re.stage = "restore" /\ re.opts \in Options
    BY <1>12, Running DEF ReDerived, Staged, Runs
  <2>2. UNCHANGED <<ing, icq, ic, spoilt>>
    BY <1>12 DEF ReDerived, histVars
  <2>3. CASE route' = route
    BY <2>1, <2>2, <2>3 DEF Republished, Restoring
  <2>4. CASE route' # route /\ ~spoilt /\ ing.src = Only
    <3>1. re.opts.dns /\ ~re.opts.del /\ re.o.src = Only
      BY <1>12, <2>1, <2>4, DeletingKeepsDNS DEF ReDerived, Copies
    <3>2. shouldRestoreIngress(re.o, re.opts.dns)
      BY <3>1, DNSAssumption DEF shouldRestoreIngress, needsExternalDNSRestore
    <3>3. re' = [re EXCEPT !.pc = "get"]
      BY <1>12, <3>1, <3>2 DEF ReDerived
    <3> QED BY <2>1, <3>1, <3>3 DEF Republished, Restoring, Runs
  <2> QED BY <2>2, <2>3, <2>4 DEF Republished
<1>13. CASE ReDelete
  BY <1>1, <1>13 DEF ReDelete
<1>14. CASE ReGet
  <2>1. re \in Runs
    BY <1>14, Running DEF ReGet
  <2> QED BY <1>14, <2>1 DEF ReGet, Republished, Restoring, opVars, Runs
<1>15. CASE ReUpdate
  <2> USE <1>15, UpdateOutcomes
  <2>1. CASE Nothing
    <3>1. CASE Restoring /\ ~spoilt
      <4>1. newIngress = ing /\ BackDNS(ing, ing)
        BY <2>1, <3>1 DEF Nothing, Copies, Restoring, ReUpdate
      <4>2. ing.src # Only
        BY <4>1 DEF BackDNS, Saved
      <4> QED BY <2>1, <4>2 DEF Nothing, Republished
    <3>2. CASE ~Restoring \/ spoilt
      BY <2>1, <3>2 DEF Nothing, Republished
    <3> QED BY <3>1, <3>2
  <2>2. CASE Written
    BY <1>1, <2>2 DEF Written
  <2>3. CASE Refused
    BY <2>3 DEF Refused, Copies, Republished, ReUpdate
  <2> QED BY <2>1, <2>2, <2>3
<1>16. CASE ReFinish
  BY <1>16 DEF ReFinish, Republished, Restoring, opVars, histVars
<1>17. ASSUME NEW h \in Name \cup {None}, NEW s \in Source \cup {None}, UserEdits(h, s)
       PROVE  Republished'
  BY <1>6, <1>17, EditStep
<1>18. CASE ReRoutes \/ ReGateways
  BY <1>18 DEF ReRoutes, ReGateways, Republished, Restoring, opVars, histVars
<1> QED BY <1>3, <1>4, <1>5, <1>6, <1>7, <1>8, <1>9, <1>10, <1>11, <1>12, <1>13, <1>14, <1>15,
           <1>16, <1>17, <1>18, Steps

-----------------------------------------------------------------------------
(* The route of an Ingress that is about to be deleted.                    *)

LEMMA CheckedStep ==
    ASSUME TypeOK, Staged, Judged, Listed, [Next]_vars
    PROVE  Judged' /\ Listed'
<1>1. CASE re'.pc \notin {"gateways", "delete"}
  BY <1>1 DEF Judged, Listed
<1>2. ASSUME re'.o = re.o, eligible(re.o) PROVE Judged'
  BY <1>2 DEF Judged, eligible, shouldDeleteIngress, isDisabledIngress
<1>3. CASE re' = re
  <2>1. Judged'
    BY <1>1, <1>2, <1>3 DEF Judged
  <2>2. CASE UNCHANGED <<route, vanished>>
    <3>1. route' = route /\ vanished' = vanished
      BY <2>2
    <3> QED BY <1>3, <2>1, <3>1, Zenon DEF Listed
  <2>3. CASE route' # "none"
    BY <2>1, <2>3, Zenon DEF Listed
  <2>4. CASE RouteGoes
    <3>1. vanished' = (vanished \/ re.pc \in {"gateways", "delete"})
      BY <2>4 DEF RouteGoes
    <3> QED BY <1>3, <2>1, <3>1, Zenon DEF Listed
  <2>5. UNCHANGED <<route, vanished>> \/ route' # "none" \/ RouteGoes \/ re'.pc = "idle"
    <3>1. CASE ICStart \/ ICApply \/ ICGateway \/ ICDisable \/ HCUpsert \/ ExecUpdate
                 \/ DebCheck \/ DebDrop \/ OtherRouteGoes \/ Crash \/ UNCHANGED vars
      BY <3>1 DEF ICStart, ICApply, appliedRoute, ICGateway, ICDisable, HCUpsert, ExecUpdate,
           DebCheck, DebDrop, OtherRouteGoes, Crash, vars, histVars
    <3>2. ASSUME NEW a \in {"hc", "deb"}, HandGet(a) \/ HandUpdate(a)
          PROVE  UNCHANGED <<route, vanished>>
      BY <3>2 DEF HandGet, HandUpdate, histVars
    <3>3. ASSUME NEW h \in Name \cup {None}, NEW s \in Source \cup {None}, UserEdits(h, s)
          PROVE  UNCHANGED <<route, vanished>>
      BY <3>3 DEF UserEdits
    <3>4. CASE ReRoutes
      BY <1>3, <3>4, CheckSteps DEF ReRoutes
    <3>5. CASE ReDerived
      BY <3>5 DEF ReDerived, histVars
    <3>6. CASE ReGateways \/ ReDelete \/ ReGet \/ ReUpdate \/ \E opts \in Options : ReStart(opts)
      BY <3>6 DEF ReGateways, ReDelete, ReGet, ReUpdate, ReStart, histVars
    <3>7. CASE ReFinish
      BY <3>7 DEF ReFinish, NotRunning
    <3> QED BY <3>1, <3>2, <3>3, <3>4, <3>5, <3>6, <3>7, Steps
  <2> QED BY <1>1, <2>1, <2>2, <2>3, <2>4, <2>5
<1>4. CASE ReRoutes
  <2>1. CASE re'.pc # "idle"
    <3>1. re'.o = re.o /\ eligible(re.o) /\ route' # "none"
      BY <1>4, <2>1, CheckSteps
    <3> QED BY <1>2, <3>1 DEF Listed
  <2> QED BY <1>1, <2>1
<1>5. CASE ReGateways
  <2>1. CASE re'.pc # "idle"
    <3>1. re.pc = "gateways" /\ re'.o = re.o /\ UNCHANGED <<route, vanished>>
      BY <1>5, <2>1, CheckSteps DEF ReGateways, histVars
    <3>2. Judged'
      BY <1>2, <3>1 DEF Judged
    <3>3. Listed'
      BY <3>1, Zenon DEF Listed
    <3> QED BY <3>2, <3>3
  <2> QED BY <1>1, <2>1
<1>6. ASSUME NEW opts \in Options, ReStart(opts) PROVE re'.pc \notin {"gateways", "delete"}
  BY <1>6 DEF ReStart
<1>7. CASE ReDerived \/ ReGet
  <2>1. re \in Runs
    BY <1>7, Running DEF ReDerived, ReGet
  <2>2. re'.pc \in {"idle", "routes", "get", "update"}
    <3>1. CASE ReDerived
      BY <2>1, <3>1 DEF ReDerived, NotRunning, Runs
    <3>2. CASE ReGet
      <4>1. re' = NotRunning \/ re' = [re EXCEPT !.pc = "update", !.cur = ing]
        BY <3>2 DEF ReGet
      <4>2. [re EXCEPT !.pc = "update", !.cur = ing].pc = "update"
        BY <2>1 DEF Runs
      <4>3. NotRunning.pc = "idle"
        BY DEF NotRunning
      <4> QED BY <4>1, <4>2, <4>3
    <3> QED BY <1>7, <3>1, <3>2
  <2> QED BY <1>1, <2>2
<1>8. CASE ReUpdate
  <2>1. re'.pc \in {"idle", "get", "finish"}
    <3>1. CASE Advanced
      BY <3>1 DEF Advanced
    <3>2. CASE Refused
      BY <3>2 DEF Refused, NotRunning
    <3> QED BY <1>8, <3>1, <3>2, UpdateOutcomes DEF Nothing, Written
  <2> QED BY <1>1, <2>1
<1>9. CASE ReDelete \/ ReFinish
  BY <1>1, <1>9 DEF ReDelete, ReFinish, NotRunning
<1>10. CASE ICStart \/ ICApply \/ ICGateway \/ ICDisable \/ HCUpsert \/ ExecUpdate
             \/ DebCheck \/ DebDrop \/ OtherRouteGoes \/ RouteGoes \/ Crash \/ UNCHANGED vars
  BY <1>3, <1>10 DEF ICStart, ICApply, ICGateway, ICDisable, HCUpsert, ExecUpdate, DebCheck, DebDrop,
       OtherRouteGoes, RouteGoes, Crash, vars
<1>11. ASSUME NEW a \in {"hc", "deb"}, HandGet(a) \/ HandUpdate(a) PROVE re' = re
  BY <1>11 DEF HandGet, HandUpdate
<1>12. ASSUME NEW h \in Name \cup {None}, NEW s \in Source \cup {None}, UserEdits(h, s)
       PROVE  re' = re
  BY <1>12 DEF UserEdits
<1> QED BY <1>1, <1>3, <1>4, <1>5, <1>6, <1>7, <1>8, <1>9, <1>10, <1>11, <1>12, Steps

\* The invariant holds throughout.
LEMMA InvariantHolds == Spec => []IInv
<1>1. Init => IInv
  <2> SUFFICES ASSUME Init PROVE IInv
    OBVIOUS
  <2> PICK h \in Name \cup {None}, s \in Source \cup {None} :
         /\ user = [host |-> h, src |-> s]
         /\ ing = [st |-> "live", host |-> h, src |-> s, oHost |-> None, oSrc |-> None,
                   reason |-> "", cls |-> "user", oCls |-> FALSE, ign |-> FALSE]
    BY DEF Init
  <2>1. ing \in Ingresses
    BY DEF Ingresses
  <2>2. gw \in Gateways /\ ic \in Workers
    <3>1. NoGateway \in Gateways /\ Idle \in Workers
      BY DEF Gateways, NoGateway, Workers, Idle
    <3>2. [st: {"ours"}, lst: {FALSE}, src: BOOLEAN, on: {TRUE}] \subseteq Gateways
      BY DEF Gateways
    <3> QED BY <3>1, <3>2 DEF Init
  <2>3. hand \in [{"hc", "deb"} -> {"idle", "get", "update", "check", "drop"}]
    BY DEF Init
  <2>4. user \in [host: Name \cup {None}, src: Source \cup {None}]
    OBVIOUS
  <2>5. TypeOK
    BY <2>1, <2>2, <2>3, <2>4 DEF Init, TypeOK
  <2>6. Staged /\ Copies /\ Republished /\ Judged /\ Listed
    BY DEF Init, Staged, Copies, Republished, Judged, Listed, NotRunning
  <2>7. Saved
    BY DNSAssumption DEF Init, Saved, HandedOver
  <2> QED BY <2>5, <2>6, <2>7 DEF IInv
<1>2. IInv /\ [Next]_vars => IInv'
  BY TypeStep, CopiesStep, SavedStep, RepublishedStep, CheckedStep DEF IInv
<1> QED BY <1>1, <1>2, PTL DEF Spec

-----------------------------------------------------------------------------
\* Type correctness of the hand-over: the reenabler tries an update three times at
\* most, and whatever it or the operator writes is an Ingress again.
THEOREM TypeCorrect == Spec => []TypeOK
<1>1. IInv => TypeOK
  BY DEF IInv
<1> QED BY InvariantHolds, <1>1, PTL

\* At rest the name of an Ingress is published by it or by its route, whatever
\* restarts, edits and runs of the reenabler came before, unless one of these
\* failed or was overtaken.
THEOREM Published == Spec => []NamePublished
<1>1. IInv => NamePublished
  <2>1. Idle.pc = "idle"
    BY DEF Idle
  <2>2. Quiet => ~icq /\ ic.pc = "idle" /\ re.pc = "idle"
    BY <2>1, Zenon DEF Quiet
  <2> QED BY <2>2 DEF IInv, Republished, Restoring, NamePublished
<1> QED BY InvariantHolds, <1>1, PTL

\* restoreIngressState gives the user back what disableExternalDNS took, in
\* every round, for any values of the two annotations.
THEOREM Restored == Spec => RestoreInverse
<1>1. IInv /\ [Next]_vars =>
        [ReUpdate /\ re.stage = "restore" /\ re.opts.dns /\ HandedOver(ing) /\ ing' # ing
           /\ ~touched /\ user.src # Only
         => ing'.host = user.host /\ ing'.src = user.src]_vars
  <2> SUFFICES ASSUME IInv, ReUpdate, re.stage = "restore", re.opts.dns, HandedOver(ing),
                      ing' # ing, ~touched, user.src # Only
               PROVE  ing'.host = user.host /\ ing'.src = user.src
    OBVIOUS
  <2>1. Written /\ BackDNS(re.cur, newIngress)
    BY UpdateOutcomes DEF IInv, Nothing, Refused
  <2>2. re.cur = ing /\ ing' = newIngress
    BY <2>1 DEF IInv, Copies, Written
  <2> QED BY <2>1, <2>2 DEF IInv, Saved, BackDNS
<1> QED BY InvariantHolds, <1>1, PTL DEF Spec, RestoreInverse

\* The reenabler never deletes an Ingress that external-dns reads, as long as its
\* list of Ingresses is up to date, nor one whose route the operator, or the run
\* itself, took away since it was listed.
THEOREM DeletesServed == Spec => DeletedIsServed
<1>1. IInv /\ [Next]_vars =>
        [ing.st = "live" /\ ing'.st = "none" /\ ~spoilt =>
           /\ ing.cls = "disabled" \/ ing.src = Only \/ touched
           /\ route # "none" \/ vanished]_vars
  <2> SUFFICES ASSUME IInv, [Next]_vars, ing.st = "live", ing'.st = "none", ~spoilt
               PROVE  /\ ing.cls = "disabled" \/ ing.src = Only \/ touched
                      /\ route # "none" \/ vanished
    OBVIOUS
  <2>1. ReDelete /\ eligible(re.o) /\ (route # "none" \/ vanished)
    <3>1. ing'.st = ing.st \/ ReDelete
      <4>1. CASE Elsewhere \/ UNCHANGED vars
        BY <4>1 DEF Elsewhere, vars
      <4>2. CASE ICDisable
        BY <4>2 DEF ICDisable, WriteIngress, IInv, TypeOK, Ingresses
      <4>3. ASSUME NEW a \in {"hc", "deb"}, HandUpdate(a) PROVE ing'.st = ing.st
        BY <4>3, DisabledDNS DEF HandUpdate, WriteIngress, IInv, TypeOK
      <4>4. ASSUME NEW h \in Name \cup {None}, NEW s \in Source \cup {None}, UserEdits(h, s)
            PROVE  ing'.st = ing.st
        BY <4>4 DEF UserEdits, WriteIngress, IInv, TypeOK, Ingresses
      <4>5. CASE ReUpdate
        BY <4>5, UpdateOutcomes DEF IInv, Copies, Nothing, Written, Refused
      <4>6. CASE ReRoutes \/ ReGateways \/ ReDerived \/ ReGet \/ ReFinish
                   \/ \E opts \in Options : ReStart(opts)
        BY <4>6 DEF ReRoutes, ReGateways, ReDerived, ReGet, ReFinish, ReStart
      <4>7. CASE \E a \in {"hc", "deb"} : HandGet(a)
        BY <4>7 DEF HandGet
      <4>8. CASE ICStart \/ ICApply \/ ICGateway \/ HCUpsert \/ ExecUpdate \/ DebCheck
                   \/ DebDrop \/ OtherRouteGoes \/ RouteGoes \/ Crash
        BY <4>8 DEF ICStart, ICApply, ICGateway, HCUpsert, ExecUpdate, DebCheck, DebDrop,
                    OtherRouteGoes, RouteGoes, Crash
      <4> QED BY <4>1, <4>2, <4>3, <4>4, <4>5, <4>6, <4>7, <4>8, Steps
    <3> QED BY <3>1 DEF ReDelete, IInv, Judged, Listed
  <2>2. ing = re.o
    BY <2>1 DEF ReDelete, IInv, Copies
  <2> QED BY <2>1, <2>2 DEF eligible, shouldDeleteIngress, isDisabledIngress, IInv, Saved
<1> QED BY InvariantHolds, <1>1, PTL DEF Spec, DeletedIsServed
=============================================================================
