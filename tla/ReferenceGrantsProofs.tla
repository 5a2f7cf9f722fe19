----------------------- MODULE ReferenceGrantsProofs -----------------------
(***************************************************************************)
(* Theorems about ReferenceGrants, for every set of routes and every bound.*)
(***************************************************************************)
EXTENDS ReferenceGrants, TLAPS

USE TlsAssumption, GrantBounds

\* The idle values have their types.
LEMMA IdleTypes ==
    /\ NoRoute \in HTTPRoutes /\ NoGrant \in Grants
    /\ Idle \in Workers /\ IdleHandler \in Handlers
    /\ \A o \in {"none", "here", "gone"} : NewRoute(o) \in HTTPRoutes
<1>1. NoRoute \in HTTPRoutes /\ NoGrant \in Grants /\ Idle \in Workers
  BY DEF NoRoute, HTTPRoutes, NoGrant, Grants, Idle, Workers
<1>2. IdleHandler \in Handlers
  BY <1>1 DEF IdleHandler, Handlers
<1>3. \A o \in {"none", "here", "gone"} : NewRoute(o) \in HTTPRoutes
  BY DEF NewRoute, HTTPRoutes
<1> QED BY <1>1, <1>2, <1>3

\* A write of a route changes no more than whether a copy is current.
LEMMA TouchedType ==
    ASSUME NEW r \in Route, hc \in Workers
    PROVE  /\ Touched(r) \in Workers
           /\ Touched(r).pc = hc.pc /\ Touched(r).rt = hc.rt /\ Touched(r).src = hc.src
BY DEF Touched, Workers

\* A step of ensureReferenceGrant keeps the types of the grant and the worker.
LEMMA EnsureType ==
    ASSUME TypeOK, NEW me \in {"ic", "hc"}, NEW w \in Workers, NEW r \in Route, Ensure(me, w, r)
    PROVE  /\ grant' \in Grants /\ fresh' \subseteq {"ic", "hc", "wh"} /\ logged' \in BOOLEAN
           /\ afterEnsure(w, r) \in Workers
<1> USE DEF TypeOK
<1>1. grant.src \in SUBSET Route /\ w.src \in SUBSET Route
  BY DEF Grants, Workers
<1>2. ensurePlan(r) \in {"create", "idle", "add"}
  BY DEF ensurePlan
<1>3. afterEnsure(w, r) \in Workers
  <2>1. ensurePlan(r) # "idle" => [w EXCEPT !.pc = ensurePlan(r), !.src = grant.src] \in Workers
    BY <1>1, <1>2 DEF Workers
  <2>2. [w EXCEPT !.pc = "ensure"] \in Workers
    BY DEF Workers
  <2> QED BY <2>1, <2>2, IdleTypes DEF afterEnsure
<1>4. CASE EnsureRead(me, w, r)
  BY <1>3, <1>4 DEF EnsureRead
<1>5. CASE EnsureCreate(me, w, r)
  <2>1. [st |-> "ours", src |-> {r}, owner |-> NoOwner] \in Grants
    BY DEF Grants
  <2> QED BY <1>3, <1>5, <2>1 DEF EnsureCreate
<1>6. CASE EnsureAdd(me, w, r)
  <2>1. [grant EXCEPT !.src = withSource(w.src, r)] \in Grants
    BY <1>1 DEF Grants, withSource
  <2> QED BY <1>3, <1>6, <2>1 DEF EnsureAdd
<1> QED BY <1>4, <1>5, <1>6, Zenon DEF Ensure

\* TypeOK is preserved by every step.
LEMMA TypeStep == TypeOK /\ [Next]_vars => TypeOK'
<1> SUFFICES ASSUME TypeOK, [Next]_vars PROVE TypeOK'
  OBVIOUS
<1> USE DEF TypeOK, clusterVars, envVars
<1>g. grant.src \in SUBSET Route /\ grant \in Grants
  BY DEF Grants
<1>1. ASSUME NEW r \in Route, UserApply(r) PROVE TypeOK'
  BY <1>1 DEF UserApply
<1>2. ASSUME NEW r \in Route, UserDelete(r) PROVE TypeOK'
  <2>1. [route[r] EXCEPT !.owner = IF @ = "here" THEN "gone" ELSE @] \in HTTPRoutes
    BY DEF HTTPRoutes
  <2>2. route' \in [Route -> HTTPRoutes]
    BY <1>2, <2>1 DEF UserDelete
  <2>3. ic' \in Workers
    BY <1>2 DEF UserDelete, Workers
  <2> QED BY <1>2, <2>2, <2>3 DEF UserDelete
<1>3. CASE UserTakesGrant
  BY <1>3 DEF UserTakesGrant, Grants
<1>4. ASSUME NEW r \in Route, CollectRoute(r) PROVE TypeOK'
  <2>1. [route[r] EXCEPT !.st = "term"] \in HTTPRoutes
    BY DEF HTTPRoutes
  <2>2. route' \in [Route -> HTTPRoutes]
    BY <1>4, <2>1, IdleTypes DEF CollectRoute
  <2> QED BY <1>4, <2>2, TouchedType DEF CollectRoute
<1>5. CASE CollectGrant
  BY <1>5, IdleTypes DEF CollectGrant
<1>6. CASE Crash
  BY <1>6, IdleTypes DEF Crash
<1>7. CASE CallFails
  <2>1. [hc EXCEPT !.pc = "finalize"] \in Workers
    BY DEF Workers
  <2> QED BY <1>7, <2>1, IdleTypes DEF CallFails
<1>8. ASSUME NEW r \in Route, ICStart(r) PROVE TypeOK'
  <2>1. [Idle EXCEPT !.pc = "apply", !.rt = {r}] \in Workers
    BY DEF Idle, Workers
  <2> QED BY <1>8, <2>1, IdleTypes DEF ICStart
<1>9. ASSUME NEW r \in Route, ICApply(r) PROVE TypeOK'
  <2>1. route' \in [Route -> HTTPRoutes]
    BY <1>9, IdleTypes DEF ICApply
  <2>2. ic' \in Workers
    BY <1>9 DEF ICApply, Workers
  <2>3. hcq' \subseteq Route /\ hc' \in Workers
    BY <1>9, TouchedType DEF ICApply
  <2> QED BY <1>9, <2>1, <2>2, <2>3 DEF ICApply
<1>10. ASSUME NEW r \in Route, ICEnsure(r) PROVE TypeOK'
  <2>1. Ensure("ic", ic, r) /\ ic' = afterEnsure(ic, r)
    BY <1>10 DEF ICEnsure
  <2>2. grant' \in Grants /\ fresh' \subseteq {"ic", "hc", "wh"} /\ logged' \in BOOLEAN /\ ic' \in Workers
    BY <2>1, EnsureType
  <2> QED BY <1>10, <2>2 DEF ICEnsure
<1>11. ASSUME NEW r \in Route, HCStart(r) PROVE TypeOK'
  <2>1. [route[r] EXCEPT !.fin = @ \/ route[r].st = "live"] \in HTTPRoutes
    BY DEF HTTPRoutes
  <2>2. route' \in [Route -> HTTPRoutes]
    BY <1>11, <2>1 DEF HCStart
  <2>3. /\ [Idle EXCEPT !.pc = "cleanup", !.rt = {r}] \in Workers
        /\ [Idle EXCEPT !.pc = "ensure", !.rt = {r}] \in Workers
    BY DEF Idle, Workers
  <2> QED BY <1>11, <2>2, <2>3, IdleTypes DEF HCStart
<1>12. ASSUME NEW r \in Route, HCEnsure(r) PROVE TypeOK'
  <2>1. Ensure("hc", hc, r) /\ hc' = afterEnsure(hc, r)
    BY <1>12 DEF HCEnsure
  <2>2. grant' \in Grants /\ fresh' \subseteq {"ic", "hc", "wh"} /\ logged' \in BOOLEAN /\ hc' \in Workers
    BY <2>1, EnsureType
  <2> QED BY <1>12, <2>2 DEF HCEnsure
<1>13. ASSUME NEW r \in Route, HCCleanup(r) PROVE TypeOK'
  <2>1. cleanupPlan(r) \in {"finalize", "delete", "remove"}
    BY DEF cleanupPlan
  <2>2. hc' \in Workers
    <3>1. grant.src \ {r} \in SUBSET Route
      BY <1>g
    <3>2. [hc EXCEPT !.pc = cleanupPlan(r), !.src = grant.src \ {r}] \in Workers
      BY <2>1, <3>1 DEF Workers
    <3> QED BY <1>13, <3>2 DEF HCCleanup
  <2> QED BY <1>13, <2>2 DEF HCCleanup
<1>14. CASE HCDelete
  <2>1. hc' \in Workers
    BY <1>14 DEF HCDelete, Workers
  <2> QED BY <1>14, <2>1, IdleTypes DEF HCDelete
<1>15. CASE HCRemove
  <2>1. hc' \in Workers
    BY <1>15 DEF HCRemove, Workers
  <2>2. grant' \in Grants
    BY <1>15 DEF HCRemove, Grants, Workers
  <2> QED BY <1>15, <2>1, <2>2 DEF HCRemove
<1>16. ASSUME NEW r \in Route, HCFinalize(r) PROVE TypeOK'
  BY <1>16, IdleTypes DEF HCFinalize
<1>17. ASSUME NEW r \in Route, WHAdmit(r) PROVE TypeOK'
  <2>1. route' \in [Route -> HTTPRoutes]
    BY <1>17, IdleTypes DEF WHAdmit
  <2>2. wh' \in Handlers
    BY <1>17, IdleTypes DEF WHAdmit, IdleHandler, Handlers
  <2> QED BY <1>17, <2>1, <2>2, TouchedType DEF WHAdmit
<1>18. CASE WHList
  <2>1. [st |-> "ours", src |-> ing \cap Tls, owner |-> NoOwner] \in Grants
    BY DEF Grants
  <2>2. wh' \in Handlers
    BY <1>18, <2>1 DEF WHList, Handlers
  <2> QED BY <1>18, <2>2 DEF WHList
<1>19. CASE WHOwner
  <2>1. wh.want \in Grants
    BY DEF Handlers
  <2>2. grantOwner(wh.want.src) \in Route \cup {NoOwner}
    BY <2>1 DEF grantOwner, Grants
  <2>3. [wh.want EXCEPT !.owner = grantOwner(wh.want.src)] \in Grants
    BY <2>1, <2>2 DEF Grants
  <2>4. wh' = [wh EXCEPT !.pc = "get", !.want = [wh.want EXCEPT !.owner = grantOwner(wh.want.src)]]
    BY <1>19 DEF WHOwner
  <2>5. wh' \in Handlers
    BY <2>3, <2>4 DEF Handlers
  <2> QED BY <1>19, <2>5 DEF WHOwner
<1>20. CASE WHGet
  <2>1. applyPlan(wh.want.src) \in {"create", "update", "answer"}
    BY DEF applyPlan
  <2>2. wh' \in Handlers
    BY <1>20, <2>1 DEF WHGet, Handlers
  <2> QED BY <1>20, <2>2 DEF WHGet
<1>21. CASE WHWrite
  <2>1. wh' \in Handlers
    BY <1>21 DEF WHWrite, Handlers
  <2>2. grant' \in Grants
    BY <1>21 DEF WHWrite, Handlers, Grants
  <2> QED BY <1>21, <2>1, <2>2 DEF WHWrite
<1>22. ASSUME NEW r \in Route, WHAnswer(r) PROVE TypeOK'
  BY <1>22, IdleTypes DEF WHAnswer
<1>23. CASE UNCHANGED vars
  BY <1>23 DEF vars
<1> QED
  BY <1>1, <1>2, <1>3, <1>4, <1>5, <1>6, <1>7, <1>8, <1>9, <1>10, <1>11, <1>12, <1>13, <1>14,
     <1>15, <1>16, <1>17, <1>18, <1>19, <1>20, <1>21, <1>22, <1>23
     DEF Next, Environment, IngressWorker, RouteWorker, Webhook

-----------------------------------------------------------------------------
\* A writer in `fresh' that is about to update the grant holds the sources the
\* grant has, and the grant is one of ours.
CopiesCurrent ==
    /\ "ic" \in fresh /\ ic.pc = "add" => grant.st = "ours" /\ ic.src = grant.src
    /\ "hc" \in fresh /\ hc.pc = "add" => grant.st = "ours" /\ hc.src = grant.src
    /\ "hc" \in fresh /\ hc.pc = "remove" => grant.st = "ours" /\ hc.src = grant.src \ hc.rt
    /\ "wh" \in fresh /\ wh.pc = "update" => grant.st = "ours"

\* ensureReferenceGrant leaves its worker idle or with a copy it just read, and
\* leaves the others alone or outdated.
LEMMA EnsureCopies ==
    ASSUME TypeOK, NEW me \in {"ic", "hc"}, NEW w \in Workers, NEW r \in Route, Ensure(me, w, r)
    PROVE  /\ afterEnsure(w, r).pc # "remove"
           /\ afterEnsure(w, r).pc = "add" => /\ grant' = grant /\ grant.st = "ours"
                                              /\ afterEnsure(w, r).src = grant.src
           /\ \/ fresh' = {}
              \/ grant' = grant /\ fresh' \subseteq fresh \cup {me}
<1>1. grant.src \in SUBSET Route /\ Idle.pc = "idle" /\ grant \in Grants
  BY DEF TypeOK, Grants, Idle
<1>2. CASE EnsureRead(me, w, r)
  <2>1. ensurePlan(r) \in {"create", "idle", "add"} /\ (ensurePlan(r) = "add" => grant.st = "ours")
    BY <1>1 DEF ensurePlan, Grants
  <2>2. CASE ensurePlan(r) = "idle"
    BY <1>1, <1>2, <2>2 DEF EnsureRead, afterEnsure
  <2>3. CASE ensurePlan(r) # "idle"
    <3>1. afterEnsure(w, r) = [w EXCEPT !.pc = ensurePlan(r), !.src = grant.src]
      BY <1>2, <2>3 DEF EnsureRead, afterEnsure
    <3>2. afterEnsure(w, r).pc = ensurePlan(r) /\ afterEnsure(w, r).src = grant.src
      BY <1>1, <2>1, <3>1 DEF Workers
    <3> QED BY <1>2, <2>1, <3>2 DEF EnsureRead
  <2> QED BY <2>2, <2>3
<1>3. CASE EnsureCreate(me, w, r)
  <2>1. afterEnsure(w, r).pc \in {"idle", "ensure"}
    <3>1. afterEnsure(w, r) \in {Idle, [w EXCEPT !.pc = "ensure"]}
      BY <1>3 DEF EnsureCreate, afterEnsure
    <3>2. [w EXCEPT !.pc = "ensure"].pc = "ensure"
      BY DEF Workers
    <3> QED BY <1>1, <3>1, <3>2
  <2> QED BY <1>3, <2>1 DEF EnsureCreate
<1>4. CASE EnsureAdd(me, w, r)
  <2>1. afterEnsure(w, r) = Idle
    BY <1>4 DEF EnsureAdd, afterEnsure
  <2> QED BY <1>1, <1>4, <2>1 DEF EnsureAdd
<1> QED BY <1>2, <1>3, <1>4, Zenon DEF Ensure

IInv == TypeOK /\ CopiesCurrent

\* Copies stay current: whoever writes the grant makes all others outdated.
LEMMA CopiesStep == IInv /\ [Next]_vars => CopiesCurrent'
<1> SUFFICES ASSUME IInv, [Next]_vars PROVE CopiesCurrent'
  OBVIOUS
<1> USE DEF IInv
<1>i. Idle.pc = "idle" /\ IdleHandler.pc = "idle"
  BY DEF Idle, IdleHandler
<1>t. ic \in Workers /\ hc \in Workers /\ wh \in Handlers
  BY DEF TypeOK
<1>f. ASSUME fresh' = {} PROVE CopiesCurrent'
  BY <1>f DEF CopiesCurrent
<1>k. ASSUME grant' = grant, fresh' \subseteq fresh,
             ic' = ic \/ ic'.pc \notin {"add"}
               \/ (ic'.pc = ic.pc /\ ic'.src = ic.src),
             hc' = hc \/ hc'.pc \notin {"add", "remove"}
               \/ (hc'.pc = hc.pc /\ hc'.src = hc.src /\ hc'.rt = hc.rt),
             wh' = wh \/ wh'.pc # "update"
      PROVE  CopiesCurrent'
  BY <1>k DEF CopiesCurrent
<1>1. ASSUME NEW r \in Route, UserApply(r) PROVE CopiesCurrent'
  BY <1>1, <1>k DEF UserApply
<1>2. ASSUME NEW r \in Route, UserDelete(r) PROVE CopiesCurrent'
  <2>1. ic'.pc = ic.pc /\ ic'.src = ic.src
    BY <1>t, <1>2 DEF UserDelete, Workers
  <2> QED BY <1>2, <2>1, <1>k DEF UserDelete
<1>3. CASE UserTakesGrant \/ CollectGrant
  BY <1>3, <1>f DEF UserTakesGrant, CollectGrant
<1>4. ASSUME NEW r \in Route, CollectRoute(r) PROVE CopiesCurrent'
  <2>1. hc'.pc = hc.pc /\ hc'.src = hc.src /\ hc'.rt = hc.rt
    BY <1>t, <1>4, TouchedType DEF CollectRoute
  <2> QED BY <1>4, <2>1, <1>k DEF CollectRoute
<1>5. CASE Crash
  BY <1>5, <1>i, <1>k DEF Crash
<1>6. CASE CallFails
  <2>1. [hc EXCEPT !.pc = "finalize"].pc = "finalize"
    BY <1>t DEF Workers
  <2> QED BY <1>6, <2>1, <1>i, <1>k DEF CallFails
<1>7. ASSUME NEW r \in Route, ICStart(r) PROVE CopiesCurrent'
  <2>1. ic'.pc # "add"
    BY <1>7, <1>i DEF ICStart, Idle
  <2> QED BY <1>7, <2>1, <1>k DEF ICStart
<1>8. ASSUME NEW r \in Route, ICApply(r) PROVE CopiesCurrent'
  <2>1. ic'.pc = "ensure"
    BY <1>t, <1>8 DEF ICApply, Workers
  <2>2. hc' = hc \/ (hc'.pc = hc.pc /\ hc'.src = hc.src /\ hc'.rt = hc.rt)
    BY <1>t, <1>8, TouchedType DEF ICApply
  <2> QED BY <1>8, <2>1, <2>2, <1>k DEF ICApply
<1>9. ASSUME NEW r \in Route, ICEnsure(r) PROVE CopiesCurrent'
  <2>1. Ensure("ic", ic, r) /\ ic' = afterEnsure(ic, r) /\ UNCHANGED <<hc, wh>>
    BY <1>9 DEF ICEnsure
  <2>2. /\ ic'.pc = "add" => grant' = grant /\ grant.st = "ours" /\ ic'.src = grant.src
        /\ fresh' = {} \/ (grant' = grant /\ fresh' \subseteq fresh \cup {"ic"})
    BY <1>t, <2>1, EnsureCopies
  <2> QED BY <2>1, <2>2, <1>f DEF CopiesCurrent
<1>10. ASSUME NEW r \in Route, HCStart(r) PROVE CopiesCurrent'
  <2>1. hc'.pc \notin {"add", "remove"}
    BY <1>10, <1>i DEF HCStart, Idle
  <2> QED BY <1>10, <2>1, <1>k DEF HCStart
<1>11. ASSUME NEW r \in Route, HCEnsure(r) PROVE CopiesCurrent'
  <2>1. Ensure("hc", hc, r) /\ hc' = afterEnsure(hc, r) /\ UNCHANGED <<ic, wh>>
    BY <1>11 DEF HCEnsure
  <2>2. /\ hc'.pc # "remove"
        /\ hc'.pc = "add" => grant' = grant /\ grant.st = "ours" /\ hc'.src = grant.src
        /\ fresh' = {} \/ (grant' = grant /\ fresh' \subseteq fresh \cup {"hc"})
    BY <1>t, <2>1, EnsureCopies
  <2> QED BY <2>1, <2>2, <1>f DEF CopiesCurrent
<1>12. ASSUME NEW r \in Route, HCCleanup(r) PROVE CopiesCurrent'
  <2>1. /\ cleanupPlan(r) \in {"finalize", "delete", "remove"}
        /\ cleanupPlan(r) = "remove" => grant.st = "ours"
    BY DEF cleanupPlan
  <2>2. grant.src \ {r} \in SUBSET Route
    BY DEF TypeOK, Grants
  <2>3. hc'.pc = cleanupPlan(r) /\ hc'.src = grant.src \ {r} /\ hc'.rt = hc.rt
    BY <1>t, <1>12, <2>1, <2>2 DEF HCCleanup, Workers
  <2>4. hc.rt = {r} /\ UNCHANGED <<grant, ic, wh>> /\ fresh' \subseteq fresh \cup {"hc"}
    BY <1>12 DEF HCCleanup
  <2> QED BY <2>1, <2>3, <2>4 DEF CopiesCurrent
<1>13. CASE HCDelete
  BY <1>13, <1>f DEF HCDelete
<1>14. CASE HCRemove
  <2>1. hc'.pc = "finalize"
    BY <1>t, <1>14 DEF HCRemove, Workers
  <2> QED BY <1>14, <2>1, <1>f, <1>k DEF HCRemove
<1>15. ASSUME NEW r \in Route, HCFinalize(r) PROVE CopiesCurrent'
  BY <1>15, <1>i, <1>k DEF HCFinalize
<1>16. ASSUME NEW r \in Route, WHAdmit(r) PROVE CopiesCurrent'
  <2>1. hc'.pc = hc.pc /\ hc'.src = hc.src /\ hc'.rt = hc.rt
    BY <1>t, <1>16, TouchedType DEF WHAdmit
  <2>2. wh'.pc = "list"
    BY <1>16 DEF WHAdmit, IdleHandler
  <2> QED BY <1>16, <2>1, <2>2, <1>k DEF WHAdmit
<1>17. CASE WHList \/ WHOwner
  <2>1. wh'.pc # "update"
    BY <1>t, <1>17 DEF WHList, WHOwner, Handlers
  <2> QED BY <1>17, <2>1, <1>k DEF WHList, WHOwner
<1>18. CASE WHGet
  <2>1. wh'.pc = applyPlan(wh.want.src)
    BY <1>t, <1>18 DEF WHGet, Handlers
  <2>2. wh'.pc = "update" => grant.st = "ours"
    BY <2>1 DEF applyPlan
  <2> QED BY <1>18, <2>2 DEF WHGet, CopiesCurrent
<1>19. CASE WHWrite
  <2>1. wh'.pc = "answer"
    BY <1>t, <1>19 DEF WHWrite, Handlers
  <2> QED BY <1>19, <2>1, <1>f, <1>k DEF WHWrite
<1>20. ASSUME NEW r \in Route, WHAnswer(r) PROVE CopiesCurrent'
  BY <1>20, <1>i, <1>k DEF WHAnswer
<1>21. CASE UNCHANGED vars
  BY <1>21, <1>k DEF vars
<1> QED
  BY <1>1, <1>2, <1>3, <1>4, <1>5, <1>6, <1>7, <1>8, <1>9, <1>10, <1>11, <1>12, <1>13, <1>14,
     <1>15, <1>16, <1>17, <1>18, <1>19, <1>20, <1>21
     DEF Next, Environment, IngressWorker, RouteWorker, Webhook

\* The inductive invariant holds in every reachable state.
LEMMA InvariantHolds == Spec => []IInv
<1>1. Init => IInv
  <2> SUFFICES ASSUME Init PROVE IInv
    OBVIOUS
  <2>1. TypeOK
    BY IdleTypes DEF Init, TypeOK
  <2>2. CopiesCurrent
    BY DEF Init, CopiesCurrent
  <2> QED BY <2>1, <2>2 DEF IInv
<1>2. IInv /\ [Next]_vars => IInv'
  BY TypeStep, CopiesStep DEF IInv
<1> QED BY <1>1, <1>2, PTL DEF Spec

-----------------------------------------------------------------------------
\* Type correctness of the two workers, the webhook and the grant.
THEOREM TypeCorrect == Spec => []TypeOK
<1>1. IInv => TypeOK
  BY DEF IInv
<1> QED BY InvariantHolds, <1>1, PTL

\* A step of ensureReferenceGrant on an existing grant adds its route to the
\* sources the grant has, or changes nothing.
LEMMA EnsureKeeps ==
    ASSUME NEW me, NEW w, NEW r \in Route, Ensure(me, w, r), TypeOK,
           me \in fresh /\ w.pc = "add" => grant.st = "ours" /\ w.src = grant.src
    PROVE  \/ grant' = grant
           \/ grant.st = "none"
           \/ grant.st = "ours" /\ grant.src \subseteq grant'.src
<1>1. CASE EnsureRead(me, w, r) \/ EnsureCreate(me, w, r)
  BY <1>1 DEF EnsureRead, EnsureCreate
<1>2. CASE EnsureAdd(me, w, r)
  BY <1>2 DEF EnsureAdd, UpdateAccepted, withSource, TypeOK, Grants
<1> QED BY <1>1, <1>2, Zenon DEF Ensure

\* A grant without the managed-by annotation is rewritten by none of its three
\* writers, whatever copies they hold.
THEOREM ForeignSafe == Spec => ForeignGrantUntouched
<1>1. IInv /\ [Next]_vars => [grant.st = "foreign" /\ grant'.st # "none" => grant' = grant]_vars
  <2> SUFFICES ASSUME IInv, Next, grant.st = "foreign", grant'.st # "none"
               PROVE  grant' = grant
    BY DEF vars
  <2> USE DEF IInv, CopiesCurrent
  <2>1. ASSUME NEW r \in Route, ICEnsure(r) PROVE grant' = grant
    BY <2>1, EnsureKeeps DEF ICEnsure
  <2>2. ASSUME NEW r \in Route, HCEnsure(r) PROVE grant' = grant
    BY <2>2, EnsureKeeps DEF HCEnsure
  <2>3. CASE HCDelete \/ CollectGrant
    BY <2>3 DEF HCDelete, CollectGrant, NoGrant
  <2>4. CASE HCRemove
    BY <2>4 DEF HCRemove, UpdateAccepted
  <2>5. CASE WHWrite
    BY <2>5 DEF WHWrite, UpdateAccepted
  <2>6. CASE Environment
    BY <2>3, <2>6 DEF Environment, UserApply, UserDelete, CollectRoute, UserTakesGrant, Crash, CallFails
  <2>7. CASE IngressWorker
    BY <2>1, <2>7 DEF IngressWorker, ICStart, ICApply
  <2>8. CASE RouteWorker
    BY <2>2, <2>3, <2>4, <2>8 DEF RouteWorker, HCStart, HCCleanup, HCFinalize
  <2>9. CASE Webhook
    BY <2>5, <2>9 DEF Webhook, WHAdmit, WHList, WHOwner, WHGet, WHAnswer
  <2> QED BY <2>6, <2>7, <2>8, <2>9 DEF Next
<1> QED BY InvariantHolds, <1>1, PTL DEF Spec, ForeignGrantUntouched

\* Neither worker drops a source that somebody added after it read the grant:
\* only the route being cleaned up leaves the list.
THEOREM SourcesSafe == Spec => SourcesKept
<1>1. IInv /\ [Next]_vars =>
        [grant.st = "ours" /\ grant'.st = "ours" /\ ~Webhook => grant.src \ hc.rt \subseteq grant'.src]_vars
  <2> SUFFICES ASSUME IInv, Next, ~Webhook, grant.st = "ours", grant'.st = "ours"
               PROVE  grant.src \ hc.rt \subseteq grant'.src
    BY DEF vars
  <2> USE DEF IInv, CopiesCurrent
  <2>1. ASSUME NEW r \in Route, ICEnsure(r) PROVE grant.src \subseteq grant'.src
    BY <2>1, EnsureKeeps DEF ICEnsure
  <2>2. ASSUME NEW r \in Route, HCEnsure(r) PROVE grant.src \subseteq grant'.src
    BY <2>2, EnsureKeeps DEF HCEnsure
  <2>3. CASE HCDelete \/ CollectGrant \/ UserTakesGrant
    BY <2>3 DEF HCDelete, CollectGrant, NoGrant, UserTakesGrant, TypeOK, Grants
  <2>4. CASE HCRemove
    BY <2>4 DEF HCRemove, UpdateAccepted, TypeOK, Grants
  <2>6. CASE Environment
    BY <2>3, <2>6 DEF Environment, UserApply, UserDelete, CollectRoute, Crash, CallFails
  <2>7. CASE IngressWorker
    BY <2>1, <2>7 DEF IngressWorker, ICStart, ICApply
  <2>8. CASE RouteWorker
    BY <2>2, <2>3, <2>4, <2>8 DEF RouteWorker, HCStart, HCCleanup, HCFinalize
  <2> QED BY <2>6, <2>7, <2>8 DEF Next
<1> QED BY InvariantHolds, <1>1, PTL DEF Spec, SourcesKept
-----------------------------------------------------------------------------
(* Why the Secrets of a live route are readable, as long as no error was   *)
(* logged and the webhook was not asked.                                   *)

Calm == ~logged /\ admissions = 0

\* A route that has to be served: live, of an Ingress that exists.
Due(r) == route[r].st = "live" /\ route[r].owner = "here"

\* The webhook, which gives routes no owner and the grant one, has done nothing.
Unaided ==
    /\ wh.pc = "idle" /\ grant.owner = NoOwner
    /\ \A r \in Route : route[r].st = "live" => route[r].owner # "none"

\* A route whose owner is there has its Ingress, also when it is about to be
\* created by the Ingress worker.
Owned ==
    /\ \A r \in Route : route[r].owner = "here" => r \in ing
    /\ \A r \in Route : ic.rt = {r} /\ ic.cur /\ ic.pc = "apply" => r \in ing

\* The cleanup is of a route being deleted, which stays so until it ends.
Cleaning ==
    hc.pc \in {"cleanup", "delete", "remove", "finalize"} =>
        \E r \in Route : hc.rt = {r} /\ route[r].st = "term"

\* A due route is among the sources, or is going to be: the HTTPRoute worker
\* has it at hand or in its queue.  In the queue when the grant is about to be
\* deleted, since the Ingress worker may have added it too early.
Counted ==
    /\ \A r \in Route : Due(r) =>
          \/ r \in hcq
          \/ hc.rt = {r} /\ hc.pc \in {"ensure", "create", "add"}
          \/ grant.st = "foreign"
          \/ grant.st = "ours" /\ r \in grant.src
    /\ hc.pc = "delete" => \A r \in Route : Due(r) => r \in hcq

CountInv == Calm => Unaided /\ Owned /\ Cleaning /\ Counted

Parts == Unaided /\ Owned /\ Cleaning /\ Counted

\* A step that leaves the routes, the grant and the workers' places alone, and
\* takes no Ingress away and nothing from the queue.
LEMMA CountFrame ==
    ASSUME Parts, UNCHANGED <<route, grant, wh>>, ing \subseteq ing', hcq \subseteq hcq',
           ic' = ic \/ ic'.pc # "apply", hc' = hc
    PROVE  Parts'
BY DEF Parts, Unaided, Owned, Cleaning, Counted, Due

\* Every step keeps the parts, as long as nothing is logged or admitted.
LEMMA CountStep == IInv /\ CountInv /\ [Next]_vars => CountInv'
<1> SUFFICES ASSUME IInv, CountInv, [Next]_vars, Calm' PROVE Parts'
  BY DEF CountInv, Parts
<1> USE DEF IInv
<1>t. /\ ic \in Workers /\ hc \in Workers /\ route \in [Route -> HTTPRoutes] /\ grant \in Grants
      /\ TypeOK /\ TypeOK'
  BY TypeStep DEF TypeOK
<1>i. Idle.pc = "idle" /\ Idle.rt = {} /\ NoRoute.st = "none" /\ NoRoute.owner = "none"
  BY DEF Idle, NoRoute
<1>c. Calm
  <2>1. admissions \in Nat
    BY DEF TypeOK
  <2>2. admissions' = admissions \/ admissions' = admissions + 1
    BY DEF Next, Environment, IngressWorker, RouteWorker, Webhook, vars, envVars,
           UserApply, UserDelete, UserTakesGrant, CollectRoute, CollectGrant, Crash, CallFails,
           ICStart, ICApply, ICEnsure, HCStart, HCEnsure, HCCleanup, HCDelete, HCRemove, HCFinalize,
           WHAdmit, WHList, WHOwner, WHGet, WHWrite, WHAnswer
  <2>3. logged' = logged \/ logged' = TRUE
    BY DEF Next, Environment, IngressWorker, RouteWorker, Webhook, vars, envVars,
           UserApply, UserDelete, UserTakesGrant, CollectRoute, CollectGrant, Crash, CallFails,
           ICStart, ICApply, ICEnsure, HCStart, HCEnsure, HCCleanup, HCDelete, HCRemove, HCFinalize,
           WHAdmit, WHList, WHOwner, WHGet, WHWrite, WHAnswer,
           Ensure, EnsureRead, EnsureCreate, EnsureAdd
  <2> QED BY <2>1, <2>2, <2>3 DEF Calm
<1>p. Parts
  BY <1>c DEF CountInv, Parts
<1>1. ASSUME NEW r \in Route, UserApply(r) PROVE Parts'
  BY <1>1, <1>p, CountFrame DEF UserApply
<1>2. ASSUME NEW r \in Route, UserDelete(r) PROVE Parts'
  <2>1. /\ route'[r].st = route[r].st
        /\ route'[r].owner = IF route[r].owner = "here" THEN "gone" ELSE route[r].owner
        /\ \A q \in Route : q # r => route'[q] = route[q]
    BY <1>t, <1>2 DEF UserDelete, HTTPRoutes
  <2>2. /\ ic'.pc = ic.pc /\ ic'.rt = ic.rt
        /\ ic'.cur => ic.cur /\ ic.rt # {r}
    BY <1>t, <1>2 DEF UserDelete, Workers
  <2>3. UNCHANGED <<grant, hcq, hc, wh>> /\ ing' = ing \ {r}
    BY <1>2 DEF UserDelete
  <2>4. \A q \in Route : Due(q)' => Due(q)
    BY <2>1 DEF Due
  <2>5. Unaided' /\ Owned'
    BY <1>p, <2>1, <2>2, <2>3 DEF Parts, Unaided, Owned
  <2>6. Cleaning' /\ Counted'
    BY <1>p, <2>1, <2>3, <2>4 DEF Parts, Cleaning, Counted
  <2> QED BY <2>5, <2>6 DEF Parts
<1>3. CASE UserTakesGrant
  <2>1. grant'.st = "foreign" /\ grant'.owner = grant.owner
    BY <1>t, <1>3 DEF UserTakesGrant, Grants
  <2> QED BY <1>3, <1>p, <2>1
      DEF UserTakesGrant, clusterVars, Parts, Unaided, Owned, Cleaning, Counted, Due
<1>4. ASSUME NEW r \in Route, CollectRoute(r) PROVE Parts'
  <2>1. /\ route'[r].st # "live" /\ route[r].st = "live"
        /\ route'[r].owner # "here"
        /\ \A q \in Route : q # r => route'[q] = route[q]
    BY <1>t, <1>4, <1>i DEF CollectRoute, HTTPRoutes
  <2>2. hc'.pc = hc.pc /\ hc'.rt = hc.rt
    BY <1>t, <1>4, TouchedType DEF CollectRoute
  <2>3. UNCHANGED <<grant, wh, ing, ic>> /\ hcq \subseteq hcq'
    BY <1>4 DEF CollectRoute
  <2>4. \A q \in Route : Due(q)' => Due(q)
    BY <2>1 DEF Due
  <2>5. Unaided' /\ Owned'
    BY <1>p, <2>1, <2>3 DEF Parts, Unaided, Owned
  <2>6. Cleaning'
    BY <1>p, <2>1, <2>2 DEF Parts, Cleaning
  <2>7. Counted'
    BY <1>p, <2>2, <2>3, <2>4 DEF Parts, Counted
  <2> QED BY <2>5, <2>6, <2>7 DEF Parts
<1>5. CASE CollectGrant
  BY <1>5, <1>p DEF CollectGrant, Parts, Unaided
<1>6. CASE Crash
  <2>1. \A r \in Route : Due(r)' => r \in hcq'
    BY <1>6 DEF Crash, clusterVars, Due
  <2>2. ic'.pc = "idle" /\ hc'.pc = "idle" /\ UNCHANGED <<route, ing, grant, wh>>
    BY <1>6, <1>i DEF Crash, clusterVars
  <2> QED BY <1>p, <2>1, <2>2 DEF Parts, Unaided, Owned, Cleaning, Counted
<1>7. CASE CallFails
  BY <1>7 DEF CallFails, Calm
<1>8. ASSUME NEW r \in Route, ICStart(r) PROVE Parts'
  <2>1. \A q \in Route : ic'.rt = {q} => q \in ing
    BY <1>8, <1>i DEF ICStart, Idle
  <2> QED BY <1>8, <1>p, <2>1
      DEF ICStart, clusterVars, Parts, Unaided, Owned, Cleaning, Counted, Due
<1>9. ASSUME NEW r \in Route, ICApply(r) PROVE Parts'
  <2>1. ic'.pc = "ensure"
    BY <1>t, <1>9 DEF ICApply, Workers
  <2>2. hc'.pc = hc.pc /\ hc'.rt = hc.rt
    BY <1>t, <1>9, TouchedType DEF ICApply
  <2>3. UNCHANGED <<grant, wh, ing>> /\ hcq \subseteq hcq'
    BY <1>9 DEF ICApply
  <2>4. CASE route[r].st # "none"
    <3>1. route' = route
      BY <1>t, <1>9, <2>4 DEF ICApply
    <3> QED BY <1>p, <2>1, <2>2, <2>3, <3>1 DEF Parts, Unaided, Owned, Cleaning, Counted, Due
  <2>5. CASE route[r].st = "none"
    <3>1. /\ route'[r] = NewRoute(IF ic.cur THEN "here" ELSE "gone")
          /\ r \in hcq'
          /\ \A q \in Route : q # r => route'[q] = route[q]
      BY <1>t, <1>9, <2>5 DEF ICApply
    <3>2. /\ route'[r].st = "live" /\ route'[r].owner \in {"here", "gone"}
          /\ route'[r].owner = "here" => ic.cur
      BY <3>1 DEF NewRoute
    <3>3. ic.cur => r \in ing
      BY <1>p, <1>9 DEF ICApply, Parts, Owned
    <3>4. Unaided' /\ Owned'
      BY <1>p, <2>1, <2>3, <3>1, <3>2, <3>3 DEF Parts, Unaided, Owned
    <3>5. Cleaning'
      BY <1>p, <2>2, <2>5, <3>1 DEF Parts, Cleaning
    <3>6. Counted'
      BY <1>p, <2>2, <2>3, <3>1 DEF Parts, Counted, Due
    <3> QED BY <3>4, <3>5, <3>6 DEF Parts
  <2> QED BY <2>4, <2>5
<1>10. ASSUME NEW r \in Route, ICEnsure(r) PROVE Parts'
  <2>1. /\ Ensure("ic", ic, r) /\ ic' = afterEnsure(ic, r)
        /\ UNCHANGED <<ing, route, hcq, hc, wh>>
    BY <1>10 DEF ICEnsure, clusterVars
  <2>2. ic'.pc # "apply"
    <3>1. ensurePlan(r) # "apply"
      BY DEF ensurePlan
    <3> QED BY <1>t, <1>i, <2>1, <3>1 DEF afterEnsure, Workers
  <2>3. /\ grant'.owner = grant.owner \/ grant'.owner = NoOwner
        /\ \/ grant' = grant
           \/ grant.st = "none"
           \/ grant.st = "ours" /\ grant'.st = "ours" /\ grant.src \subseteq grant'.src
    <3>1. CASE EnsureRead("ic", ic, r) \/ EnsureCreate("ic", ic, r)
      BY <3>1 DEF EnsureRead, EnsureCreate
    <3>2. CASE EnsureAdd("ic", ic, r)
      BY <1>t, <3>2 DEF EnsureAdd, UpdateAccepted, withSource, Grants, CopiesCurrent
    <3> QED BY <2>1, <3>1, <3>2, Zenon DEF Ensure
  <2>4. Unaided' /\ Owned' /\ Cleaning'
    BY <1>p, <2>1, <2>2, <2>3 DEF Parts, Unaided, Owned, Cleaning
  <2>5. Counted'
    BY <1>p, <2>1, <2>3 DEF Parts, Counted, Due
  <2> QED BY <2>4, <2>5 DEF Parts
<1>11. ASSUME NEW r \in Route, HCStart(r) PROVE Parts'
  <2>1. /\ route'[r].st = route[r].st /\ route'[r].owner = route[r].owner
        /\ \A q \in Route : q # r => route'[q] = route[q]
    BY <1>t, <1>11 DEF HCStart, HTTPRoutes
  <2>2. UNCHANGED <<grant, wh, ing, ic>> /\ hcq \ {r} \subseteq hcq'
    BY <1>11 DEF HCStart
  <2>3. /\ hc.pc = "idle"
        /\ hc'.pc = "idle" \/ (hc'.pc \in {"cleanup", "ensure"} /\ hc'.rt = {r})
        /\ hc'.pc = "cleanup" => route[r].st = "term"
        /\ route[r].st = "live" /\ r \in ing => hc'.pc = "ensure" /\ hc'.rt = {r}
    BY <1>11, <1>i DEF HCStart, Idle
  <2>4. Unaided' /\ Owned' /\ Cleaning'
    BY <1>p, <2>1, <2>2, <2>3 DEF Parts, Unaided, Owned, Cleaning
  <2>5. Counted'
    <3>1. \A q \in Route : Due(q)' <=> Due(q)
      BY <2>1 DEF Due
    <3>2. Due(r) => hc'.pc = "ensure" /\ hc'.rt = {r}
      BY <1>p, <2>3 DEF Parts, Owned, Due
    <3> QED BY <1>p, <2>2, <2>3, <3>1, <3>2 DEF Parts, Counted
  <2> QED BY <2>4, <2>5 DEF Parts
<1>12. ASSUME NEW r \in Route, HCEnsure(r) PROVE Parts'
  <2>1. /\ Ensure("hc", hc, r) /\ hc' = afterEnsure(hc, r)
        /\ UNCHANGED <<ing, route, hcq, ic, wh>>
    BY <1>12 DEF HCEnsure, clusterVars
  <2>2. hc.rt = {r} /\ hc.pc \in {"ensure", "create", "add"}
    BY <2>1, Zenon DEF Ensure, EnsureRead, EnsureCreate, EnsureAdd
  <2>3. hc'.pc \in {"idle", "ensure", "create", "add"} /\ (hc'.pc = "idle" \/ hc'.rt = {r})
    <3>1. ensurePlan(r) \in {"idle", "create", "add"}
      BY DEF ensurePlan
    <3> QED BY <1>t, <1>i, <2>1, <2>2, <3>1 DEF afterEnsure, Workers
  <2>4. /\ grant'.owner = grant.owner \/ grant'.owner = NoOwner
        /\ \/ grant' = grant
           \/ grant.st = "none"
           \/ grant.st = "ours" /\ grant'.st = "ours" /\ grant.src \subseteq grant'.src
        /\ hc'.pc = "idle" => grant'.st = "foreign" \/ (grant'.st = "ours" /\ r \in grant'.src)
    <3>1. CASE EnsureRead("hc", hc, r)
      <4>1. hc'.pc = "idle" => ensurePlan(r) = "idle"
        BY <1>t, <2>1, <3>1 DEF EnsureRead, afterEnsure, Workers
      <4>2. ensurePlan(r) = "idle" => grant.st = "foreign" \/ (grant.st = "ours" /\ r \in grant.src)
        BY <1>t DEF ensurePlan, Grants
      <4> QED BY <3>1, <4>1, <4>2 DEF EnsureRead
    <3>2. CASE EnsureCreate("hc", hc, r)
      <4>1. hc'.pc = "idle" => grant.st = "none"
        BY <1>t, <2>1, <3>2 DEF EnsureCreate, afterEnsure, Workers
      <4> QED BY <3>2, <4>1 DEF EnsureCreate
    <3>3. CASE EnsureAdd("hc", hc, r)
      BY <1>t, <3>3 DEF EnsureAdd, UpdateAccepted, withSource, Grants, CopiesCurrent, Calm
    <3> QED BY <2>1, <3>1, <3>2, <3>3, Zenon DEF Ensure
  <2>5. Unaided' /\ Owned' /\ Cleaning'
    BY <1>p, <2>1, <2>3, <2>4 DEF Parts, Unaided, Owned, Cleaning
  <2>6. Counted'
    BY <1>p, <2>1, <2>2, <2>3, <2>4 DEF Parts, Counted, Due
  <2> QED BY <2>5, <2>6 DEF Parts
<1>13. ASSUME NEW r \in Route, HCCleanup(r) PROVE Parts'
  <2>1. /\ UNCHANGED <<ing, route, grant, hcq, ic, wh>> /\ hc.pc = "cleanup" /\ hc.rt = {r}
        /\ hc'.pc = cleanupPlan(r) /\ hc'.rt = {r}
    BY <1>t, <1>13 DEF HCCleanup, clusterVars, Workers
  <2>2. route[r].st = "term"
    BY <1>p, <2>1 DEF Parts, Cleaning
  <2>3. Unaided' /\ Owned' /\ Cleaning'
    BY <1>p, <2>1, <2>2 DEF Parts, Unaided, Owned, Cleaning
  <2>4. hc'.pc = "delete" => grant.st = "ours" /\ grant.src \subseteq {r}
    BY <2>1 DEF cleanupPlan
  <2>5. Counted'
    BY <1>p, <2>1, <2>2, <2>4 DEF Parts, Counted, Due
  <2> QED BY <2>3, <2>5 DEF Parts
<1>14. CASE HCDelete
  <2>1. /\ UNCHANGED <<ing, route, hcq, ic, wh>> /\ hc.pc = "delete"
        /\ hc'.pc = "finalize" /\ hc'.rt = hc.rt /\ grant'.owner = NoOwner
    BY <1>t, <1>14 DEF HCDelete, clusterVars, Workers, NoGrant
  <2> QED BY <1>p, <2>1 DEF Parts, Unaided, Owned, Cleaning, Counted, Due
<1>15. CASE HCRemove
  <2>1. /\ UNCHANGED <<ing, route, hcq, ic, wh>> /\ hc.pc = "remove"
        /\ hc'.pc = "finalize" /\ hc'.rt = hc.rt
    BY <1>t, <1>15 DEF HCRemove, clusterVars, Workers
  <2>2. \/ grant' = grant
        \/ /\ grant.st = "ours" /\ grant'.st = "ours" /\ grant'.src = grant.src \ hc.rt
           /\ grant'.owner = grant.owner
    BY <1>t, <1>15 DEF HCRemove, UpdateAccepted, CopiesCurrent, Grants
  <2>3. PICK r \in Route : hc.rt = {r} /\ route[r].st = "term"
    BY <1>p, <2>1 DEF Parts, Cleaning
  <2>4. Unaided' /\ Owned' /\ Cleaning'
    BY <1>p, <2>1, <2>2 DEF Parts, Unaided, Owned, Cleaning
  <2>5. Counted'
    BY <1>p, <2>1, <2>2, <2>3 DEF Parts, Counted, Due
  <2> QED BY <2>4, <2>5 DEF Parts
<1>16. ASSUME NEW r \in Route, HCFinalize(r) PROVE Parts'
  <2>1. /\ UNCHANGED <<ing, grant, ic, wh>> /\ hcq \subseteq hcq'
        /\ hc'.pc = "idle" /\ hc.pc = "finalize"
        /\ \A q \in Route : route'[q] = route[q] \/ route'[q] = NoRoute
    BY <1>t, <1>16, <1>i DEF HCFinalize
  <2>2. \A q \in Route : Due(q)' => Due(q)
    BY <2>1, <1>i DEF Due
  <2>3. Unaided' /\ Owned' /\ Cleaning'
    BY <1>p, <1>i, <2>1 DEF Parts, Unaided, Owned, Cleaning
  <2>4. Counted'
    BY <1>p, <2>1, <2>2 DEF Parts, Counted
  <2> QED BY <2>3, <2>4 DEF Parts
<1>17. ASSUME NEW r \in Route, WHAdmit(r) \/ WHAnswer(r) PROVE FALSE
  BY <1>c, <1>p, <1>17 DEF WHAdmit, WHAnswer, Calm, Parts, Unaided
<1>18. ASSUME WHList \/ WHOwner \/ WHGet \/ WHWrite PROVE FALSE
  BY <1>p, <1>18 DEF WHList, WHOwner, WHGet, WHWrite, Parts, Unaided
<1>19. CASE UNCHANGED vars
  <2>1. UNCHANGED <<route, grant, wh, ing, hcq, ic, hc>>
    BY <1>19 DEF vars, clusterVars
  <2> QED BY <1>p, <2>1, CountFrame
<1>20. CASE Environment \/ IngressWorker
  BY <1>1, <1>2, <1>3, <1>4, <1>5, <1>6, <1>7, <1>8, <1>9, <1>10, <1>20 DEF Environment, IngressWorker
<1>21. CASE RouteWorker
  BY <1>11, <1>12, <1>13, <1>14, <1>15, <1>16, <1>21 DEF RouteWorker
<1>22. CASE Webhook
  BY <1>17, <1>18, <1>22 DEF Webhook
<1> QED BY <1>19, <1>20, <1>21, <1>22 DEF Next

\* When the workers have nothing left to do, the Gateway may read the Secrets of
\* every live TLS route, whatever the order in which ensureReferenceGrant and
\* cleanupReferenceGrant ran for the routes of the namespace.
THEOREM SecretsSafe == Spec => []SecretsReadable
<1>1. Init => CountInv
  BY DEF Init, CountInv, Calm, Unaided, Owned, Cleaning, Counted, Due,
         Idle, IdleHandler, NoRoute, NoGrant
<1>2. Spec => []CountInv
  BY <1>1, CountStep, InvariantHolds, PTL DEF Spec
<1>3. IInv /\ CountInv => SecretsReadable
  <2> SUFFICES ASSUME IInv, CountInv, Quiet, ~logged, admissions = 0, NEW r \in Tls,
                      r \in ing, route[r].st = "live", route[r].owner # "gone"
               PROVE  grant.st # "none"
    BY DEF SecretsReadable
  <2>1. r \in Route /\ route[r] \in HTTPRoutes
    BY DEF IInv, TypeOK
  <2>2. Unaided /\ Counted
    BY DEF CountInv, Calm
  <2>3. Due(r)
    BY <2>1, <2>2 DEF Due, Unaided, HTTPRoutes
  <2> QED BY <2>1, <2>2, <2>3 DEF Counted, Quiet
<1> QED BY <1>2, <1>3, InvariantHolds, PTL

=============================================================================
