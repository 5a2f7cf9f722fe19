----------------------- MODULE GatewaySyncRefinement -----------------------
(***************************************************************************)
(* GatewaySync implements SharedGateway, for every set of routes,          *)
(* hostnames, namespaces and timers and every bound.                       *)
(***************************************************************************)
EXTENDS GatewaySyncProofs

\* What a goroutine is about to write is what it would compute now: the
\* listeners of the current Gateway made to match the list it took.
CopiesExact ==
    /\ ic.pc = "write" /\ ic.copy.st = "none" => ic.copy.lst = NoListeners
    /\ \A t \in Timer : tm[t].pc = "write" /\ t \in fresh =>
          \E U \in SUBSET Host :
             tm[t].target = reconcileListenersToDesiredState(gw.lst,
                               calculateDesiredListenerState(tm[t].listed), U)

\* Copies stay exact: a change of the Gateway makes every copy outdated.
LEMMA ExactStep == IInv /\ CopiesExact /\ [Next]_vars => CopiesExact'
<1> SUFFICES ASSUME IInv, CopiesExact, [Next]_vars PROVE CopiesExact'
  OBVIOUS
<1> USE DEF IInv, TypeOK
<1>i. IdleIC.pc = "idle" /\ IdleTimer.pc = "idle"
  BY DEF IdleIC, IdleTimer
<1>c. ASSUME \/ ic' = ic \/ ic'.pc # "write"
             \/ ic'.copy = gw,
             \/ \A t \in Timer : t \notin fresh'
             \/ /\ gw' = gw
                /\ \A t \in Timer : tm'[t].pc = "write" /\ t \in fresh' => tm'[t] = tm[t] /\ t \in fresh
      PROVE  CopiesExact'
  BY <1>c DEF CopiesExact, CopiesCurrent
<1>1. ASSUME NEW r \in Route, NEW H \in SUBSET Host, UserApply(r, H) \/ UserDelete(r) PROVE CopiesExact'
  BY <1>1, <1>c DEF UserApply, UserDelete, timerVars
<1>2. ASSUME NEW H, NEW n, GatewayStatusWritten \/ UserTakesGateway \/ UserCreatesGateway(H, n)
      PROVE  CopiesExact'
  BY <1>2, <1>c DEF GatewayStatusWritten, UserTakesGateway, UserCreatesGateway, queueVars
<1>3. CASE Crash
  BY <1>3, <1>i, <1>c DEF Crash
<1>4. ASSUME NEW r \in Route, GarbageCollect(r) PROVE CopiesExact'
  BY <1>4, <1>c DEF GarbageCollect, timerVars
<1>5. ASSUME NEW r \in Route, ICStart(r) \/ ICApply(r) PROVE CopiesExact'
  <2>1. ic' = ic \/ ic'.pc # "write"
    BY <1>5, <1>i DEF ICStart, ICApply, IdleIC, Workers
  <2> QED BY <1>5, <2>1, <1>c DEF ICStart, ICApply, timerVars
<1>6. CASE ICReadGateway
  <2>1. ic'.pc # "write" \/ ic'.copy = gw
    BY <1>6, <1>i DEF ICReadGateway, Workers
  <2>2. gw' = gw /\ tm' = tm /\ \A t \in Timer : t \in fresh' => t \in fresh
    BY <1>6, TimerAssumption DEF ICReadGateway, timerVars
  <2> QED BY <2>1, <2>2, <1>c
<1>7. ASSUME NEW r \in Route, ICWriteGateway(r) PROVE CopiesExact'
  <2>1. \/ \A t \in Timer : t \notin fresh'
        \/ gw' = gw /\ \A t \in Timer : t \in fresh' => t \in fresh
    BY <1>7 DEF ICWriteGateway
  <2> QED BY <1>7, <2>1, <1>i, <1>c DEF ICWriteGateway, timerVars
<1>8. ASSUME NEW r \in Route, HCStart(r) \/ HCFinalize(r) PROVE CopiesExact'
  BY <1>8, <1>c DEF HCStart, HCFinalize, timerVars
<1>9. ASSUME NEW r \in Route, HCUpsert(r) \/ HCCleanup(r) PROVE CopiesExact'
  <2>1. /\ gw' = gw /\ fresh' = fresh /\ ic' = ic
        /\ scheduleGatewayUpdate \/ tm' = tm
    BY <1>9 DEF HCUpsert, HCCleanup, timerVars
  <2>2. \A t \in Timer : tm'[t].pc = "write" => tm'[t] = tm[t]
    BY <2>1, <1>i DEF scheduleGatewayUpdate, IdleTimer
  <2> QED BY <2>1, <2>2, <1>c
<1>10. ASSUME NEW r \in Route, HCCreate(r) PROVE CopiesExact'
  BY <1>10, <1>c DEF HCCreate, timerVars
<1>11. ASSUME NEW t \in Timer,
              TimerFires(t) \/ ExecStart(t) \/ ExecList(t) \/ ExecRefused(t) \/ ExecCheck(t)
       PROVE  CopiesExact'
  <2>1. gw' = gw /\ fresh' = fresh /\ ic' = ic
    BY <1>11 DEF TimerFires, ExecStart, ExecList, ExecRefused, ExecCheck, queueVars
  <2>2. \A u \in Timer : u # t => tm'[u] = tm[u]
    BY <1>11 DEF TimerFires, ExecStart, ExecList, ExecRefused, ExecCheck
  <2>3. tm'[t].pc # "write"
    <3>1. tm[t] \in Timers
      OBVIOUS
    <3>2. CASE TimerFires(t) \/ ExecStart(t) \/ ExecList(t) \/ ExecCheck(t)
      BY <3>1, <3>2 DEF TimerFires, ExecStart, ExecList, ExecCheck, Timers
    <3>3. CASE ExecRefused(t)
      BY <3>1, <3>3, <1>i DEF ExecRefused, Timers
    <3> QED BY <1>11, <3>2, <3>3
  <2> QED BY <2>1, <2>2, <2>3, <1>c
<1>12. ASSUME NEW t \in Timer, ExecGet(t) PROVE CopiesExact'
  <2> DEFINE U == tlsUnknown(tm[t].listed)
             new == reconcileListenersToDesiredState(gw.lst,
                       calculateDesiredListenerState(tm[t].listed), U)
  <2>0. gw' = gw /\ ic' = ic
    BY <1>12 DEF ExecGet, queueVars
  <2>1. CASE gw.st = "ours" /\ new # gw.lst
    <3>1. tm' = [tm EXCEPT ![t] = [tm[t] EXCEPT !.pc = "write", !.target = new]]
          /\ fresh' = fresh \cup {t}
      BY <1>12, <2>1 DEF ExecGet
    <3>2. U \in SUBSET Host
      BY DEF tlsUnknown
    <3> HIDE DEF new
    <3>3. tm'[t].listed = tm[t].listed /\ tm'[t].target = new
      BY <3>1 DEF Timers
    <3>4. \A u \in Timer : u # t => tm'[u] = tm[u] /\ (u \in fresh' => u \in fresh)
      BY <3>1
    <3>5. tm'[t].target = reconcileListenersToDesiredState(gw'.lst,
                       calculateDesiredListenerState(tm'[t].listed), U)
      BY <3>3, <2>0 DEF new
    <3> QED BY <2>0, <3>2, <3>4, <3>5 DEF CopiesExact
  <2>2. CASE ~(gw.st = "ours" /\ new # gw.lst)
    <3>1. tm' = [tm EXCEPT ![t] = IdleTimer] /\ fresh' = fresh
      BY <1>12, <2>2 DEF ExecGet
    <3> QED BY <2>0, <3>1, <1>i, <1>c
  <2> QED BY <2>1, <2>2
<1>13. ASSUME NEW t \in Timer, ExecWrite(t) \/ ExecDelete(t) PROVE CopiesExact'
  BY <1>13, <1>c DEF ExecWrite, ExecDelete, queueVars
<1>14. CASE UNCHANGED vars
  BY <1>14, <1>c DEF vars, queueVars, timerVars
<1> QED BY <1>1, <1>2, <1>3, <1>4, <1>5, <1>6, <1>7, <1>8, <1>9, <1>10, <1>11, <1>12, <1>13, <1>14
        DEF Next, Environment, Collector, IngressWorker, RouteWorker, Debouncer

-----------------------------------------------------------------------------
\* A step that leaves the Gateway and the timers alone at most changes routes.
LEMMA RoutesOnly ==
    ASSUME TypeOK', gw' = gw, tm' = tm
    PROVE  Shared!Next
<1>1. [r \in Route |-> IF route[r].st = "live" THEN route[r].hosts ELSE {}]' \in [Route -> SUBSET Host]
  BY DEF TypeOK, HTTPRoutes
<1>2. Shared!RoutesChange
  BY <1>1 DEF Shared!RoutesChange
<1> QED BY <1>2 DEF Shared!Next

\* Timers that go idle drop their lists.
LEMMA ListsDropped ==
    ASSUME \A t \in Timer : tm'[t].listed \in {tm[t].listed, NoList}
    PROVE  Shared!Forget
<1> DEFINE S == {t \in Timer : tm'[t].listed = NoList}
<1>1. [t \in Timer |-> tm[t].listed]' = [t \in Timer |-> IF t \in S THEN NoList ELSE [u \in Timer |-> tm[u].listed][t]]
  OBVIOUS
<1>2. S \in SUBSET Timer
  OBVIOUS
<1> HIDE DEF S
<1> QED BY <1>1, <1>2 DEF Shared!Forget, Shared!NoList, NoList

\* A step of the timers that takes no list and writes nothing may drop lists.
LEMMA ListsOnly ==
    ASSUME gw' = gw, route' = route, \A t \in Timer : tm'[t].listed \in {tm[t].listed, NoList}
    PROVE  Shared!Next
<1>1. Shared!Drop
  BY ListsDropped DEF Shared!Drop
<1> QED BY <1>1 DEF Shared!Next

\* The computations of the two modules are the same.
LEMMA SameListeners ==
    /\ \A lst, H, n : updateGatewayListeners(lst, H, n) = Shared!merged(lst, H, n)
    /\ \A lst, L, U : reconcileListenersToDesiredState(lst, calculateDesiredListenerState(L), U)
                        = Shared!matching(lst, L, U)
    /\ NoGateway = Shared!NoGateway /\ NoList = Shared!NoList
BY DEF updateGatewayListeners, addNamespaceToListener, Shared!merged,
       reconcileListenersToDesiredState, calculateDesiredListenerState, Shared!matching,
       NoGateway, NoListeners, Shared!NoGateway, NoList, Shared!NoList

\* Every step is one of SharedGateway, or changes none of its variables.
LEMMA Simulation ==
    IInv /\ CopiesExact /\ [Next]_vars => [Shared!Next]_(Shared!vars)
<1> SUFFICES ASSUME IInv, CopiesExact, [Next]_vars PROVE Shared!Next \/ UNCHANGED Shared!vars
  OBVIOUS
<1>0. TypeOK /\ TypeOK'
  BY TypeStep DEF IInv
<1>t. \A t \in Timer : tm[t] \in Timers
  BY <1>0 DEF TypeOK
<1>i. IdleTimer.listed = NoList
  BY DEF IdleTimer
<1>1. ASSUME NEW r \in Route, NEW H \in SUBSET Host,
             UserApply(r, H) \/ UserDelete(r) \/ GarbageCollect(r) \/ ICStart(r) \/ ICApply(r)
      PROVE  Shared!Next
  BY <1>0, <1>1, RoutesOnly
     DEF UserApply, UserDelete, GarbageCollect, ICStart, ICApply, timerVars
<1>2. CASE GatewayStatusWritten \/ ICReadGateway
  BY <1>0, <1>2, RoutesOnly DEF GatewayStatusWritten, ICReadGateway, timerVars
<1>3. ASSUME NEW H \in SUBSET Host, NEW n \in Namespace, UserCreatesGateway(H, n) PROVE Shared!Next
  <2>1. gw.lst = NoListeners
    BY <1>3 DEF UserCreatesGateway, IInv, CopiesCurrent
  <2>2. Shared!UserCreates(H, n)
    BY <1>3, <2>1, SameListeners DEF UserCreatesGateway, Shared!UserCreates, clusterVars, timerVars
  <2> QED BY <2>2 DEF Shared!Next
<1>4. CASE UserTakesGateway
  <2>1. Shared!UserTakes
    BY <1>4 DEF UserTakesGateway, Shared!UserTakes, clusterVars, timerVars
  <2> QED BY <2>1 DEF Shared!Next
<1>5. CASE Crash
  BY <1>5, <1>i, ListsOnly DEF Crash, clusterVars
<1>6. ASSUME NEW r \in Route, ICWriteGateway(r) PROVE Shared!Next
  <2> DEFINE merged == updateGatewayListeners(ic.copy.lst, ic.hosts, RouteNs[r])
  <2>1. CASE gw' = gw
    BY <1>0, <1>6, <2>1, RoutesOnly DEF ICWriteGateway, timerVars
  <2>2. CASE gw' # gw
    <3>1. IngressWriteAccepted /\ gw' = [st |-> "ours", lst |-> merged]
      BY <1>6, <2>2 DEF ICWriteGateway
    <3>2. gw.lst = ic.copy.lst /\ gw.st # "foreign"
      BY <1>6, <3>1 DEF ICWriteGateway, IngressWriteAccepted, IInv, CopiesCurrent, CopiesExact
    <3>3. ic.hosts \in SUBSET Host
      BY <1>0 DEF TypeOK, Workers
    <3>4. route' = route /\ tm' = tm
      BY <1>6 DEF ICWriteGateway, clusterVars, timerVars
    <3>5. Shared!Merge(r, ic.hosts)
      BY <3>1, <3>2, <3>4, SameListeners DEF Shared!Merge
    <3> QED BY <3>3, <3>5 DEF Shared!Next
  <2> QED BY <2>1, <2>2
<1>7. ASSUME NEW r \in Route, HCStart(r) \/ HCFinalize(r) PROVE Shared!Next
  BY <1>0, <1>7, RoutesOnly DEF HCStart, HCFinalize, timerVars
<1>8. ASSUME NEW r \in Route, HCUpsert(r) \/ HCCleanup(r) PROVE Shared!Next
  <2>1. gw' = gw /\ route' = route /\ (scheduleGatewayUpdate \/ tm' = tm)
    BY <1>8 DEF HCUpsert, HCCleanup, clusterVars, timerVars
  <2>2. \A t \in Timer : tm'[t].listed \in {tm[t].listed, NoList}
    BY <2>1, <1>i DEF scheduleGatewayUpdate, IdleTimer
  <2> QED BY <2>1, <2>2, ListsOnly
<1>9. ASSUME NEW r \in Route, HCCreate(r) PROVE Shared!Next
  <2>1. CASE gw' = gw
    BY <1>0, <1>9, <2>1, RoutesOnly DEF HCCreate, timerVars
  <2>2. CASE gw' # gw
    <3>1. gw.st = "none" /\ gw.lst = NoListeners
      BY <1>9, <2>2 DEF HCCreate, IInv, CopiesCurrent
    <3>2. hc.seen.hosts \in SUBSET Host
      BY <1>0 DEF TypeOK, RouteWorkers, HTTPRoutes
    <3>3. Shared!Merge(r, hc.seen.hosts)
      BY <1>9, <3>1, SameListeners DEF HCCreate, Shared!Merge, clusterVars, timerVars
    <3> QED BY <3>2, <3>3 DEF Shared!Next
  <2> QED BY <2>1, <2>2
<1>10. ASSUME NEW t \in Timer, TimerFires(t) \/ ExecStart(t) \/ ExecCheck(t) PROVE Shared!Next
  <2>1. gw' = gw /\ route' = route /\ \A u \in Timer : tm'[u].listed = tm[u].listed
    BY <1>0, <1>t, <1>10 DEF TimerFires, ExecStart, ExecCheck, clusterVars, TypeOK, Timers
  <2> QED BY <2>1, ListsOnly
<1>11. ASSUME NEW t \in Timer, ExecList(t) PROVE Shared!Next
  <2> DEFINE l == [r \in Route |-> IF route[r].st = "live" THEN route[r].hosts ELSE {}]
  <2>1. tm' = [tm EXCEPT ![t] = [tm[t] EXCEPT !.pc = "get", !.listed = l]]
    BY <1>11 DEF ExecList
  <2>2. tm'[t].listed = l /\ \A u \in Timer : u # t => tm'[u] = tm[u]
    BY <1>0, <1>t, <2>1 DEF TypeOK, Timers
  <2>3. [u \in Timer |-> tm[u].listed]' = [[u \in Timer |-> tm[u].listed] EXCEPT ![t] = l]
    <3> HIDE DEF l
    <3> QED BY <2>2
  <2>4. Shared!TakeList(t)
    BY <1>11, <2>3 DEF ExecList, Shared!TakeList, clusterVars
  <2> QED BY <2>4 DEF Shared!Next
<1>12. ASSUME NEW t \in Timer, ExecGet(t) \/ ExecRefused(t) PROVE Shared!Next
  <2>1. gw' = gw /\ route' = route /\ \A u \in Timer : u # t => tm'[u] = tm[u]
    BY <1>0, <1>12 DEF ExecGet, ExecRefused, clusterVars, TypeOK
  <2>2. tm'[t].listed \in {tm[t].listed, NoList}
    <3>1. CASE ExecGet(t)
      BY <1>0, <1>t, <1>i, <3>1 DEF ExecGet, TypeOK, Timers
    <3>2. CASE ExecRefused(t)
      <4>1. \/ tm'[t] = IdleTimer
            \/ tm'[t] = [tm[t] EXCEPT !.pc = "get", !.try = tm[t].try + 1]
        BY <1>0, <3>2 DEF ExecRefused, TypeOK
      <4> QED BY <1>t, <1>i, <4>1 DEF Timers
    <3> QED BY <1>12, <3>1, <3>2
  <2> QED BY <2>1, <2>2, ListsOnly
<1>13. ASSUME NEW t \in Timer, ExecWrite(t) PROVE Shared!Next
  <2>1. PICK U \in SUBSET Host :
           tm[t].target = reconcileListenersToDesiredState(gw.lst,
                             calculateDesiredListenerState(tm[t].listed), U)
    BY <1>13 DEF ExecWrite, CopiesExact
  <2>2. gw.st = "ours"
    BY <1>13 DEF ExecWrite, IInv, CopiesCurrent
  <2>3. gw' = [st |-> "ours", lst |-> Shared!matching(gw.lst, tm[t].listed, U)]
    BY <1>0, <1>13, <2>1, <2>2, SameListeners DEF ExecWrite, TypeOK, Gateways
  <2>4. Shared!Forget
    BY <1>0, <1>13, ListsDropped DEF ExecWrite, AfterUpdate, IdleTimer, TypeOK
  <2>5. route' = route
    BY <1>13 DEF ExecWrite, clusterVars
  <2>6. Shared!Match(t)
    BY <2>2, <2>3, <2>4, <2>5 DEF Shared!Match
  <2> QED BY <2>6 DEF Shared!Next
<1>14. ASSUME NEW t \in Timer, ExecDelete(t) PROVE Shared!Next
  <2>1. Shared!Forget
    BY <1>0, <1>14, <1>i, ListsDropped DEF ExecDelete, TypeOK
  <2>2. Shared!Delete
    BY <1>14, <2>1, SameListeners DEF ExecDelete, Shared!Delete, clusterVars
  <2> QED BY <2>2 DEF Shared!Next
<1>15. CASE UNCHANGED vars
  BY <1>0, <1>15, RoutesOnly DEF vars, timerVars
<1> QED BY <1>1, <1>2, <1>3, <1>4, <1>5, <1>6, <1>7, <1>8, <1>9, <1>10, <1>11, <1>12, <1>13, <1>14, <1>15
        DEF Next, Environment, Collector, IngressWorker, RouteWorker, Debouncer

\* No update is lost: the two reconcilers and the debounced goroutines, which
\* read, compute and write in separate steps, implement atomic merges of a
\* route's hostnames and atomic matches with a true list of routes.
THEOREM Refinement == Spec => WritesAreAtomic
<1>1. Init => CopiesExact
  BY DEF Init, CopiesExact, IdleIC, IdleTimer
<1>2. Spec => []CopiesExact
  BY <1>1, ExactStep, InvariantHolds, PTL DEF Spec
<1>3. Init => Shared!Init
  BY SameListeners DEF Init, Shared!Init, NoRoute, NoList, IdleTimer
<1> QED BY <1>2, <1>3, Simulation, InvariantHolds, PTL DEF Spec, WritesAreAtomic, Shared!Spec

=============================================================================
