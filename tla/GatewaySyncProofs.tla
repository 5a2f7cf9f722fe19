------------------------- MODULE GatewaySyncProofs -------------------------
(***************************************************************************)
(* Theorems about GatewaySync, for every set of routes, hostnames,         *)
(* namespaces and timers and every bound.                                  *)
(***************************************************************************)
EXTENDS GatewaySync, TLAPS

USE RouteNsAssumption, TimerAssumption, BoundAssumption

\* The listener computations return listeners.
LEMMA MergeType ==
    ASSUME NEW lst \in Listeners, NEW hosts \in SUBSET Host, NEW ns \in Namespace
    PROVE  /\ updateGatewayListeners(lst, hosts, ns) \in Listeners
           /\ \A h \in Host : lst[h] \subseteq updateGatewayListeners(lst, hosts, ns)[h]
BY DEF updateGatewayListeners, addNamespaceToListener, Listeners

\* The desired state of a list names every listed route's namespace.
LEMMA DesiredType ==
    ASSUME NEW rts \in Lists
    PROVE  /\ calculateDesiredListenerState(rts) \in Listeners
           /\ \A r \in Route : \A h \in rts[r] :
                 RouteNs[r] \in calculateDesiredListenerState(rts)[h]
BY DEF calculateDesiredListenerState, Listeners, Lists

\* Reconciling keeps a desired listener that exists.
LEMMA ReconciledType ==
    ASSUME NEW lst \in Listeners, NEW desired \in Listeners, NEW unknown
    PROVE  /\ reconcileListenersToDesiredState(lst, desired, unknown) \in Listeners
           /\ \A h \in Host : lst[h] # {} =>
                 reconcileListenersToDesiredState(lst, desired, unknown)[h] = desired[h]
BY DEF reconcileListenersToDesiredState, Listeners

\* The initial and idle values have their types.
LEMMA IdleTypes ==
    /\ NoListeners \in Listeners
    /\ NoGateway \in Gateways
    /\ NoRoute \in HTTPRoutes
    /\ IdleIC \in Workers
    /\ IdleHC \in RouteWorkers
    /\ IdleTimer \in Timers
<1>1. NoListeners \in Listeners
  BY DEF NoListeners, Listeners
<1>2. NoGateway \in Gateways
  BY <1>1 DEF NoGateway, Gateways
<1>3. NoRoute \in HTTPRoutes
  BY DEF NoRoute, HTTPRoutes
<1>4. IdleIC \in Workers
  BY <1>2, <1>3 DEF IdleIC, Workers
<1>5. IdleHC \in RouteWorkers
  BY <1>3 DEF IdleHC, RouteWorkers
<1>6. IdleTimer \in Timers
  BY <1>1 DEF IdleTimer, Timers, Lists, NoList, Attempts
<1> QED BY <1>1, <1>2, <1>3, <1>4, <1>5, <1>6

\* Scheduling keeps the types of the debouncer's state.
LEMMA ScheduleType ==
    ASSUME tm \in [Timer -> Timers], scheduleGatewayUpdate
    PROVE  entry' \in Timer /\ tm' \in [Timer -> Timers]
<1>1. [IdleTimer EXCEPT !.pc = "armed"] \in Timers
  BY IdleTypes DEF Timers
<1> QED BY <1>1, IdleTypes DEF scheduleGatewayUpdate

\* TypeOK is preserved by every step.
LEMMA TypeStep == TypeOK /\ [Next]_vars => TypeOK'
<1> SUFFICES ASSUME TypeOK, [Next]_vars PROVE TypeOK'
  OBVIOUS
<1> USE DEF TypeOK, clusterVars, queueVars, timerVars, envVars
<1>1. ASSUME NEW r \in Route, NEW H \in SUBSET Host, UserApply(r, H) PROVE TypeOK'
  BY <1>1 DEF UserApply, Exists
<1>2. ASSUME NEW r \in Route, UserDelete(r) PROVE TypeOK'
  BY <1>2 DEF UserDelete
<1>3. CASE GatewayStatusWritten
  BY <1>3 DEF GatewayStatusWritten
<1>4. ASSUME NEW H \in SUBSET Host, NEW n \in Namespace, UserCreatesGateway(H, n) PROVE TypeOK'
  <2>1. updateGatewayListeners(NoListeners, H, n) \in Listeners
    BY IdleTypes, MergeType
  <2> QED BY <1>4, <2>1 DEF UserCreatesGateway, Gateways
<1>5. CASE UserTakesGateway
  BY <1>5 DEF UserTakesGateway, Gateways
<1>6. CASE Crash
  BY <1>6, IdleTypes DEF Crash
<1>7. ASSUME NEW r \in Route, GarbageCollect(r) PROVE TypeOK'
  BY <1>7, IdleTypes DEF GarbageCollect, HTTPRoutes
<1>8. ASSUME NEW r \in Route, ICStart(r) PROVE TypeOK'
  BY <1>8, IdleTypes DEF ICStart, Workers, Exists
<1>9. ASSUME NEW r \in Route, ICApply(r) PROVE TypeOK'
  <2>1. route[r] \in HTTPRoutes /\ ic.hosts \in SUBSET Host /\ ic.uid \in Nat
    BY DEF Workers
  <2>2. /\ [st |-> "live", hosts |-> ic.hosts, fin |-> FALSE, uid |-> ic.uid] \in HTTPRoutes
        /\ [route[r] EXCEPT !.hosts = ic.hosts] \in HTTPRoutes
    BY <2>1 DEF HTTPRoutes
  <2>3. [ic EXCEPT !.pc = "read"] \in Workers
    BY DEF Workers
  <2> DEFINE new == IF route[r].st = "none"
                    THEN [st |-> "live", hosts |-> ic.hosts, fin |-> FALSE, uid |-> ic.uid]
                    ELSE [route[r] EXCEPT !.hosts = ic.hosts]
  <2>5. new \in HTTPRoutes
    BY <2>2
  <2>4. route' \in [Route -> HTTPRoutes]
    <3>1. route' = route \/ route' = [route EXCEPT ![r] = new]
      BY <1>9 DEF ICApply
    <3> HIDE DEF new
    <3> QED BY <3>1, <2>5
  <2>6. ic' \in Workers /\ icq' \subseteq Route /\ hcq' \subseteq Route
    BY <1>9, <2>3, IdleTypes DEF ICApply
  <2> QED BY <1>9, <2>4, <2>6 DEF ICApply
<1>10. CASE ICReadGateway
  BY <1>10, IdleTypes DEF ICReadGateway, Workers
<1>11. ASSUME NEW r \in Route, ICWriteGateway(r) PROVE TypeOK'
  <2> DEFINE merged == updateGatewayListeners(ic.copy.lst, ic.hosts, RouteNs[r])
  <2>1. ic.copy.lst \in Listeners /\ ic.hosts \in SUBSET Host /\ RouteNs[r] \in Namespace
    BY DEF Workers, Gateways
  <2>2. merged \in Listeners
    BY <2>1, MergeType
  <2>3. [st |-> "ours", lst |-> merged] \in Gateways
    BY <2>2 DEF Gateways
  <2> HIDE DEF merged
  <2>4. gw' \in Gateways /\ icq' \subseteq Route /\ fresh' \subseteq Timer \cup {"ic"}
    BY <1>11, <2>3 DEF ICWriteGateway, merged
  <2> QED BY <1>11, <2>4, IdleTypes DEF ICWriteGateway
<1>12. ASSUME NEW r \in Route, HCStart(r) PROVE TypeOK'
  <2>0. route[r] \in HTTPRoutes
    OBVIOUS
  <2>1. [route[r] EXCEPT !.fin = TRUE] \in HTTPRoutes
    BY <2>0 DEF HTTPRoutes
  <2>2. CASE route[r].st = "none"
    BY <1>12, <2>2 DEF HCStart
  <2>3. CASE route[r].st # "none"
    <3>1. route' \in [Route -> HTTPRoutes] /\ route'[r] \in HTTPRoutes
      BY <1>12, <2>1, <2>3 DEF HCStart
    <3>2. hc' \in RouteWorkers /\ hcq' \subseteq Route
      BY <1>12, <2>3, <3>1 DEF HCStart, RouteWorkers
    <3> QED BY <1>12, <3>1, <3>2 DEF HCStart
  <2> QED BY <2>2, <2>3
<1>13. ASSUME NEW r \in Route, HCUpsert(r) PROVE TypeOK'
  <2>1. [hc EXCEPT !.pc = "create"] \in RouteWorkers
    BY DEF RouteWorkers
  <2>2. hc' \in RouteWorkers
    BY <1>13, <2>1, IdleTypes DEF HCUpsert
  <2>3. entry' \in Timer \cup {NoTimer} /\ tm' \in [Timer -> Timers]
    BY <1>13, ScheduleType DEF HCUpsert
  <2> QED BY <1>13, <2>2, <2>3 DEF HCUpsert
<1>14. ASSUME NEW r \in Route, HCCreate(r) PROVE TypeOK'
  <2> DEFINE merged == updateGatewayListeners(NoListeners, hc.seen.hosts, RouteNs[r])
  <2>1. hc.seen.hosts \in SUBSET Host /\ RouteNs[r] \in Namespace
    BY DEF RouteWorkers, HTTPRoutes
  <2>2. merged \in Listeners
    BY <2>1, IdleTypes, MergeType
  <2>3. [st |-> "ours", lst |-> merged] \in Gateways
    BY <2>2 DEF Gateways
  <2> HIDE DEF merged
  <2>4. gw' \in Gateways /\ hcq' \subseteq Route /\ fresh' \subseteq Timer \cup {"ic"}
    BY <1>14, <2>3 DEF HCCreate, merged
  <2> QED BY <1>14, <2>4, IdleTypes DEF HCCreate
<1>15. ASSUME NEW r \in Route, HCCleanup(r) PROVE TypeOK'
  <2>1. [hc EXCEPT !.pc = "finalize"] \in RouteWorkers
    BY DEF RouteWorkers
  <2>2. entry' \in Timer \cup {NoTimer} /\ tm' \in [Timer -> Timers]
    BY <1>15, ScheduleType DEF HCCleanup
  <2> QED BY <1>15, <2>1, <2>2 DEF HCCleanup
<1>16. ASSUME NEW r \in Route, HCFinalize(r) PROVE TypeOK'
  BY <1>16, IdleTypes DEF HCFinalize
<1>17. ASSUME NEW t \in Timer, TimerFires(t) PROVE TypeOK'
  BY <1>17 DEF TimerFires, Timers
<1>18. ASSUME NEW t \in Timer, ExecStart(t) PROVE TypeOK'
  BY <1>18 DEF ExecStart, Timers
<1>19. ASSUME NEW t \in Timer, ExecList(t) PROVE TypeOK'
  <2> DEFINE l == [r \in Route |-> IF route[r].st = "live" THEN route[r].hosts ELSE {}]
  <2>1. l \in Lists
    BY DEF Lists, HTTPRoutes
  <2>2. tm' = [tm EXCEPT ![t].pc = "get", ![t].listed = l]
    BY <1>19 DEF ExecList
  <2> HIDE DEF l
  <2>3. tm[t] \in Timers
    OBVIOUS
  <2>4. [tm[t] EXCEPT !.pc = "get", !.listed = l] \in Timers
    BY <2>1, <2>3 DEF Timers
  <2>5. tm' = [tm EXCEPT ![t] = [tm[t] EXCEPT !.pc = "get", !.listed = l]]
    BY <2>2
  <2>6. tm' \in [Timer -> Timers]
    BY <2>4, <2>5
  <2> QED BY <1>19, <2>6 DEF ExecList
<1>20. ASSUME NEW t \in Timer, ExecGet(t) PROVE TypeOK'
  <2> DEFINE desired == calculateDesiredListenerState(tm[t].listed)
             new == reconcileListenersToDesiredState(gw.lst, desired, tlsUnknown(tm[t].listed))
  <2>1. gw.lst \in Listeners /\ tm[t].listed \in Lists
    BY DEF Gateways, Timers
  <2>2. desired \in Listeners
    BY <2>1, DesiredType
  <2>3. new \in Listeners
    BY <2>1, <2>2, ReconciledType
  <2> HIDE DEF new
  <2>6. tm[t] \in Timers
    OBVIOUS
  <2>4. [tm[t] EXCEPT !.pc = "write", !.target = new] \in Timers
    BY <2>3, <2>6 DEF Timers
  <2>7. \/ tm' = [tm EXCEPT ![t] = [tm[t] EXCEPT !.pc = "write", !.target = new]]
        \/ tm' = [tm EXCEPT ![t] = IdleTimer]
    BY <1>20 DEF ExecGet, new
  <2>8. fresh' \subseteq Timer \cup {"ic"}
    BY <1>20 DEF ExecGet
  <2>5. tm' \in [Timer -> Timers] /\ fresh' \subseteq Timer \cup {"ic"}
    BY <2>4, <2>7, <2>8, IdleTypes
  <2> QED BY <1>20, <2>5 DEF ExecGet
<1>21. ASSUME NEW t \in Timer, ExecWrite(t) PROVE TypeOK'
  BY <1>21, IdleTypes DEF ExecWrite, AfterUpdate, Timers, Gateways
<1>22. ASSUME NEW t \in Timer, ExecRefused(t) PROVE TypeOK'
  <2>1. tm[t] \in Timers
    OBVIOUS
  <2>2. tm[t].try + 1 < Attempts => [tm[t] EXCEPT !.pc = "get", !.try = tm[t].try + 1] \in Timers
    <3> DEFINE k == tm[t].try + 1
    <3>1. tm[t].try \in 0..Attempts
      BY <2>1 DEF Timers
    <3>2. k < Attempts => k \in 0..Attempts
      BY <3>1 DEF Attempts
    <3> HIDE DEF k
    <3>3. k \in 0..Attempts => [tm[t] EXCEPT !.pc = "get", !.try = k] \in Timers
      BY <2>1 DEF Timers
    <3> QED BY <3>2, <3>3 DEF k
  <2> DEFINE new == IF gw.st # "none" /\ tm[t].try + 1 < Attempts
                    THEN [tm[t] EXCEPT !.pc = "get", !.try = tm[t].try + 1] ELSE IdleTimer
  <2>3. new \in Timers
    BY <2>2, IdleTypes
  <2>4. tm' = [tm EXCEPT ![t] = new]
    BY <1>22 DEF ExecRefused
  <2> HIDE DEF new
  <2>5. tm' \in [Timer -> Timers]
    BY <2>3, <2>4
  <2> QED BY <1>22, <2>5 DEF ExecRefused
<1>23. ASSUME NEW t \in Timer, ExecCheck(t) PROVE TypeOK'
  BY <1>23 DEF ExecCheck, Timers
<1>24. ASSUME NEW t \in Timer, ExecDelete(t) PROVE TypeOK'
  BY <1>24, IdleTypes DEF ExecDelete
<1>25. CASE UNCHANGED vars
  BY <1>25 DEF vars
<1> QED
  BY <1>1, <1>2, <1>3, <1>4, <1>5, <1>6, <1>7, <1>8, <1>9, <1>10, <1>11, <1>12, <1>13, <1>14, <1>15, <1>16, <1>17, <1>18, <1>19, <1>20, <1>21, <1>22, <1>23, <1>24, <1>25
     DEF Next, Environment, Collector, IngressWorker, RouteWorker, Debouncer

-----------------------------------------------------------------------------
(* The inductive invariant behind the action properties.                   *)

\* A writer that is fresh holds the Gateway as it is; the copies it writes
\* from are never of a foreign Gateway; no Gateway has no listeners.
CopiesCurrent ==
    /\ gw.st = "none" => gw.lst = NoListeners
    /\ ic.pc = "write" => ic.copy.st # "foreign"
    /\ ic.pc = "write" /\ "ic" \in fresh => ic.copy = gw
    /\ \A t \in Timer : tm[t].pc = "write" /\ t \in fresh =>
          /\ gw.st = "ours"
          /\ \A r \in Route : \A h \in tm[t].listed[r] :
                gw.lst[h] # {} => RouteNs[r] \in tm[t].target[h]

IInv == TypeOK /\ CopiesCurrent

\* The inductive invariant holds at the start.
LEMMA InitIInv == Init => IInv
<1> SUFFICES ASSUME Init PROVE IInv
  OBVIOUS
<1>1. TypeOK
  BY IdleTypes DEF Init, TypeOK
<1>2. CopiesCurrent
  BY DEF Init, CopiesCurrent, NoGateway, IdleIC, IdleTimer
<1> QED BY <1>1, <1>2 DEF IInv

\* Every step keeps the copies of the writers in `fresh' current.
LEMMA CopiesStep == IInv /\ [Next]_vars => CopiesCurrent'
<1> SUFFICES ASSUME IInv, [Next]_vars PROVE CopiesCurrent'
  OBVIOUS
<1>0. TypeOK'
  BY TypeStep DEF IInv
<1> USE DEF IInv, TypeOK, CopiesCurrent, clusterVars, queueVars, timerVars, envVars
<1>1. ASSUME NEW r \in Route, NEW H \in SUBSET Host, UserApply(r, H) PROVE CopiesCurrent'
  BY <1>1 DEF UserApply
<1>2. ASSUME NEW r \in Route, UserDelete(r) PROVE CopiesCurrent'
  BY <1>2 DEF UserDelete
<1>3. CASE GatewayStatusWritten
  BY <1>3 DEF GatewayStatusWritten
<1>4. ASSUME NEW H \in SUBSET Host, NEW n \in Namespace, UserCreatesGateway(H, n) PROVE CopiesCurrent'
  BY <1>4 DEF UserCreatesGateway
<1>5. CASE UserTakesGateway
  BY <1>5 DEF UserTakesGateway
<1>6. CASE Crash
  BY <1>6 DEF Crash, IdleIC, IdleTimer
<1>7. ASSUME NEW r \in Route, GarbageCollect(r) PROVE CopiesCurrent'
  BY <1>7 DEF GarbageCollect
<1>8. ASSUME NEW r \in Route, ICStart(r) PROVE CopiesCurrent'
  BY <1>8 DEF ICStart, IdleIC
<1>9. ASSUME NEW r \in Route, ICApply(r) PROVE CopiesCurrent'
  BY <1>9 DEF ICApply, IdleIC, Workers
<1>10. CASE ICReadGateway
  <2>1. \A t \in Timer : t \in fresh' => t \in fresh
    BY <1>10 DEF ICReadGateway
  <2>2. tm' = tm /\ gw' = gw
    BY <1>10 DEF ICReadGateway
  <2>3. CASE gw.st = "foreign"
    BY <1>10, <2>1, <2>2, <2>3 DEF ICReadGateway, IdleIC
  <2>4. CASE gw.st # "foreign"
    <3>1. ic \in Workers
      OBVIOUS
    <3>2. ic'.copy = gw
      BY <1>10, <2>4, <3>1 DEF ICReadGateway, Workers
    <3> QED BY <2>1, <2>2, <2>4, <3>2
  <2> QED BY <2>3, <2>4
<1>11. ASSUME NEW r \in Route, ICWriteGateway(r) PROVE CopiesCurrent'
  BY <1>11 DEF ICWriteGateway, IdleIC
<1>12. ASSUME NEW r \in Route, HCStart(r) PROVE CopiesCurrent'
  BY <1>12 DEF HCStart
<1>13. ASSUME NEW r \in Route, HCUpsert(r) PROVE CopiesCurrent'
  BY <1>13 DEF HCUpsert, scheduleGatewayUpdate, IdleTimer
<1>14. ASSUME NEW r \in Route, HCCreate(r) PROVE CopiesCurrent'
  BY <1>14 DEF HCCreate
<1>15. ASSUME NEW r \in Route, HCCleanup(r) PROVE CopiesCurrent'
  BY <1>15 DEF HCCleanup, scheduleGatewayUpdate, IdleTimer
<1>16. ASSUME NEW r \in Route, HCFinalize(r) PROVE CopiesCurrent'
  BY <1>16 DEF HCFinalize
<1>17. ASSUME NEW t \in Timer, TimerFires(t) PROVE CopiesCurrent'
  BY <1>17 DEF TimerFires
<1>18. ASSUME NEW t \in Timer, ExecStart(t) PROVE CopiesCurrent'
  BY <1>18 DEF ExecStart
<1>19. ASSUME NEW t \in Timer, ExecList(t) PROVE CopiesCurrent'
  BY <1>19 DEF ExecList
<1>20. ASSUME NEW t \in Timer, ExecGet(t) PROVE CopiesCurrent'
  <2> DEFINE desired == calculateDesiredListenerState(tm[t].listed)
             new == reconcileListenersToDesiredState(gw.lst, desired, tlsUnknown(tm[t].listed))
  <2>1. tm[t] \in Timers /\ gw.lst \in Listeners /\ tm[t].listed \in Lists
    BY DEF Gateways, Timers
  <2>2. /\ desired \in Listeners
        /\ \A r \in Route : \A h \in tm[t].listed[r] : h \in Host /\ RouteNs[r] \in desired[h]
    BY <2>1, DesiredType DEF Lists
  <2>3. \A h \in Host : gw.lst[h] # {} => new[h] = desired[h]
    BY <2>1, <2>2, ReconciledType
  <2>4. \A r \in Route : \A h \in tm[t].listed[r] : gw.lst[h] # {} => RouteNs[r] \in new[h]
    BY <2>2, <2>3
  <2> HIDE DEF desired
  <2>5. CASE gw.st = "ours" /\ new # gw.lst
    <3>1. /\ tm' = [tm EXCEPT ![t].pc = "write", ![t].target = new]
          /\ fresh' = fresh \cup {t}
          /\ UNCHANGED <<gw, ic>>
      BY <1>20, <2>5 DEF ExecGet, desired
    <3> HIDE DEF new
    <3>2. tm'[t].listed = tm[t].listed /\ tm'[t].target = new
      BY <2>1, <3>1 DEF Timers
    <3> QED BY <2>4, <2>5, <3>1, <3>2
  <2>6. CASE ~(gw.st = "ours" /\ new # gw.lst)
    BY <1>20, <2>6 DEF ExecGet, IdleTimer, desired
  <2> QED BY <2>5, <2>6
<1>21. ASSUME NEW t \in Timer, ExecWrite(t) PROVE CopiesCurrent'
  BY <1>21 DEF ExecWrite, AfterUpdate, IdleTimer
<1>22. ASSUME NEW t \in Timer, ExecRefused(t) PROVE CopiesCurrent'
  BY <1>22 DEF ExecRefused, IdleTimer
<1>23. ASSUME NEW t \in Timer, ExecCheck(t) PROVE CopiesCurrent'
  BY <1>23 DEF ExecCheck
<1>24. ASSUME NEW t \in Timer, ExecDelete(t) PROVE CopiesCurrent'
  BY <1>24 DEF ExecDelete, IdleTimer, NoGateway
<1>25. CASE UNCHANGED vars
  BY <1>25 DEF vars
<1> QED
  BY <1>1, <1>2, <1>3, <1>4, <1>5, <1>6, <1>7, <1>8, <1>9, <1>10, <1>11, <1>12, <1>13, <1>14, <1>15, <1>16, <1>17, <1>18, <1>19, <1>20, <1>21, <1>22, <1>23, <1>24, <1>25
     DEF Next, Environment, Collector, IngressWorker, RouteWorker, Debouncer

\* The inductive invariant holds in every reachable state.
LEMMA InvariantHolds == Spec => []IInv
<1>1. IInv /\ [Next]_vars => IInv'
  BY TypeStep, CopiesStep DEF IInv
<1> QED BY InitIInv, <1>1, PTL DEF Spec

-----------------------------------------------------------------------------
(* The theorems.                                                           *)

\* Type correctness of the three writers, their queues and the debouncer.
THEOREM TypeCorrect == Spec => []TypeOK
<1>1. IInv => TypeOK
  BY DEF IInv
<1> QED BY InvariantHolds, <1>1, PTL

\* Whatever the interleaving, a Gateway without the managed-by annotation is
\* not rewritten by the Ingress worker, the HTTPRoute worker or a debounced
\* update.
THEOREM ForeignSafe == Spec => ForeignNeverOverwritten
<1>1. IInv /\ [Next]_vars => [gw.st = "foreign" /\ gw'.st # "none" => gw' = gw]_vars
  <2> SUFFICES ASSUME IInv, [Next]_vars, gw.st = "foreign", gw'.st # "none"
               PROVE  gw' = gw
    OBVIOUS
  <2> USE DEF IInv, CopiesCurrent
  <2>1. ASSUME NEW r \in Route, ICWriteGateway(r) PROVE gw' = gw
    BY <2>1 DEF ICWriteGateway, IngressWriteAccepted
  <2>2. ASSUME NEW t \in Timer, ExecWrite(t) PROVE gw' = gw
    BY <2>2 DEF ExecWrite
  <2>3. ASSUME NEW t \in Timer, ExecDelete(t) PROVE gw' = gw
    BY <2>3 DEF ExecDelete, NoGateway
  <2>4. ASSUME NEW r \in Route, HCCreate(r) PROVE gw' = gw
    BY <2>4 DEF HCCreate
  <2>5. CASE Environment
    BY <2>5 DEF Environment, UserApply, UserDelete, GatewayStatusWritten,
                UserCreatesGateway, UserTakesGateway, Crash
  <2>6. CASE Collector
    BY <2>6 DEF Collector, GarbageCollect
  <2>7. CASE IngressWorker
    BY <2>1, <2>7 DEF IngressWorker, ICStart, ICApply, ICReadGateway
  <2>8. CASE RouteWorker
    BY <2>4, <2>8 DEF RouteWorker, HCStart, HCUpsert, HCCleanup, HCFinalize
  <2>9. CASE \E t \in Timer : Debouncer(t)
    BY <2>2, <2>3, <2>9 DEF Debouncer, TimerFires, ExecStart, ExecList, ExecGet,
                            ExecRefused, ExecCheck
  <2>10. CASE UNCHANGED vars
    BY <2>10 DEF vars
  <2> QED BY <2>5, <2>6, <2>7, <2>8, <2>9, <2>10 DEF Next
<1> QED BY InvariantHolds, <1>1, PTL DEF Spec, ForeignNeverOverwritten

\* No write of the two reconcilers undoes a listener, or a namespace of one,
\* that another goroutine added after the copy was read.
THEOREM MergeSafe == Spec => MergeNeverShrinks
<1>1. IInv /\ [Next]_vars =>
        [gw' # gw /\ (IngressWorker \/ RouteWorker) =>
           \A h \in Host : gw.lst[h] \subseteq gw'.lst[h]]_vars
  <2> SUFFICES ASSUME IInv, IngressWorker \/ RouteWorker, NEW h \in Host
               PROVE  gw.lst[h] \subseteq gw'.lst[h]
    OBVIOUS
  <2> USE DEF IInv, CopiesCurrent
  <2>1. ASSUME NEW r \in Route, ICWriteGateway(r) PROVE gw.lst[h] \subseteq gw'.lst[h]
    <3> DEFINE merged == updateGatewayListeners(ic.copy.lst, ic.hosts, RouteNs[r])
    <3>1. ic.copy.lst \in Listeners /\ ic.hosts \in SUBSET Host /\ RouteNs[r] \in Namespace
      BY DEF TypeOK, Workers, Gateways
    <3>2. ic.copy.lst[h] \subseteq merged[h]
      BY <3>1, MergeType
    <3>3. gw' = gw \/ (IngressWriteAccepted /\ gw' = [st |-> "ours", lst |-> merged])
      BY <2>1 DEF ICWriteGateway
    <3>4. IngressWriteAccepted => gw.lst = ic.copy.lst \/ gw.lst = NoListeners
      BY <2>1 DEF ICWriteGateway, IngressWriteAccepted
    <3> HIDE DEF merged
    <3> QED BY <3>2, <3>3, <3>4 DEF NoListeners
  <2>2. ASSUME NEW r \in Route, HCCreate(r) PROVE gw.lst[h] \subseteq gw'.lst[h]
    BY <2>2 DEF HCCreate, NoListeners
  <2>3. CASE IngressWorker
    BY <2>1, <2>3 DEF IngressWorker, ICStart, ICApply, ICReadGateway
  <2>4. CASE RouteWorker
    BY <2>2, <2>4 DEF RouteWorker, HCStart, HCUpsert, HCCleanup, HCFinalize
  <2> QED BY <2>3, <2>4
<1> QED BY InvariantHolds, <1>1, PTL DEF Spec, MergeNeverShrinks

\* A debounced write leaves each route it listed its listener and namespace.
THEOREM ListedSafe == Spec => ListedRoutesKeepListener
<1>1. IInv /\ [Next]_vars =>
        [\A t \in Timer : ExecWrite(t) =>
           \A r \in Route : \A h \in tm[t].listed[r] :
              gw.lst[h] # {} => RouteNs[r] \in gw'.lst[h]]_vars
  BY DEF IInv, CopiesCurrent, TypeOK, Gateways, ExecWrite
<1> QED BY InvariantHolds, <1>1, PTL DEF Spec, ListedRoutesKeepListener

-----------------------------------------------------------------------------
(* A Gateway without listeners.                                            *)

\* No route and no reconcile is without hostnames.
HostsKnown ==
    /\ \A r \in Route : route[r].st # "none" => route[r].hosts # {}
    /\ ic.pc # "idle" => ic.hosts # {}
    /\ hc.pc # "idle" => hc.seen.hosts # {}

\* Hostnames come from an Ingress that exists, hence has some.
LEMMA HostsStep == TypeOK /\ HostsKnown /\ [Next]_vars => HostsKnown'
<1> SUFFICES ASSUME TypeOK, HostsKnown, [Next]_vars PROVE HostsKnown'
  OBVIOUS
<1> USE DEF HostsKnown
<1>i. IdleIC.pc = "idle" /\ IdleHC.pc = "idle" /\ NoRoute.st = "none"
  BY DEF IdleIC, IdleHC, NoRoute
<1>1. ASSUME NEW r \in Route, NEW H \in SUBSET Host, UserApply(r, H) \/ UserDelete(r)
      PROVE  HostsKnown'
  BY <1>1 DEF UserApply, UserDelete
<1>2. ASSUME NEW H, NEW n,
             GatewayStatusWritten \/ UserTakesGateway \/ UserCreatesGateway(H, n)
      PROVE  HostsKnown'
  BY <1>2 DEF GatewayStatusWritten, UserTakesGateway, UserCreatesGateway, clusterVars, queueVars
<1>3. CASE Crash
  BY <1>3, <1>i DEF Crash, clusterVars
<1>4. ASSUME NEW r \in Route, GarbageCollect(r) PROVE HostsKnown'
  <2>1. route' = [route EXCEPT ![r] = IF route[r].fin THEN [route[r] EXCEPT !.st = "term"]
                                                     ELSE NoRoute]
    BY <1>4 DEF GarbageCollect
  <2>2. [route[r] EXCEPT !.st = "term"].hosts = route[r].hosts
    BY DEF TypeOK, HTTPRoutes
  <2> QED BY <1>4, <2>1, <2>2, <1>i DEF GarbageCollect, TypeOK
<1>5. ASSUME NEW r \in Route, ICStart(r) PROVE HostsKnown'
  BY <1>5 DEF ICStart, Exists, IdleIC, clusterVars
<1>6. ASSUME NEW r \in Route, ICApply(r) PROVE HostsKnown'
  <2>1. CASE route' = route
    <3>1. ic' = IdleIC \/ ic'.hosts = ic.hosts
      BY <1>6 DEF ICApply, TypeOK, Workers
    <3> QED BY <1>6, <2>1, <3>1, <1>i DEF ICApply
  <2>2. CASE route' # route
    <3>1. /\ ic' = [ic EXCEPT !.pc = "read"]
          /\ \A q \in Route : q # r => route'[q] = route[q]
          /\ route'[r].hosts = ic.hosts
      BY <1>6, <2>2 DEF ICApply, TypeOK, HTTPRoutes
    <3>2. ic'.hosts = ic.hosts
      BY <3>1 DEF TypeOK, Workers
    <3> QED BY <1>6, <3>1, <3>2 DEF ICApply
  <2> QED BY <2>1, <2>2
<1>7. CASE ICReadGateway
  <2>1. ic' = IdleIC \/ ic'.hosts = ic.hosts
    BY <1>7 DEF ICReadGateway, TypeOK, Workers
  <2> QED BY <1>7, <2>1, <1>i DEF ICReadGateway, clusterVars
<1>8. ASSUME NEW r \in Route, ICWriteGateway(r) PROVE HostsKnown'
  BY <1>8, <1>i DEF ICWriteGateway, clusterVars
<1>9. ASSUME NEW r \in Route, HCStart(r) PROVE HostsKnown'
  <2>1. CASE route[r].st = "none"
    BY <1>9, <2>1 DEF HCStart
  <2>2. CASE route[r].st # "none"
    <3>1. /\ hc'.seen = route'[r] /\ route'[r].hosts = route[r].hosts
          /\ \A q \in Route : q # r => route'[q] = route[q]
      BY <1>9, <2>2 DEF HCStart, TypeOK, HTTPRoutes
    <3> QED BY <1>9, <2>2, <3>1 DEF HCStart
  <2> QED BY <2>1, <2>2
<1>10. ASSUME NEW r \in Route, HCUpsert(r) \/ HCCreate(r) \/ HCCleanup(r) PROVE HostsKnown'
  <2>1. hc' = IdleHC \/ hc'.seen = hc.seen
    BY <1>10 DEF HCUpsert, HCCreate, HCCleanup, TypeOK, RouteWorkers
  <2>2. hc.pc # "idle" /\ UNCHANGED <<route, ic>>
    BY <1>10 DEF HCUpsert, HCCreate, HCCleanup, clusterVars
  <2> QED BY <2>1, <2>2, <1>i
<1>11. ASSUME NEW r \in Route, HCFinalize(r) PROVE HostsKnown'
  BY <1>11, <1>i DEF HCFinalize, TypeOK
<1>12. ASSUME NEW t \in Timer, Debouncer(t) PROVE HostsKnown'
  BY <1>12 DEF Debouncer, TimerFires, ExecStart, ExecList, ExecGet, ExecWrite, ExecRefused,
               ExecCheck, ExecDelete, clusterVars, queueVars
<1>13. CASE UNCHANGED vars
  BY <1>13 DEF vars, clusterVars, queueVars
<1> QED BY <1>1, <1>2, <1>3, <1>4, <1>5, <1>6, <1>7, <1>8, <1>9, <1>10, <1>11, <1>12, <1>13
        DEF Next, Environment, Collector, IngressWorker, RouteWorker

\* Merging some hostname leaves some listener.
LEMMA MergeNotEmpty ==
    ASSUME NEW lst \in Listeners, NEW hosts \in SUBSET Host, NEW ns \in Namespace, hosts # {}
    PROVE  updateGatewayListeners(lst, hosts, ns) # NoListeners
<1>1. PICK h \in hosts : TRUE
  OBVIOUS
<1>2. ns \in updateGatewayListeners(lst, hosts, ns)[h]
  BY <1>1 DEF updateGatewayListeners, addNamespaceToListener
<1>3. NoListeners[h] = {}
  BY <1>1 DEF NoListeners
<1> QED BY <1>2, <1>3

\* The debouncer's schedule only takes a timer that is idle or armed.
LEMMA ScheduleKeeps ==
    ASSUME TypeOK, scheduleGatewayUpdate, NEW t \in Timer, tm[t].pc \in {"check", "delete"}
    PROVE  tm'[t] = tm[t]
BY DEF scheduleGatewayUpdate, TypeOK

\* Only a debounced write empties the Gateway, and its goroutine checks next.
LEMMA EmptyStep ==
    IInv /\ HostsKnown /\ EmptyGatewayIsTransient /\ [Next]_vars => EmptyGatewayIsTransient'
<1> SUFFICES ASSUME IInv, HostsKnown, EmptyGatewayIsTransient, [Next]_vars,
                    gw'.st = "ours", gw'.lst = NoListeners, ~(crashes' > 0)
             PROVE  \E t \in Timer : tm'[t].pc \in {"check", "delete"}
  BY DEF EmptyGatewayIsTransient
<1> USE DEF IInv, TypeOK
<1>k. ASSUME gw' = gw, crashes' = crashes,
             \A t \in Timer : tm[t].pc \in {"check", "delete"} => tm'[t] = tm[t]
      PROVE  \E t \in Timer : tm'[t].pc \in {"check", "delete"}
  BY <1>k DEF EmptyGatewayIsTransient
<1>1. ASSUME NEW r \in Route, NEW H, UserApply(r, H) \/ UserDelete(r) \/ GarbageCollect(r)
      PROVE  \E t \in Timer : tm'[t].pc \in {"check", "delete"}
  BY <1>1, <1>k DEF UserApply, UserDelete, GarbageCollect, timerVars, envVars
<1>2. CASE GatewayStatusWritten
  BY <1>2, <1>k DEF GatewayStatusWritten, timerVars
<1>3. ASSUME NEW H, NEW n, UserTakesGateway \/ UserCreatesGateway(H, n) PROVE FALSE
  BY <1>3 DEF UserTakesGateway, UserCreatesGateway, Gateways
<1>4. CASE Crash
  BY <1>4 DEF Crash
<1>5. ASSUME NEW r \in Route, ICStart(r) \/ ICApply(r)
      PROVE  \E t \in Timer : tm'[t].pc \in {"check", "delete"}
  BY <1>5, <1>k DEF ICStart, ICApply, timerVars, envVars
<1>r. CASE ICReadGateway
  BY <1>r, <1>k DEF ICReadGateway, timerVars, envVars
<1>6. ASSUME NEW r \in Route, ICWriteGateway(r)
      PROVE  \E t \in Timer : tm'[t].pc \in {"check", "delete"}
  <2>1. CASE gw' = gw
    BY <1>6, <2>1, <1>k DEF ICWriteGateway, timerVars, envVars
  <2>2. CASE gw' # gw
    <3>1. gw'.lst = updateGatewayListeners(ic.copy.lst, ic.hosts, RouteNs[r])
      BY <1>6, <2>2 DEF ICWriteGateway
    <3>2. ic.copy.lst \in Listeners /\ ic.hosts \in SUBSET Host /\ RouteNs[r] \in Namespace
      BY RouteNsAssumption DEF Workers, Gateways
    <3>3. ic.hosts # {}
      BY <1>6 DEF ICWriteGateway, HostsKnown
    <3> QED BY <3>1, <3>2, <3>3, MergeNotEmpty
  <2> QED BY <2>1, <2>2
<1>7. ASSUME NEW r \in Route, HCStart(r) \/ HCFinalize(r)
      PROVE  \E t \in Timer : tm'[t].pc \in {"check", "delete"}
  BY <1>7, <1>k DEF HCStart, HCFinalize, timerVars, envVars
<1>8. ASSUME NEW r \in Route, HCUpsert(r) \/ HCCleanup(r)
      PROVE  \E t \in Timer : tm'[t].pc \in {"check", "delete"}
  <2>1. gw' = gw /\ crashes' = crashes /\ (scheduleGatewayUpdate \/ UNCHANGED timerVars)
    BY <1>8 DEF HCUpsert, HCCleanup, envVars
  <2> QED BY <2>1, <1>k, ScheduleKeeps DEF timerVars
<1>9. ASSUME NEW r \in Route, HCCreate(r)
      PROVE  \E t \in Timer : tm'[t].pc \in {"check", "delete"}
  <2>1. CASE gw' = gw
    BY <1>9, <2>1, <1>k DEF HCCreate, timerVars, envVars
  <2>2. CASE gw' # gw
    <3>1. gw'.lst = updateGatewayListeners(NoListeners, hc.seen.hosts, RouteNs[r])
      BY <1>9, <2>2 DEF HCCreate
    <3>2. NoListeners \in Listeners /\ hc.seen.hosts \in SUBSET Host /\ RouteNs[r] \in Namespace
      BY RouteNsAssumption, IdleTypes DEF RouteWorkers, HTTPRoutes
    <3>3. hc.seen.hosts # {}
      BY <1>9 DEF HCCreate, HostsKnown
    <3> QED BY <3>1, <3>2, <3>3, MergeNotEmpty
  <2> QED BY <2>1, <2>2
<1>10. ASSUME NEW t \in Timer, TimerFires(t) \/ ExecStart(t) \/ ExecList(t)
       PROVE  \E u \in Timer : tm'[u].pc \in {"check", "delete"}
  BY <1>10, <1>k DEF TimerFires, ExecStart, ExecList, envVars
<1>11. ASSUME NEW t \in Timer, ExecGet(t) \/ ExecRefused(t)
       PROVE  \E u \in Timer : tm'[u].pc \in {"check", "delete"}
  BY <1>11, <1>k DEF ExecGet, ExecRefused, envVars
<1>12. ASSUME NEW t \in Timer, ExecWrite(t)
       PROVE  \E u \in Timer : tm'[u].pc \in {"check", "delete"}
  BY <1>12 DEF ExecWrite, AfterUpdate, IdleTimer
<1>13. ASSUME NEW t \in Timer, ExecCheck(t)
       PROVE  \E u \in Timer : tm'[u].pc \in {"check", "delete"}
  <2>1. tm[t] \in Timers /\ gw' = gw
    BY <1>13 DEF ExecCheck
  <2>2. tm'[t].pc = "delete"
    BY <1>13, <2>1 DEF ExecCheck, Timers
  <2> QED BY <2>2
<1>14. ASSUME NEW t \in Timer, ExecDelete(t) PROVE FALSE
  BY <1>14 DEF ExecDelete, NoGateway
<1>15. CASE UNCHANGED vars
  BY <1>15, <1>k DEF vars, timerVars, envVars
<1> QED BY <1>1, <1>2, <1>3, <1>4, <1>5, <1>6, <1>7, <1>8, <1>9, <1>10, <1>11, <1>12, <1>13,
           <1>14, <1>15, <1>r
        DEF Next, Environment, Collector, IngressWorker, RouteWorker, Debouncer

\* Without a restart, a managed Gateway without listeners is about to be
\* looked at by the deletion check of executeGatewayUpdate, whoever wrote it.
THEOREM EmptyTransient == Spec => []EmptyGatewayIsTransient
<1>1. Init => HostsKnown /\ EmptyGatewayIsTransient
  BY DEF Init, HostsKnown, EmptyGatewayIsTransient, NoRoute, IdleIC, IdleHC, NoGateway
<1>2. IInv /\ HostsKnown /\ [Next]_vars => HostsKnown'
  BY HostsStep DEF IInv
<1>3. Spec => []HostsKnown
  BY <1>1, <1>2, InvariantHolds, PTL DEF Spec
<1> QED BY <1>1, <1>3, InvariantHolds, EmptyStep, PTL DEF Spec
=============================================================================
