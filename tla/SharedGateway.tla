---------------------------- MODULE SharedGateway ----------------------------
(***************************************************************************)
(* What the writers of the shared Gateway promise together: each write is  *)
(* one atomic change of the Gateway as it is at that moment.               *)
(*   - Hostnames of one route are merged in.                               *)
(*   - The listeners are made to match a list of routes: a true picture of *)
(*     the live routes at one earlier moment.                              *)
(*   - The Gateway is deleted.                                             *)
(* A Gateway that is not managed is not written, but may be deleted.       *)
(* Module GatewaySync, where every writer reads, computes and writes in    *)
(* separate steps, implements this.                                        *)
(***************************************************************************)
CONSTANTS Route, Host, Namespace, RouteNs, Lister

VARIABLES
    gw,     \* [st, lst]: the Gateway; lst[h]: the namespaces of listener h
    wants,  \* [Route -> SUBSET Host]: the hostnames of the live routes
    list    \* [Lister -> [Route -> SUBSET Host]]: the lists taken

vars == <<gw, wants, list>>

NoGateway == [st |-> "none", lst |-> [h \in Host |-> {}]]
NoList == [r \in Route |-> {}]

merged(lst, H, n) == [h \in Host |-> IF h \in H THEN lst[h] \cup {n} ELSE lst[h]]

\* What the routes of a list want; a listener that is missing is not made when
\* its TLS settings are unknown.
matching(lst, L, unknown) ==
    [h \in Host |-> IF lst[h] = {} /\ h \in unknown THEN {}
                    ELSE {RouteNs[r] : r \in {q \in Route : h \in L[q]}}]

Init ==
    /\ gw = NoGateway
    /\ wants = NoList
    /\ list = [t \in Lister |-> NoList]

\* Lists may be dropped at any time.
Forget == \E S \in SUBSET Lister :
             list' = [t \in Lister |-> IF t \in S THEN NoList ELSE list[t]]

RoutesChange == wants' \in [Route -> SUBSET Host] /\ UNCHANGED <<gw, list>>

TakeList(t) == list' = [list EXCEPT ![t] = wants] /\ UNCHANGED <<gw, wants>>

Merge(r, H) ==
    /\ gw.st # "foreign"
    /\ gw' = [st |-> "ours", lst |-> merged(gw.lst, H, RouteNs[r])]
    /\ UNCHANGED <<wants, list>>

Match(t) ==
    /\ gw.st = "ours"
    /\ \E unknown \in SUBSET Host :
          gw' = [st |-> "ours", lst |-> matching(gw.lst, list[t], unknown)]
    /\ Forget /\ UNCHANGED wants

Delete == gw' = NoGateway /\ Forget /\ UNCHANGED wants

\* A user creates the Gateway, or takes it over.
UserCreates(H, n) ==
    /\ gw.st = "none"
    /\ gw' = [st |-> "foreign", lst |-> merged(gw.lst, H, n)]
    /\ UNCHANGED <<wants, list>>

UserTakes ==
    /\ gw.st = "ours"
    /\ gw' = [gw EXCEPT !.st = "foreign"]
    /\ UNCHANGED <<wants, list>>

Drop == Forget /\ UNCHANGED <<gw, wants>>

Next ==
    \/ RoutesChange \/ Delete \/ UserTakes \/ Drop
    \/ \E r \in Route, H \in SUBSET Host : Merge(r, H)
    \/ \E t \in Lister : TakeList(t) \/ Match(t)
    \/ \E H \in SUBSET Host, n \in Namespace : UserCreates(H, n)

Spec == Init /\ [][Next]_vars
=============================================================================
