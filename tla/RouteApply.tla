----------------------------- MODULE RouteApply -----------------------------
(***************************************************************************)
(* How the HTTPRoutes of one Ingress are written (utils/httproute.go).     *)
(*                                                                         *)
(* An HTTPRoute holds at most Limit rules, so that the translation of a    *)
(* larger Ingress is split into parts: part 1 has the Ingress's name, part *)
(* i the name with the suffix -i.  The worker of the Ingress controller    *)
(* replaces the parts one API call at a time, while the HTTPRoute          *)
(* controller adds its finalizer to live parts and releases the ones that  *)
(* are being deleted.                                                      *)
(***************************************************************************)
EXTENDS Naturals, FiniteSets

CONSTANTS
    Limit,       \* MaxHTTPRouteRules
    MaxRules,    \* bound: rules of the Ingress
    MaxEdits,    \* bound: edits of the Ingress
    MaxFails,    \* bound: failed calls and restarts of the operator
    MaxTakes     \* bound: routes a user takes over

ASSUME LimitAssumption == Limit \in Nat \ {0} /\ MaxRules \in Nat \ {0}
ASSUME ApplyBounds == MaxEdits \in Nat /\ MaxFails \in Nat /\ MaxTakes \in Nat

VARIABLES
    want,    \* [n, gen]: number of rules and generation of the Ingress
    route,   \* [Part -> [st, ours, gen, rules, fin]]
    queued,  \* the Ingress waits to be reconciled
    w,       \* the worker: [pc, n, gen, del, part, copy]
    edits, fails, takes

vars == <<want, route, queued, w, edits, fails, takes>>

-----------------------------------------------------------------------------
\* Mutant: a last part that is not full is lost.
partCount_RoundedDown(n) == IF n <= Limit THEN 1 ELSE n \div Limit

\* SplitHTTPRouteIfNeeded: the rules in parts of Limit; the last may be shorter.
partCount(n) == IF n <= Limit THEN 1 ELSE (n + Limit - 1) \div Limit

\* Mutant: the end of the slice is not cut to the number of rules.
chunk_Unclamped(n, i) == ((i - 1) * Limit + 1)..(i * Limit)

\* The rules of part i.
chunk(n, i) == {k \in 1..n : (i - 1) * Limit < k /\ k <= i * Limit}

Part == 1..partCount(MaxRules)

Routes == [st: {"none", "live", "term"}, ours: BOOLEAN, gen: Nat,
           rules: SUBSET (1..MaxRules), fin: BOOLEAN]
NoRoute == [st |-> "none", ours |-> FALSE, gen |-> 0, rules |-> {}, fin |-> FALSE]

Workers == [pc: {"idle", "delete", "check", "get", "write"}, n: 0..MaxRules,
            gen: Nat, del: SUBSET Part, part: Part, copy: Routes]
IdleWorker == [pc |-> "idle", n |-> 0, gen |-> 0, del |-> {}, part |-> 1,
               copy |-> NoRoute]

\* Mutant: only the names about to be written are looked up.
existingRoutes_Desired ==
    {i \in 1..partCount(want.n) : route[i].st # "none" /\ route[i].ours}

\* GetHTTPRoutesWithPrefix: the parts of this Ingress, by annotation; those
\* being deleted count.
existingRoutes == {i \in Part : route[i].st # "none" /\ route[i].ours}

\* ApplyHTTPRoutesAtomic, case 1: one route before and one after.
singleRoute(n) == Cardinality(existingRoutes) = 1 /\ partCount(n) = 1

Init ==
    /\ want = [n |-> 0, gen |-> 0]
    /\ route = [i \in Part |-> NoRoute]
    /\ queued = FALSE
    /\ w = IdleWorker
    /\ edits = 0 /\ fails = 0 /\ takes = 0

-----------------------------------------------------------------------------
\* A user creates or edits the Ingress.
Edit(n) ==
    /\ edits < MaxEdits
    /\ edits' = edits + 1
    /\ want' = [n |-> n, gen |-> want.gen + 1]
    /\ queued' = TRUE
    /\ UNCHANGED <<route, w, fails, takes>>

\* A user removes the managed-by annotation from a route.
TakeRoute(i) ==
    /\ takes < MaxTakes
    /\ takes' = takes + 1
    /\ i \in existingRoutes
    /\ route' = [route EXCEPT ![i].ours = FALSE]
    /\ UNCHANGED <<want, queued, w, edits, fails>>

\* The HTTPRoute controller: the finalizer of a live route ...
AddFinalizer(i) ==
    /\ route[i].st = "live" /\ route[i].ours /\ ~route[i].fin
    /\ route' = [route EXCEPT ![i].fin = TRUE]
    /\ UNCHANGED <<want, queued, w, edits, fails, takes>>

\* ... is removed from one that is being deleted.
Release(i) ==
    /\ route[i].st = "term" /\ route[i].ours
    /\ route' = [route EXCEPT ![i] = NoRoute]
    /\ UNCHANGED <<want, queued, w, edits, fails, takes>>

-----------------------------------------------------------------------------
\* The translation, and ApplyHTTPRoutesAtomic up to its two cases.
Start ==
    /\ w.pc = "idle" /\ queued
    /\ queued' = FALSE
    /\ w' = [IdleWorker EXCEPT !.n = want.n, !.gen = want.gen,
                !.pc = IF singleRoute(want.n) \/ existingRoutes = {} THEN "check" ELSE "delete",
                !.del = IF singleRoute(want.n) THEN {} ELSE existingRoutes]
    /\ UNCHANGED <<want, route, edits, fails, takes>>

\* Case 2: every listed route is deleted, by name, in the order of the list.
DeleteObsolete(i) ==
    /\ w.pc = "delete" /\ i \in w.del
    /\ \A j \in w.del : i <= j
    /\ route' = [route EXCEPT ![i] =
          IF route[i].st = "none" THEN route[i]
          ELSE IF route[i].fin THEN [route[i] EXCEPT !.st = "term"]
          ELSE NoRoute]
    /\ w' = [w EXCEPT !.del = w.del \ {i}, !.pc = IF w.del = {i} THEN "check" ELSE "delete"]
    /\ UNCHANGED <<want, queued, edits, fails, takes>>

NextPart == IF w.part < partCount(w.n)
            THEN [w EXCEPT !.pc = "check", !.part = w.part + 1]
            ELSE IdleWorker

\* applyHTTPRoute: CanUpdateResource reads the route; one of somebody else is
\* passed over.
CheckRoute ==
    /\ w.pc = "check"
    /\ w' = IF route[w.part].st = "none" \/ route[w.part].ours
            THEN [w EXCEPT !.pc = "get"] ELSE NextPart
    /\ UNCHANGED <<want, route, queued, edits, fails, takes>>

\* The route is read again; this copy is written.
GetRoute ==
    /\ w.pc = "get"
    /\ w' = [w EXCEPT !.pc = "write", !.copy = route[w.part]]
    /\ UNCHANGED <<want, route, queued, edits, fails, takes>>

Created == [st |-> "live", ours |-> TRUE, gen |-> w.gen, rules |-> chunk(w.n, w.part),
            fin |-> FALSE]
Updated == [route[w.part] EXCEPT !.ours = TRUE, !.gen = w.gen,
                                 !.rules = chunk(w.n, w.part)]

\* Create, also when the route disappeared since it was read; or Update,
\* refused when the route changed: whoever else writes it leaves it different
\* from what was read, so that comparing the copies compares the versions.
\* An error ends the reconcile, and it is retried.
WriteRoute ==
    /\ w.pc = "write"
    /\ LET now == route[w.part]
       IN  IF now.st = "none" \/ w.copy = now
           THEN /\ route' = [route EXCEPT ![w.part] =
                               IF now.st = "none" THEN Created ELSE Updated]
                /\ w' = NextPart
                /\ UNCHANGED queued
           ELSE /\ w' = IdleWorker
                /\ queued' = TRUE
                /\ UNCHANGED route
    /\ UNCHANGED <<want, edits, fails, takes>>

\* A call fails, or the operator restarts: the Ingress is reconciled again.
Fail ==
    /\ fails < MaxFails
    /\ fails' = fails + 1
    /\ w.pc # "idle"
    /\ w' = IdleWorker
    /\ queued' = TRUE
    /\ UNCHANGED <<want, route, edits, takes>>

-----------------------------------------------------------------------------
Apply == \/ Start \/ CheckRoute \/ GetRoute \/ WriteRoute
         \/ \E i \in Part : DeleteObsolete(i)
RouteController == \E i \in Part : AddFinalizer(i) \/ Release(i)

Next ==
    \/ \E n \in 1..MaxRules : Edit(n)
    \/ \E i \in Part : TakeRoute(i)
    \/ Fail
    \/ Apply
    \/ RouteController

Spec == Init /\ [][Next]_vars

-----------------------------------------------------------------------------
(* Properties.                                                             *)

\* Every variable stays in the set its declaration describes.
TypeOK ==
    /\ want \in [n: 0..MaxRules, gen: Nat]
    /\ route \in [Part -> Routes]
    /\ queued \in BOOLEAN
    /\ w \in Workers
    /\ edits \in Nat /\ fails \in Nat /\ takes \in Nat

Quiet == w.pc = "idle" /\ ~queued
Serving == {i \in Part : route[i].st = "live" /\ route[i].ours}

\* With nothing left to do no part of an earlier translation serves traffic
\* (ApplyHTTPRoutesAtomic: "proper cleanup of obsolete split routes").
NoStalePart == Quiet => \A i \in Serving : route[i].gen = want.gen

\* The same for an Ingress that is split now: whatever failed or was deleted
\* on the way, shrinking from three parts to two leaves none of the old ones.
SplitHasNoStalePart == partCount(want.n) > 1 => NoStalePart

\* With nothing left to do and all parts in place, every rule of the Ingress is
\* in exactly one part: the split loses and repeats none.
RulesPartitioned ==
    Quiet /\ (\A i \in 1..partCount(want.n) : i \in Serving) =>
        \A k \in 1..want.n : Cardinality({i \in Serving : k \in route[i].rules}) = 1
=============================================================================
