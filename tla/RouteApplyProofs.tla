-------------------------- MODULE RouteApplyProofs --------------------------
(***************************************************************************)
(* Safety of RouteApply, for every limit of rules per route, every number  *)
(* of rules and every bound.                                               *)
(***************************************************************************)
EXTENDS RouteApply, FiniteSetTheorems, TLAPS

-----------------------------------------------------------------------------
(* Arithmetic of the split.                                                *)

\* Division is exact up to a remainder.
LEMMA Quotient ==
    ASSUME NEW a \in Nat, NEW b \in Nat \ {0}
    PROVE  /\ a \div b \in Nat
           /\ (a \div b) * b <= a
           /\ a < (a \div b) * b + b
  OBVIOUS

\* A product grows with its factor.
LEMMA Monotone ==
    ASSUME NEW i \in Nat, NEW j \in Nat, NEW b \in Nat, i <= j
    PROVE  i * b <= j * b
  OBVIOUS

\* A larger dividend has no smaller quotient.
LEMMA QuotientMonotone ==
    ASSUME NEW a \in Nat, NEW c \in Nat, NEW b \in Nat \ {0}, a <= c
    PROVE  a \div b <= c \div b
<1> DEFINE p == a \div b
           q == c \div b
<1>1. /\ p \in Nat /\ p * b <= a /\ q \in Nat /\ c < q * b + b
  BY Quotient
<1> HIDE DEF p, q
<1>2. SUFFICES ASSUME q < p PROVE FALSE
  BY <1>1 DEF p, q
<1>3. (q + 1) * b <= p * b
  BY <1>1, <1>2, Monotone
<1>4. (q + 1) * b = q * b + b
  BY <1>1
<1>5. q * b \in Nat /\ p * b \in Nat
  BY <1>1
<1> QED BY <1>1, <1>3, <1>4, <1>5

\* The number of parts grows with the number of rules.
LEMMA PartCount ==
    ASSUME NEW n \in Nat, NEW m \in Nat, n <= m
    PROVE  partCount(n) \in Nat \ {0} /\ partCount(n) <= partCount(m)
<1>1. n + Limit - 1 \in Nat /\ m + Limit - 1 \in Nat /\ n + Limit - 1 <= m + Limit - 1
  BY LimitAssumption
<1>2. (n + Limit - 1) \div Limit <= (m + Limit - 1) \div Limit
  BY <1>1, QuotientMonotone, LimitAssumption
<1>3. ASSUME NEW k \in Nat, k > Limit
      PROVE  (k + Limit - 1) \div Limit \in Nat /\ (k + Limit - 1) \div Limit >= 1
  <2>1. k + Limit - 1 \in Nat /\ Limit \in Nat /\ Limit <= k + Limit - 1 /\ Limit \div Limit = 1
    BY <1>3, LimitAssumption
  <2>2. Limit \div Limit <= (k + Limit - 1) \div Limit
    BY <2>1, QuotientMonotone, LimitAssumption
  <2>3. (k + Limit - 1) \div Limit \in Nat
    BY <2>1, Quotient, LimitAssumption
  <2> QED BY <2>1, <2>2, <2>3
<1> QED BY <1>2, <1>3, LimitAssumption DEF partCount

\* The rules that may be in part i, whatever the Ingress.
Slice(i) == {k \in Nat : (i - 1) * Limit < k /\ k <= i * Limit}

\* No rule is in two slices.
LEMMA SlicesDisjoint ==
    ASSUME NEW i \in Nat, NEW j \in Nat, NEW k \in Slice(i), k \in Slice(j)
    PROVE  i = j
<1>1. ASSUME NEW a \in Nat, NEW b \in Nat, k \in Slice(a), k \in Slice(b), a < b
      PROVE  FALSE
  <2>1. b - 1 \in Nat /\ a <= b - 1
    BY <1>1
  <2>2. a * Limit <= (b - 1) * Limit
    BY <2>1, Monotone, LimitAssumption
  <2>3. a * Limit \in Nat /\ (b - 1) * Limit \in Nat
    BY <2>1, LimitAssumption
  <2> QED BY <1>1, <2>2, <2>3 DEF Slice
<1> QED BY <1>1

\* Every rule of an Ingress is in one of its parts.
LEMMA SlicesCover ==
    ASSUME NEW n \in Nat, NEW k \in 1..n
    PROVE  \E i \in 1..partCount(n) : k \in chunk(n, i)
<1> DEFINE q == (k - 1) \div Limit
<1>1. k - 1 \in Nat /\ q \in Nat /\ q * Limit <= k - 1 /\ k - 1 < q * Limit + Limit
  BY Quotient, LimitAssumption
<1>2. q + 1 <= partCount(n)
  <2>1. CASE n <= Limit
    <3>1. SUFFICES ASSUME 1 <= q PROVE FALSE
      BY <1>1, <2>1 DEF partCount
    <3>2. 1 * Limit <= q * Limit
      BY <1>1, <3>1, Monotone, LimitAssumption
    <3> HIDE DEF q
    <3>3. q * Limit \in Nat
      BY <1>1, LimitAssumption
    <3> QED BY <1>1, <2>1, <3>2, <3>3, LimitAssumption
  <2>2. CASE n > Limit
    <3>1. k - 1 + Limit \in Nat /\ n + Limit - 1 \in Nat /\ k - 1 + Limit <= n + Limit - 1
      BY LimitAssumption
    <3>2. (k - 1 + Limit) \div Limit <= (n + Limit - 1) \div Limit
      BY <3>1, QuotientMonotone, LimitAssumption
    <3>3. (k - 1 + Limit) \div Limit = q + 1
      BY <1>1, LimitAssumption
    <3>4. partCount(n) = (n + Limit - 1) \div Limit
      BY <2>2, LimitAssumption DEF partCount
    <3> QED BY <3>2, <3>3, <3>4
  <2> QED BY <2>1, <2>2, LimitAssumption
<1> HIDE DEF q
<1>3. (q + 1) * Limit = q * Limit + Limit /\ (q + 1) - 1 = q /\ q * Limit \in Nat
  BY <1>1, LimitAssumption
<1>4. k \in chunk(n, q + 1)
  BY <1>1, <1>3, LimitAssumption DEF chunk
<1>5. q + 1 \in 1..partCount(n)
  BY <1>1, <1>2, PartCount
<1> QED BY <1>4, <1>5

-----------------------------------------------------------------------------
(* The inductive invariant.                                                *)

\* The worker's translation is not newer than the Ingress, and of the present
\* one unless the Ingress is queued.
Translated ==
    w.pc # "idle" =>
        /\ w.gen <= want.gen
        /\ w.gen = want.gen => w.n = want.n
        /\ ~queued => w.gen = want.gen

\* What a route holds: rules of its slice; for the present generation, its part.
Contents ==
    \A i \in Part : route[i].st # "none" =>
        /\ route[i].gen <= want.gen
        /\ route[i].rules \subseteq Slice(i)
        /\ route[i].gen = want.gen => route[i].rules = chunk(want.n, i)

\* The worker has dealt with the parts before the one at hand: those that serve
\* are of its translation.  Of a split Ingress nothing else serves, but what it
\* is still going to delete.
Replaced ==
    /\ w.pc = "delete" => w.part = 1
    /\ w.pc \in {"check", "get", "write"} =>
          w.del = {} /\ \A i \in Serving : i < w.part => route[i].gen = w.gen
    /\ w.pc # "idle" /\ partCount(w.n) > 1 =>
          \A i \in Serving : i \in w.del \/ route[i].gen = w.gen

\* The same, when the worker is done.
Settled ==
    Quiet => \A i \in Serving :
                i <= partCount(want.n) \/ partCount(want.n) > 1 => route[i].gen = want.gen

IInv == TypeOK /\ Translated /\ Contents /\ Replaced /\ Settled

-----------------------------------------------------------------------------
(* Type correctness.                                                       *)

\* The parts of every Ingress within the bound are parts.
LEMMA Parts ==
    /\ Part \subseteq Nat \ {0} /\ 1 \in Part
    /\ \A n \in 0..MaxRules : /\ partCount(n) \in Nat \ {0}
                              /\ 1..partCount(n) \subseteq Part
<1>1. \A n \in 0..MaxRules : partCount(n) \in Nat \ {0} /\ partCount(n) <= partCount(MaxRules)
  BY PartCount, LimitAssumption
<1>2. partCount(MaxRules) \in Nat \ {0}
  BY <1>1, LimitAssumption
<1> QED BY <1>1, <1>2 DEF Part

\* A part holds rules of the Ingress, those of its slice.
LEMMA Chunks ==
    ASSUME NEW n \in 0..MaxRules, NEW i \in Part
    PROVE  chunk(n, i) \subseteq 1..MaxRules /\ chunk(n, i) \subseteq Slice(i)
BY LimitAssumption DEF chunk, Slice

\* The idle values have their types.
LEMMA IdleTypes == NoRoute \in Routes /\ IdleWorker \in Workers
<1>1. NoRoute \in Routes
  BY DEF NoRoute, Routes
<1>2. 0 \in 0..MaxRules /\ 1 \in Part
  BY Parts, LimitAssumption
<1> QED BY <1>1, <1>2 DEF IdleWorker, Workers

\* After a part comes the next one, or the end.
LEMMA NextPartType ==
    ASSUME TypeOK
    PROVE  /\ NextPart \in Workers
           /\ NextPart = IdleWorker \/ (/\ NextPart = [w EXCEPT !.pc = "check", !.part = w.part + 1]
                                        /\ w.part < partCount(w.n))
<1>1. CASE w.part < partCount(w.n)
  <2>1. w.part \in Nat \ {0} /\ partCount(w.n) \in Nat /\ 1..partCount(w.n) \subseteq Part
    BY Parts DEF TypeOK, Workers
  <2>2. w.part + 1 \in Part
    BY <1>1, <2>1
  <2> QED BY <1>1, <2>2 DEF NextPart, TypeOK, Workers
<1>2. CASE ~(w.part < partCount(w.n))
  BY <1>2, IdleTypes DEF NextPart
<1> QED BY <1>1, <1>2

\* What the worker writes has its type and the rules of its part.
LEMMA WrittenType ==
    ASSUME TypeOK
    PROVE  /\ Created \in Routes /\ Updated \in Routes
           /\ Created.rules = chunk(w.n, w.part) /\ Updated.rules = chunk(w.n, w.part)
           /\ Created.gen = w.gen /\ Updated.gen = w.gen
           /\ Created.st = "live" /\ Updated.st = route[w.part].st
<1>1. w.n \in 0..MaxRules /\ w.part \in Part /\ w.gen \in Nat /\ route[w.part] \in Routes
  BY DEF TypeOK, Workers
<1>2. chunk(w.n, w.part) \in SUBSET (1..MaxRules)
  BY <1>1, Chunks
<1> HIDE DEF chunk
<1> QED BY <1>1, <1>2 DEF Created, Updated, Routes

\* Every step keeps the types.
LEMMA TypeStep == TypeOK /\ [Next]_vars => TypeOK'
<1> SUFFICES ASSUME TypeOK, [Next]_vars PROVE TypeOK'
  OBVIOUS
<1> USE DEF TypeOK
<1>1. ASSUME NEW n \in 1..MaxRules, Edit(n) PROVE TypeOK'
  BY <1>1 DEF Edit
<1>2. ASSUME NEW i \in Part, TakeRoute(i) PROVE TypeOK'
  <2>1. [route[i] EXCEPT !.ours = FALSE] \in Routes
    BY DEF Routes
  <2> QED BY <1>2, <2>1 DEF TakeRoute
<1>3. CASE Fail
  BY <1>3, IdleTypes DEF Fail
<1>4. CASE Start
  <2>1. existingRoutes \subseteq Part
    BY DEF existingRoutes
  <2>2. w' \in Workers
    BY <1>4, <2>1, IdleTypes DEF Start, IdleWorker, Workers
  <2> QED BY <1>4, <2>2 DEF Start
<1>5. CASE CheckRoute
  BY <1>5, NextPartType DEF CheckRoute, Workers
<1>6. CASE GetRoute
  BY <1>6 DEF GetRoute, Workers
<1>7. CASE WriteRoute
  <2>1. w' \in Workers
    BY <1>7, NextPartType, IdleTypes DEF WriteRoute
  <2>2. route' \in [Part -> Routes] /\ queued' \in BOOLEAN
    BY <1>7, WrittenType DEF WriteRoute, Workers
  <2> QED BY <1>7, <2>1, <2>2 DEF WriteRoute
<1>8. ASSUME NEW i \in Part, DeleteObsolete(i) PROVE TypeOK'
  <2>1. w' \in Workers
    BY <1>8 DEF DeleteObsolete, Workers
  <2>2. route' \in [Part -> Routes]
    BY <1>8, IdleTypes DEF DeleteObsolete, Routes
  <2> QED BY <1>8, <2>1, <2>2 DEF DeleteObsolete
<1>9. ASSUME NEW i \in Part, AddFinalizer(i) PROVE TypeOK'
  BY <1>9 DEF AddFinalizer, Routes
<1>10. ASSUME NEW i \in Part, Release(i) PROVE TypeOK'
  BY <1>10, IdleTypes DEF Release
<1>11. CASE UNCHANGED vars
  BY <1>11 DEF vars
<1> QED BY <1>1, <1>2, <1>3, <1>4, <1>5, <1>6, <1>7, <1>8, <1>9, <1>10, <1>11
        DEF Next, Apply, RouteController

-----------------------------------------------------------------------------
(* The invariant is inductive.                                             *)

\* Routes go or stop serving, and change nothing else.
Shrinks ==
    \A i \in Part :
        /\ route'[i].st # "none" => /\ route[i].st # "none"
                                    /\ route'[i].gen = route[i].gen
                                    /\ route'[i].rules = route[i].rules
        /\ i \in Serving' => i \in Serving

\* Only WriteRoute makes a route or changes its rules.
LEMMA OthersShrink ==
    ASSUME TypeOK, NEW i \in Part,
           TakeRoute(i) \/ AddFinalizer(i) \/ Release(i) \/ DeleteObsolete(i)
    PROVE  Shrinks
<1>1. CASE TakeRoute(i)
  BY <1>1 DEF TakeRoute, Shrinks, Serving, TypeOK, Routes
<1>2. CASE AddFinalizer(i)
  BY <1>2 DEF AddFinalizer, Shrinks, Serving, TypeOK, Routes
<1>3. CASE Release(i)
  BY <1>3 DEF Release, Shrinks, Serving, NoRoute, TypeOK, Routes
<1>4. CASE DeleteObsolete(i)
  BY <1>4 DEF DeleteObsolete, Shrinks, Serving, NoRoute, TypeOK, Routes
<1> QED BY <1>1, <1>2, <1>3, <1>4

\* The steps of users and of the HTTPRoute controller that are no edits.
Elsewhere ==
    \E i \in Part : TakeRoute(i) \/ AddFinalizer(i) \/ Release(i)

LEMMA ElsewhereKeeps ==
    TypeOK /\ Elsewhere => Shrinks /\ UNCHANGED <<want, queued, w>>
BY OthersShrink DEF Elsewhere, TakeRoute, AddFinalizer, Release

\* A step is one of these.
LEMMA Steps ==
    [Next]_vars => \/ \E n \in 1..MaxRules : Edit(n)
                   \/ Elsewhere \/ Fail \/ Start \/ CheckRoute \/ GetRoute \/ WriteRoute
                   \/ \E i \in Part : DeleteObsolete(i)
                   \/ UNCHANGED vars
BY DEF Next, Apply, RouteController, Elsewhere

\* The worker reads the Ingress at the start; an edit queues it.
LEMMA TranslatedStep == TypeOK /\ Translated /\ [Next]_vars => Translated'
<1> SUFFICES ASSUME TypeOK, Translated, [Next]_vars PROVE Translated'
  OBVIOUS
<1> USE DEF Translated, TypeOK
<1>0. want.gen \in Nat /\ w.gen \in Nat
  BY DEF Workers
<1>1. ASSUME NEW n \in 1..MaxRules, Edit(n) PROVE Translated'
  BY <1>0, <1>1 DEF Edit
<1>2. CASE Elsewhere
  BY <1>2, ElsewhereKeeps
<1>3. CASE Fail
  BY <1>3 DEF Fail, IdleWorker
<1>4. CASE Start
  BY <1>0, <1>4 DEF Start, IdleWorker
<1>5. CASE w.pc # "idle" /\ w' = NextPart /\ UNCHANGED <<want, queued>>
  <2>1. CASE NextPart = IdleWorker
    BY <1>5, <2>1 DEF IdleWorker
  <2>2. CASE NextPart = [w EXCEPT !.pc = "check", !.part = w.part + 1]
    BY <1>5, <2>2 DEF Workers
  <2> QED BY <2>1, <2>2, NextPartType
<1>6. CASE CheckRoute \/ GetRoute
  BY <1>5, <1>6 DEF CheckRoute, GetRoute, Workers
<1>7. CASE WriteRoute
  <2>1. CASE w' = IdleWorker
    BY <2>1 DEF IdleWorker
  <2> QED BY <1>5, <1>7, <2>1 DEF WriteRoute
<1>8. ASSUME NEW i \in Part, DeleteObsolete(i) PROVE Translated'
  BY <1>8 DEF DeleteObsolete, Workers
<1>9. CASE UNCHANGED vars
  BY <1>9 DEF vars
<1> QED BY <1>1, <1>2, <1>3, <1>4, <1>5, <1>6, <1>7, <1>8, <1>9, Steps

\* A write of a route: what is at the worker's part, and nowhere else.
LEMMA WriteEffect ==
    ASSUME TypeOK, WriteRoute, route' # route
    PROVE  /\ w' = NextPart /\ UNCHANGED <<want, queued>>
           /\ \A i \in Part \ {w.part} : route'[i] = route[i]
           /\ route'[w.part].gen = w.gen
           /\ route'[w.part].rules = chunk(w.n, w.part)
BY WrittenType DEF WriteRoute, TypeOK, Workers

\* Rules are written with their generation, and an edit has a new one.
LEMMA ContentsStep ==
    TypeOK /\ Translated /\ Contents /\ [Next]_vars => Contents'
<1> SUFFICES ASSUME TypeOK, Translated, Contents, [Next]_vars, NEW i \in Part,
                    route'[i].st # "none"
             PROVE  /\ route'[i].gen <= want'.gen
                    /\ route'[i].rules \subseteq Slice(i)
                    /\ route'[i].gen = want'.gen => route'[i].rules = chunk(want'.n, i)
  BY DEF Contents
<1>0. want.gen \in Nat /\ route[i].gen \in Nat
  BY DEF TypeOK, Routes
<1>1. ASSUME NEW n \in 1..MaxRules, Edit(n) PROVE want'.gen = want.gen + 1 /\ route' = route
  BY <1>1 DEF Edit, TypeOK
<1>2. CASE Shrinks /\ UNCHANGED want
  BY <1>2 DEF Shrinks, Contents
<1>3. CASE UNCHANGED <<route, want>>
  BY <1>3 DEF Contents
<1>4. CASE WriteRoute /\ route' # route
  <2>1. CASE i = w.part
    <3>1. w.n \in 0..MaxRules /\ w.pc # "idle"
      BY <1>4 DEF TypeOK, Workers, WriteRoute
    <3> QED BY <1>4, <2>1, <3>1, WriteEffect, Chunks DEF Translated
  <2> QED BY <1>4, <2>1, WriteEffect DEF Contents
<1>5. ASSUME NEW n \in 1..MaxRules, Edit(n) PROVE Contents'
  BY <1>0, <1>1, <1>5 DEF Contents, TypeOK, Routes
<1>6. CASE Fail \/ Start \/ CheckRoute \/ GetRoute \/ (WriteRoute /\ route' = route) \/ UNCHANGED vars
  <2>1. UNCHANGED <<route, want>>
    BY <1>6 DEF Fail, Start, CheckRoute, GetRoute, WriteRoute, vars
  <2> QED BY <1>3, <2>1
<1>7. ASSUME NEW j \in Part, DeleteObsolete(j) PROVE Shrinks /\ UNCHANGED want
  BY <1>7, OthersShrink DEF DeleteObsolete
<1> QED BY <1>2, <1>4, <1>5, <1>6, <1>7, ElsewhereKeeps, Steps DEF Contents

\* Going on to the next part: the one at hand is done.
LEMMA NextPartReplaced ==
    ASSUME TypeOK, Replaced, w.pc \in {"check", "get", "write"}, w' = NextPart,
           TypeOK',
           \A i \in Part : i \in Serving' =>
              \/ i \in Serving /\ route'[i].gen = route[i].gen /\ i # w.part
              \/ route'[i].gen = w.gen
    PROVE  Replaced'
<1>1. CASE NextPart = IdleWorker
  BY <1>1 DEF Replaced, IdleWorker
<1>2. CASE NextPart = [w EXCEPT !.pc = "check", !.part = w.part + 1]
  <2>1. /\ w'.pc = "check" /\ w'.part = w.part + 1 /\ w'.gen = w.gen /\ w'.n = w.n
        /\ w'.del = w.del /\ w.del = {}
    BY <1>2 DEF TypeOK, Workers, Replaced
  <2>2. ASSUME NEW i \in Part, i \in Serving', i < w'.part PROVE route'[i].gen = w'.gen
    <3>1. i \in Nat /\ w.part \in Nat
      BY Parts DEF TypeOK, Workers
    <3> QED BY <2>1, <2>2, <3>1 DEF Replaced
  <2>3. ASSUME NEW i \in Part, i \in Serving', partCount(w.n) > 1 PROVE route'[i].gen = w'.gen
    BY <2>1, <2>3 DEF Replaced
  <2>4. Serving' \subseteq Part
    BY DEF Serving
  <2> QED BY <2>1, <2>2, <2>3, <2>4 DEF Replaced
<1> QED BY <1>1, <1>2, NextPartType

\* The worker leaves behind what it made and what is not the operator's.
LEMMA ReplacedStep == TypeOK /\ Replaced /\ [Next]_vars => Replaced'
<1> SUFFICES ASSUME TypeOK, Replaced, [Next]_vars PROVE Replaced'
  OBVIOUS
<1>0. TypeOK' /\ Serving \subseteq Part /\ Serving' \subseteq Part
  BY TypeStep DEF Serving
<1>1. CASE UNCHANGED <<w, route>>
  BY <1>1 DEF Replaced, Serving
<1>2. CASE Elsewhere
  <2>1. Shrinks /\ w' = w
    BY <1>2, ElsewhereKeeps
  <2>2. \A i \in Serving' : i \in Serving /\ route'[i].gen = route[i].gen
    BY <2>1 DEF Shrinks, Serving
  <2> QED BY <2>1, <2>2 DEF Replaced
<1>3. CASE w' = IdleWorker
  BY <1>3 DEF Replaced, IdleWorker
<1>4. CASE Start
  <2>1. /\ w'.part = 1 /\ w'.n = want.n /\ Serving' = Serving /\ route' = route
        /\ w'.del = IF singleRoute(want.n) THEN {} ELSE existingRoutes
        /\ w'.pc = "check" => w'.del = {}
        /\ w'.pc \in {"check", "delete"}
    BY <1>4 DEF Start, IdleWorker, Serving
  <2>2. Serving \subseteq existingRoutes
    BY DEF Serving, existingRoutes
  <2>3. \A i \in Part : ~(i < 1)
    BY Parts
  <2>4. partCount(want.n) > 1 => w'.del = existingRoutes
    BY <2>1, Parts DEF singleRoute, TypeOK
  <2> QED BY <1>0, <2>1, <2>2, <2>3, <2>4 DEF Replaced
<1>5. CASE CheckRoute
  <2>1. CASE w' = NextPart /\ ~(route[w.part].st = "none" \/ route[w.part].ours)
    BY <1>0, <1>5, <2>1, NextPartReplaced DEF CheckRoute, Serving
  <2>2. CASE w' = [w EXCEPT !.pc = "get"]
    BY <1>5, <2>2 DEF CheckRoute, Replaced, Serving, TypeOK, Workers
  <2> QED BY <1>5, <2>1, <2>2 DEF CheckRoute
<1>6. CASE GetRoute
  BY <1>6 DEF GetRoute, Replaced, Serving, TypeOK, Workers
<1>7. CASE WriteRoute /\ route' # route
  <2>1. \A i \in Part : i \in Serving' =>
              \/ i \in Serving /\ route'[i].gen = route[i].gen /\ i # w.part
              \/ route'[i].gen = w.gen
    BY <1>7, WriteEffect DEF Serving
  <2>2. w.pc = "write" /\ w' = NextPart
    BY <1>7, WriteEffect DEF WriteRoute
  <2> QED BY <1>0, <2>1, <2>2, NextPartReplaced
<1>8. CASE WriteRoute /\ route' = route
  <2>1. CASE w' = NextPart /\ w' # IdleWorker
    <3>1. route[w.part].gen = w.gen
      <4>1. route' = [route EXCEPT ![w.part] = IF route[w.part].st = "none" THEN Created ELSE Updated]
        BY <1>8, <2>1 DEF WriteRoute
      <4>2. route'[w.part].gen = w.gen
        BY <4>1, WrittenType DEF TypeOK, Workers
      <4> QED BY <1>8, <4>2
    <3> QED BY <1>0, <1>8, <2>1, <3>1, NextPartReplaced DEF WriteRoute, Serving
  <2> QED BY <1>3, <1>8, <2>1 DEF WriteRoute
<1>9. ASSUME NEW i \in Part, DeleteObsolete(i) PROVE Replaced'
  <2>1. /\ w'.del = w.del \ {i} /\ w'.part = w.part /\ w'.gen = w.gen /\ w'.n = w.n
        /\ w'.pc \in {"check", "delete"} /\ (w'.pc = "check" => w'.del = {})
        /\ w.pc = "delete"
    BY <1>9 DEF DeleteObsolete, TypeOK, Workers
  <2>2. i \notin Serving'
    BY <1>9 DEF DeleteObsolete, Serving, NoRoute, TypeOK, Routes
  <2>3. \A j \in Serving' : j \in Serving /\ route'[j].gen = route[j].gen /\ j # i
    BY <1>9, <2>2, OthersShrink DEF Shrinks, Serving
  <2>4. \A j \in Part : ~(j < 1)
    BY Parts
  <2> QED BY <1>0, <2>1, <2>3, <2>4 DEF Replaced
<1>10. ASSUME NEW n \in 1..MaxRules, Edit(n) PROVE UNCHANGED <<w, route>>
  BY <1>10 DEF Edit
<1> QED BY <1>1, <1>2, <1>3, <1>4, <1>5, <1>6, <1>7, <1>8, <1>9, <1>10, Steps DEF Fail, vars

\* Going on from the last part: all of them are done.
LEMMA NextPartSettled ==
    ASSUME TypeOK, Translated, Replaced, w.pc \in {"check", "get", "write"},
           w' = NextPart, UNCHANGED <<want, queued>>,
           \A i \in Part : i \in Serving' =>
              \/ i \in Serving /\ route'[i].gen = route[i].gen /\ i # w.part
              \/ route'[i].gen = w.gen
    PROVE  Settled'
<1>1. CASE ~Quiet'
  BY <1>1 DEF Settled
<1>2. CASE Quiet'
  <2>1. ~(w.part < partCount(w.n)) /\ ~queued
    BY <1>2, NextPartType DEF Quiet, NextPart, IdleWorker, TypeOK, Workers
  <2>2. w.gen = want.gen /\ w.n = want.n
    BY <2>1 DEF Translated
  <2>3. ASSUME NEW i \in Serving', i <= partCount(want.n) \/ partCount(want.n) > 1
        PROVE  route'[i].gen = want.gen
    <3>1. i \in Part /\ i \in Nat /\ w.part \in Nat /\ partCount(w.n) \in Nat
      BY Parts DEF Serving, TypeOK, Workers
    <3>2. CASE i <= partCount(want.n)
      BY <2>1, <2>2, <3>1, <3>2 DEF Replaced
    <3>3. CASE partCount(want.n) > 1
      BY <2>2, <3>1, <3>3 DEF Replaced
    <3> QED BY <2>3, <3>2, <3>3
  <2> QED BY <2>3 DEF Settled
<1> QED BY <1>1, <1>2

\* At rest the routes are those of the last reconcile.
LEMMA SettledStep ==
    TypeOK /\ Translated /\ Replaced /\ Settled /\ [Next]_vars => Settled'
<1> SUFFICES ASSUME TypeOK, Translated, Replaced, Settled, [Next]_vars PROVE Settled'
  OBVIOUS
<1>1. CASE queued' \/ w'.pc # "idle"
  BY <1>1 DEF Settled, Quiet
<1>2. CASE Elsewhere
  <2>1. Shrinks /\ UNCHANGED <<want, queued, w>>
    BY <1>2, ElsewhereKeeps
  <2>2. \A i \in Serving' : i \in Serving /\ route'[i].gen = route[i].gen
    BY <2>1 DEF Shrinks, Serving
  <2> QED BY <2>1, <2>2 DEF Settled, Quiet
<1>3. CASE CheckRoute /\ w' = NextPart /\ ~(route[w.part].st = "none" \/ route[w.part].ours)
  BY <1>3, NextPartSettled DEF CheckRoute, Serving
<1>4. CASE WriteRoute /\ w' = NextPart /\ UNCHANGED queued
                     /\ route' = [route EXCEPT ![w.part] =
                                    IF route[w.part].st = "none" THEN Created ELSE Updated]
  <2>1. route'[w.part].gen = w.gen /\ \A i \in Part \ {w.part} : route'[i] = route[i]
    BY <1>4, WrittenType DEF TypeOK, Workers
  <2>2. \A i \in Part : i \in Serving' =>
              \/ i \in Serving /\ route'[i].gen = route[i].gen /\ i # w.part
              \/ route'[i].gen = w.gen
    BY <2>1 DEF Serving
  <2>3. w.pc = "write" /\ UNCHANGED want
    BY <1>4 DEF WriteRoute
  <2> QED BY <1>4, <2>2, <2>3, NextPartSettled
<1>5. CASE CheckRoute
  BY <1>1, <1>3, <1>5 DEF CheckRoute, TypeOK, Workers
<1>6. CASE WriteRoute
  BY <1>1, <1>4, <1>6 DEF WriteRoute
<1>7. CASE GetRoute \/ Start \/ Fail
  BY <1>1, <1>7 DEF GetRoute, Start, Fail, IdleWorker, TypeOK, Workers
<1>8. ASSUME NEW n \in 1..MaxRules, Edit(n) PROVE queued'
  BY <1>8 DEF Edit
<1>9. ASSUME NEW i \in Part, DeleteObsolete(i) PROVE w'.pc # "idle"
  BY <1>9 DEF DeleteObsolete, TypeOK, Workers
<1>10. CASE UNCHANGED vars
  BY <1>10 DEF vars, Settled, Quiet, Serving
<1> QED BY <1>1, <1>2, <1>5, <1>6, <1>7, <1>8, <1>9, <1>10, Steps

\* The invariant holds throughout.
LEMMA InvariantHolds == Spec => []IInv
<1>1. Init => IInv
  <2> SUFFICES ASSUME Init PROVE IInv
    OBVIOUS
  <2>1. TypeOK
    <3>1. route \in [Part -> Routes] /\ w \in Workers
      BY IdleTypes DEF Init
    <3>2. 0 \in 0..MaxRules
      BY LimitAssumption
    <3>3. want = [n |-> 0, gen |-> 0] /\ queued = FALSE /\ edits = 0 /\ fails = 0 /\ takes = 0
      BY DEF Init
    <3>4. want \in [n: 0..MaxRules, gen: Nat]
      BY <3>2, <3>3
    <3> QED BY <3>1, <3>3, <3>4 DEF TypeOK
  <2>2. Translated /\ Replaced
    BY DEF Init, Translated, Replaced, IdleWorker
  <2>3. Contents /\ Serving = {}
    BY DEF Init, Contents, Serving, NoRoute
  <2> QED BY <2>1, <2>2, <2>3 DEF IInv, Settled
<1>2. IInv /\ [Next]_vars => IInv'
  BY TypeStep, TranslatedStep, ContentsStep, ReplacedStep, SettledStep DEF IInv
<1> QED BY <1>1, <1>2, PTL DEF Spec

-----------------------------------------------------------------------------
\* Type correctness of the writing of HTTPRoutes: the worker never looks at a
\* part that is none, and a route never has a rule the Ingress could not have.
THEOREM TypeCorrect == Spec => []TypeOK
<1>1. IInv => TypeOK
  BY DEF IInv
<1> QED BY InvariantHolds, <1>1, PTL

\* Once ApplyHTTPRoutesAtomic is done with an Ingress of several parts, nothing
\* of an earlier translation serves, whatever failed on the way.
THEOREM NothingStale == Spec => []SplitHasNoStalePart
<1>1. IInv => SplitHasNoStalePart
  BY DEF IInv, Settled, SplitHasNoStalePart, NoStalePart
<1> QED BY InvariantHolds, <1>1, PTL

\* Once all parts of an Ingress serve, SplitHTTPRouteIfNeeded has put each rule
\* into exactly one of them, for every limit and every number of rules; parts
\* left over from an earlier translation do not repeat one.
THEOREM Partitioned == Spec => []RulesPartitioned
<1>1. IInv => RulesPartitioned
  <2> SUFFICES ASSUME IInv, Quiet, \A i \in 1..partCount(want.n) : i \in Serving,
                      NEW k \in 1..want.n
               PROVE  Cardinality({i \in Serving : k \in route[i].rules}) = 1
    BY DEF RulesPartitioned
  <2>1. want.n \in 0..MaxRules /\ want.n \in Nat
    BY DEF IInv, TypeOK
  <2>2. PICK i \in 1..partCount(want.n) : k \in chunk(want.n, i)
    BY <2>1, SlicesCover
  <2>3. i \in Serving /\ i \in Part /\ route[i].st # "none" /\ i <= partCount(want.n)
    BY <2>1, Parts DEF Serving
  <2>4. route[i].gen = want.gen
    BY <2>3 DEF IInv, Settled
  <2>5. k \in route[i].rules
    BY <2>2, <2>3, <2>4 DEF IInv, Contents
  <2>6. ASSUME NEW j \in Serving, k \in route[j].rules PROVE j = i
    <3>1. j \in Part /\ j \in Nat /\ i \in Nat /\ k \in Slice(j) /\ k \in Slice(i)
      BY <2>3, <2>5, <2>6, Parts DEF IInv, Contents, Serving
    <3> QED BY <3>1, SlicesDisjoint
  <2>7. {j \in Serving : k \in route[j].rules} = {i}
    BY <2>3, <2>5, <2>6
  <2> QED BY <2>7, FS_Singleton
<1> QED BY InvariantHolds, <1>1, PTL
=============================================================================
