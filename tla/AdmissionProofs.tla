--------------------------- MODULE AdmissionProofs ---------------------------
(***************************************************************************)
(* Proofs about module Admission, for every set of Ingresses, contents and *)
(* filters, and for every bound.                                           *)
(***************************************************************************)
EXTENDS Admission, FiniteSetTheorems, TLAPS

USE DEF Calls

-----------------------------------------------------------------------------
(* Sequences.                                                              *)

\* The elements of a sequence are its head and those of its tail.
LEMMA HeadAndTail ==
    ASSUME NEW S, NEW s \in Seq(S), s # <<>>
    PROVE  /\ Head(s) \in S /\ Tail(s) \in Seq(S)
           /\ ToSet(s) = {Head(s)} \cup ToSet(Tail(s))
<1>1. Len(s) \in Nat /\ Len(s) > 0 /\ Head(s) = s[1]
  OBVIOUS
<1>2. /\ Tail(s) \in Seq(S) /\ DOMAIN Tail(s) = 1..(Len(s) - 1)
      /\ \A k \in 1..(Len(s) - 1) : Tail(s)[k] = s[k + 1]
  BY <1>1
<1>3. ToSet(s) \subseteq {Head(s)} \cup ToSet(Tail(s))
  <2>1. ASSUME NEW k \in 1..Len(s), k # 1
        PROVE  s[k] = Tail(s)[k - 1] /\ k - 1 \in 1..(Len(s) - 1)
    BY <1>1, <1>2, <2>1
  <2>2. ASSUME NEW y \in ToSet(s)
        PROVE  y \in {Head(s)} \cup ToSet(Tail(s))
    <3>1. PICK k \in 1..Len(s) : y = s[k]
      BY DEF ToSet
    <3> QED BY <1>1, <1>2, <2>1, <3>1 DEF ToSet
  <2> QED BY <2>2
<1>4. ToSet(Tail(s)) \subseteq ToSet(s)
  <2>1. ASSUME NEW k \in 1..(Len(s) - 1)
        PROVE  Tail(s)[k] = s[k + 1] /\ k + 1 \in DOMAIN s
    BY <1>1, <1>2, <2>1
  <2> QED BY <1>2, <2>1 DEF ToSet
<1>5. Head(s) \in ToSet(s) /\ Head(s) \in S
  BY <1>1 DEF ToSet
<1> QED BY <1>2, <1>3, <1>4, <1>5

\* A sequence over a set is one over a larger set.
LEMMA Widened ==
    ASSUME NEW S, NEW T, S \subseteq T, NEW s \in Seq(S)
    PROVE  s \in Seq(T)
<1>1. Len(s) \in Nat /\ s \in [1..Len(s) -> T]
  OBVIOUS
<1> QED BY <1>1

\* The elements of a concatenation are those of its two parts.
LEMMA Concatenated ==
    ASSUME NEW S, NEW s \in Seq(S), NEW t \in Seq(S)
    PROVE  s \o t \in Seq(S) /\ ToSet(s \o t) = ToSet(s) \cup ToSet(t)
<1>1. /\ s \o t \in Seq(S) /\ Len(s) \in Nat /\ Len(t) \in Nat
      /\ DOMAIN (s \o t) = 1..(Len(s) + Len(t))
      /\ DOMAIN s = 1..Len(s) /\ DOMAIN t = 1..Len(t)
      /\ \A k \in 1..(Len(s) + Len(t)) :
           (s \o t)[k] = IF k <= Len(s) THEN s[k] ELSE t[k - Len(s)]
  OBVIOUS
<1>2. ASSUME NEW k \in 1..(Len(s) + Len(t))
      PROVE  (s \o t)[k] \in ToSet(s) \cup ToSet(t)
  <2>1. CASE k <= Len(s)
    BY <1>1, <2>1 DEF ToSet
  <2>2. CASE ~(k <= Len(s))
    <3>1. k - Len(s) \in 1..Len(t)
      BY <1>1, <2>2
    <3> QED BY <1>1, <2>2, <3>1 DEF ToSet
  <2> QED BY <2>1, <2>2
<1>3. ASSUME NEW k \in DOMAIN s
      PROVE  s[k] \in ToSet(s \o t)
  <2>1. k \in 1..(Len(s) + Len(t)) /\ k <= Len(s)
    BY <1>1
  <2> QED BY <1>1, <2>1 DEF ToSet
<1>4. ASSUME NEW k \in DOMAIN t
      PROVE  t[k] \in ToSet(s \o t)
  <2>1. k + Len(s) \in 1..(Len(s) + Len(t)) /\ ~(k + Len(s) <= Len(s)) /\ (k + Len(s)) - Len(s) = k
    BY <1>1
  <2>2. (s \o t)[k + Len(s)] = t[k]
    BY <1>1, <2>1
  <2> QED BY <1>1, <2>1, <2>2 DEF ToSet
<1> QED BY <1>1, <1>2, <1>3, <1>4 DEF ToSet

\* A finite set as a sequence has its elements.
LEMMA Listed ==
    ASSUME NEW S, IsFiniteSet(S)
    PROVE  SetToSeq(S) \in Seq(S) /\ ToSet(SetToSeq(S)) = S
<1> DEFINE n == Cardinality(S)
           q == SetToSeq(S)
<1>1. n \in Nat /\ ExistsBijection(1..n, S)
  BY FS_CardinalityType
<1>2. \E f \in [1..n -> S] : IsInjective(f)
  BY <1>1 DEF ExistsBijection, Bijection, Injection, IsInjective
<1>3. q \in [1..n -> S] /\ IsInjective(q)
  BY <1>2 DEF SetToSeq
<1>4. q \in Seq(S) /\ DOMAIN q = 1..n
  BY <1>1, <1>3
<1>5. IsFiniteSet(1..n) /\ Cardinality(1..n) = n
  BY <1>1, FS_Interval
<1>6. q \in Injection(1..n, S)
  BY <1>3 DEF Injection, IsInjective
<1>7. q \in Surjection(1..n, S)
  BY <1>5, <1>6, FS_Injection, Zenon
<1>8. \A x \in S : \E k \in 1..n : q[k] = x
  BY <1>7 DEF Surjection
<1> QED BY <1>3, <1>4, <1>8 DEF ToSet

-----------------------------------------------------------------------------
(* What is to be ensured for an Ingress.                                   *)

LEMMA FiltersListed ==
    ASSUME NEW me \in {"op", "wh"}, NEW i \in Ing, NEW o \in Contents
    PROVE  /\ filtersOf(me, i, o) \in Seq(Filter)
           /\ ToSet(filtersOf(me, i, o)) \cap Ing \subseteq {i}
           /\ me = "op" => o.auths \subseteq ToSet(filtersOf(me, i, o))
           /\ me = "wh" => ToSet(filtersOf(me, i, o)) \cap Auths = {}
<1> DEFINE a == SetToSeq(o.auths)
           b == SetToSeq(operatorSnippets(o))
           c == SetToSeq(webhookSnippets(o))
           d == automatic(i, o)
<1>1. /\ o.auths \subseteq Auths
      /\ operatorSnippets(o) \subseteq Snippets /\ webhookSnippets(o) \subseteq Snippets
  BY ContentsAssumption DEF operatorSnippets, webhookSnippets, snippetsOverrides
<1>2. /\ IsFiniteSet(o.auths)
      /\ IsFiniteSet(operatorSnippets(o)) /\ IsFiniteSet(webhookSnippets(o))
  BY <1>1, KindsAssumption, FS_Subset
<1>3. /\ a \in Seq(o.auths) /\ ToSet(a) = o.auths
      /\ b \in Seq(operatorSnippets(o)) /\ ToSet(b) = operatorSnippets(o)
      /\ c \in Seq(webhookSnippets(o)) /\ ToSet(c) = webhookSnippets(o)
  BY <1>2, Listed
<1>4. a \in Seq(Filter) /\ b \in Seq(Filter) /\ c \in Seq(Filter)
  <2>1. /\ o.auths \subseteq Filter /\ operatorSnippets(o) \subseteq Filter
        /\ webhookSnippets(o) \subseteq Filter
    BY <1>1 DEF Filter, Copied
  <2> HIDE DEF a, b, c
  <2> QED BY <1>3, <2>1, Widened
<1>5. d \in Seq(Filter) /\ ToSet(d) \subseteq {i}
  <2>1. CASE o.auto
    <3>1. d = <<i>> /\ i \in Filter
      BY <2>1 DEF automatic, Filter
    <3> HIDE DEF d
    <3> QED BY <3>1 DEF ToSet
  <2>2. CASE ~o.auto
    <3>1. d = <<>>
      BY <2>2 DEF automatic
    <3> HIDE DEF d
    <3> QED BY <3>1 DEF ToSet
  <2> QED BY <2>1, <2>2
<1> HIDE DEF a, b, c, d
<1>6. a \o b \in Seq(Filter) /\ ToSet(a \o b) = o.auths \cup operatorSnippets(o)
  BY <1>3, <1>4, Concatenated
<1>7. /\ (a \o b) \o d \in Seq(Filter)
      /\ ToSet((a \o b) \o d) = ToSet(a \o b) \cup ToSet(d)
  <2>1. \A s, t \in Seq(Filter) : s \o t \in Seq(Filter) /\ ToSet(s \o t) = ToSet(s) \cup ToSet(t)
    BY Concatenated
  <2> QED BY <1>5, <1>6, <2>1, Zenon
<1>8. c \o d \in Seq(Filter) /\ ToSet(c \o d) = webhookSnippets(o) \cup ToSet(d)
  BY <1>3, <1>4, <1>5, Concatenated
<1>9. CASE me = "op"
  <2>1. filtersOf(me, i, o) = (a \o b) \o d
    BY <1>9 DEF filtersOf, a, b, d
  <2> QED BY <1>1, <1>5, <1>6, <1>7, <1>9, <2>1, KindsAssumption DEF Copied
<1>10. CASE me = "wh"
  <2>1. filtersOf(me, i, o) = c \o d
    BY <1>10 DEF filtersOf, c, d
  <2> QED BY <1>1, <1>5, <1>8, <1>10, <2>1, KindsAssumption DEF Copied
<1> QED BY <1>9, <1>10

-----------------------------------------------------------------------------
(* The inductive invariant.                                                *)

\* A process at work has an Ingress and its content, and at every call the
\* filter the call is for; the version of a source it goes on with is not 0.
wellFormed(w) ==
    /\ w.pc = "idle" <=> w.i = {}
    /\ w.pc # "idle" => w.o \in Contents
    /\ w.pc \in Calls => w.todo # <<>>
    /\ w.pc \in {"apply", "answer"} => w.todo = <<>>
    /\ w.pc = "gateway" => w.after = "apply"
    /\ w.pc \in {"source", "orphan", "delete"} => Head(w.todo) \in Copied
    /\ w.pc = "owner" => Head(w.todo) \in Ing /\ w.after = "answer"
    /\ w.pc \in {"get", "create", "update"} /\ Head(w.todo) \in Copied => w.v > 0
    /\ ToSet(w.todo) \cap Ing \subseteq w.i

Staged == \A me \in {"op", "wh"} : wellFormed(proc[me])

\* A process with a current copy of a filter is about to write it, and the
\* filter is the operator's.
Current ==
    \A me \in fresh : proc[me].pc = "update" /\ obj[Head(proc[me].todo)].st = "ours"

\* A copy has no owner.  An automatic filter belongs to its own Ingress or
\* route, and to one that is gone only when its Ingress was deleted.
Owned ==
    /\ \A f \in Copied : obj[f].owner = NoOwner
    /\ \A x \in Ing : \/ obj[x].owner \in {NoOwner, <<"ingress", x>>, <<"route", x>>}
                      \/ obj[x].owner = Gone /\ x \in excused
    /\ \A i \in Ing : route[i].owner = Gone => i \in excused
    /\ \A me \in {"op", "wh"} :
         /\ proc[me].owner = Gone => proc[me].i \subseteq excused
         /\ \A i \in Ing : proc[me].owner \in {<<"ingress", i>>, <<"route", i>>} => proc[me].i = {i}

\* Whoever deletes a copy, or found no source, has found a filter that is excused.
Missing ==
    /\ \A f \in Copied : src[f] = 0 => f \in excused
    /\ \A me \in {"op", "wh"} :
         proc[me].pc \in {"orphan", "delete"} => Head(proc[me].todo) \in excused

there(x) == obj[x].st # "none" \/ x \in excused

\* What a route refers to is there, and so is what one is going to refer to.
Existing ==
    /\ \A i \in Ing : \A x \in route[i].refs : there(x)
    /\ \A me \in {"op", "wh"} :
         /\ \A x \in proc[me].refs : there(x)
         /\ proc[me].pc = "update" => there(Head(proc[me].todo))

\* What the operator is translating was not reconciled already, and is current
\* as long as it is held.
Held ==
    /\ held \subseteq proc["op"].i
    /\ \A i \in held : proc["op"].o = ing[i]
    /\ seen \cap proc["op"].i = {}
    /\ proc["op"].after = "apply"

\* Only the operator ensures the extension filters, and what it finds stays so.
Alone ==
    /\ ToSet(proc["wh"].todo) \cap Auths = {}
    /\ proc["op"].pc = "create" /\ Head(proc["op"].todo) \in Auths =>
         obj[Head(proc["op"].todo)].st = "none"
    /\ proc["op"].pc = "update" /\ Head(proc["op"].todo) \in Auths =>
         \/ "op" \in fresh \/ obj[Head(proc["op"].todo)].st = "foreign"
         \/ Head(proc["op"].todo) \in excused

settled(f, refs) == f \in refs \/ obj[f].st = "foreign"

\* No extension filter that the Ingress at hand asks for is passed over.
Pursued ==
    proc["op"].pc # "idle" =>
        \A f \in proc["op"].o.auths \ excused :
            f \in ToSet(proc["op"].todo) \/ settled(f, proc["op"].refs)

\* The route of an Ingress in the cache refers to all of them, but for what
\* the webhook wrote and has not answered yet, or wrote for a request that was
\* not stored.
Served ==
    \A i \in seen : ing[i] # NoIngress /\ route[i].st = "live" =>
        \/ i \in unstored
        \/ proc["wh"].i = {i} /\ proc["wh"].after = "answer"
        \/ \A f \in ing[i].auths \ excused : settled(f, route[i].refs)

-----------------------------------------------------------------------------
(* The processes.                                                          *)

\* What a process is that starts on its list of filters.
LEMMA StartedFields ==
    ASSUME NEW w \in Processes
    PROVE  /\ started(w) \in Processes
           /\ started(w).i = w.i /\ started(w).o = w.o /\ started(w).todo = w.todo
           /\ started(w).after = w.after /\ started(w).refs = w.refs
           /\ started(w).v = w.v /\ started(w).owner = w.owner
           /\ w.todo = <<>> => started(w).pc = w.after
           /\ w.todo # <<>> => /\ started(w).pc \in {"source", "owner", "get"}
                               /\ (started(w).pc = "source") <=> (Head(w.todo) \in Copied)
                               /\ started(w).pc = "owner" => w.after = "answer"
<1> DEFINE p == IF w.todo = <<>> THEN w.after
                ELSE IF Head(w.todo) \in Copied THEN "source"
                ELSE IF w.after = "answer" THEN "owner" ELSE "get"
<1>1. started(w) = [w EXCEPT !.pc = p]
  BY DEF started
<1>2. w.after \in {"apply", "answer"}
  BY DEF Processes
<1>3. p \in {"apply", "answer", "source", "owner", "get"}
  BY <1>2
<1>4. /\ w.todo = <<>> => p = w.after
      /\ w.todo # <<>> => /\ p \in {"source", "owner", "get"}
                          /\ (p = "source") <=> (Head(w.todo) \in Copied)
                          /\ p = "owner" => w.after = "answer"
  <2>1. CASE w.todo = <<>>
    BY <2>1
  <2>2. CASE w.todo # <<>> /\ Head(w.todo) \in Copied
    BY <2>2
  <2>3. CASE w.todo # <<>> /\ Head(w.todo) \notin Copied
    BY <2>3
  <2> QED BY <2>1, <2>2, <2>3
<1> HIDE DEF p
<1> QED BY <1>1, <1>3, <1>4 DEF Processes

\* It is well formed when it has an Ingress.
LEMMA StartedWell ==
    ASSUME NEW w \in Processes, w.i # {}, w.o \in Contents, ToSet(w.todo) \cap Ing \subseteq w.i
    PROVE  wellFormed(started(w)) /\ started(w).pc \notin {"idle", "orphan", "delete", "create", "update"}
<1>1. w.after \in {"apply", "answer"} /\ w.todo \in Seq(Filter)
  BY DEF Processes
<1>2. w.todo # <<>> => Head(w.todo) \in Filter
  BY <1>1, HeadAndTail
<1>3. CASE w.todo = <<>>
  BY <1>1, <1>3, StartedFields DEF wellFormed
<1>4. CASE w.todo # <<>>
  <2>1. /\ started(w).pc \in {"source", "owner", "get"}
        /\ (started(w).pc = "source") <=> (Head(w.todo) \in Copied)
        /\ started(w).i = w.i /\ started(w).o = w.o /\ started(w).todo = w.todo
        /\ started(w).after = w.after /\ (started(w).pc = "owner" => w.after = "answer")
    BY <1>4, StartedFields
  <2>2. started(w).pc # "source" => Head(w.todo) \in Ing
    BY <1>2, <1>4, <2>1 DEF Filter
  <2> QED BY <1>4, <2>1, <2>2 DEF wellFormed
<1> QED BY <1>3, <1>4

\* What is known of a process.
LEMMA ProcessTyped ==
    ASSUME TypeOK, Staged, NEW me \in {"op", "wh"}
    PROVE  /\ proc[me] \in Processes /\ wellFormed(proc[me])
           /\ proc[me].todo \in Seq(Filter) /\ proc[me].refs \subseteq Filter
           /\ proc[me].pc \in Calls => Head(proc[me].todo) \in Filter
           /\ DOMAIN proc = {"op", "wh"}
<1>1. proc[me] \in Processes /\ DOMAIN proc = {"op", "wh"}
  BY DEF TypeOK
<1>2. wellFormed(proc[me])
  BY DEF Staged
<1>3. proc[me].todo \in Seq(Filter) /\ proc[me].refs \subseteq Filter
  BY <1>1 DEF Processes
<1> QED BY <1>1, <1>2, <1>3, HeadAndTail DEF wellFormed

\* When a filter is done, the next one is begun.
LEMMA DoneStep ==
    ASSUME TypeOK, Staged, NEW me \in {"op", "wh"}, NEW result, Done(me, result),
           proc[me].pc \in Calls
    PROVE  /\ proc' \in [{"op", "wh"} -> Processes]
           /\ \A m \in {"op", "wh"} : m # me => proc'[m] = proc[m]
           /\ wellFormed(proc'[me])
           /\ proc'[me].pc \notin {"idle", "orphan", "delete", "create", "update"}
           /\ proc'[me].i = proc[me].i /\ proc'[me].o = proc[me].o
           /\ proc'[me].todo = Tail(proc[me].todo)
           /\ proc'[me].after = proc[me].after /\ proc'[me].owner = proc[me].owner
           /\ proc[me].refs \subseteq proc'[me].refs
           /\ proc'[me].refs \subseteq proc[me].refs \cup {Head(proc[me].todo)}
           /\ proc[me].after = "apply" /\ refersTo(me, Head(proc[me].todo), result) =>
                Head(proc[me].todo) \in proc'[me].refs
           /\ Head(proc[me].todo) \in proc'[me].refs =>
                \/ Head(proc[me].todo) \in proc[me].refs
                \/ proc[me].after = "apply" /\ refersTo(me, Head(proc[me].todo), result)
<1> DEFINE w == proc[me]
           x == Head(w.todo)
           refs == IF w.after = "apply" /\ refersTo(me, x, result) THEN w.refs \cup {x} ELSE w.refs
           n == [w EXCEPT !.todo = Tail(w.todo), !.refs = refs]
<1>1. /\ w \in Processes /\ wellFormed(w) /\ w.todo \in Seq(Filter) /\ w.refs \subseteq Filter
      /\ x \in Filter /\ w.todo # <<>>
  BY ProcessTyped DEF wellFormed
<1>2. proc' = [proc EXCEPT ![me] = started(n)]
  BY DEF Done
<1>3. /\ Tail(w.todo) \in Seq(Filter) /\ ToSet(Tail(w.todo)) \subseteq ToSet(w.todo)
  BY <1>1, HeadAndTail
<1>4. refs \subseteq Filter /\ w.refs \subseteq refs /\ refs \subseteq w.refs \cup {x}
  BY <1>1
<1>5. /\ w.after = "apply" /\ refersTo(me, x, result) => x \in refs
      /\ x \in refs => x \in w.refs \/ (w.after = "apply" /\ refersTo(me, x, result))
  OBVIOUS
<1>6. proc \in [{"op", "wh"} -> Processes]
  BY DEF TypeOK
<1> HIDE DEF refs
<1>7. /\ n \in Processes /\ n.i = w.i /\ n.o = w.o /\ n.todo = Tail(w.todo) /\ n.refs = refs
      /\ n.after = w.after /\ n.owner = w.owner
  BY <1>1, <1>3, <1>4 DEF Processes
<1>8. n.i # {} /\ n.o \in Contents /\ ToSet(n.todo) \cap Ing \subseteq n.i
  BY <1>1, <1>3, <1>7 DEF wellFormed
<1> HIDE DEF n
<1>9. /\ started(n) \in Processes /\ wellFormed(started(n))
      /\ started(n).pc \notin {"idle", "orphan", "delete", "create", "update"}
      /\ started(n).i = n.i /\ started(n).o = n.o /\ started(n).todo = n.todo
      /\ started(n).after = n.after /\ started(n).refs = n.refs /\ started(n).owner = n.owner
  BY <1>7, <1>8, StartedFields, StartedWell
<1>10. /\ proc' \in [{"op", "wh"} -> Processes] /\ proc'[me] = started(n)
       /\ \A m \in {"op", "wh"} : m # me => proc'[m] = proc[m]
  BY <1>2, <1>6, <1>9
<1> QED BY <1>4, <1>5, <1>7, <1>9, <1>10

\* The next call for the filter at hand.
LEMMA GotoStep ==
    ASSUME TypeOK, Staged, NEW me \in {"op", "wh"}, NEW p, Goto(me, p),
           proc[me].pc \in Calls, p \in Calls,
           p = "delete" => proc[me].pc = "orphan",
           p \in {"create", "update"} => proc[me].pc = "get",
           p \notin {"source", "orphan", "owner", "get"}
    PROVE  /\ proc' \in [{"op", "wh"} -> Processes]
           /\ \A m \in {"op", "wh"} : m # me => proc'[m] = proc[m]
           /\ wellFormed(proc'[me]) /\ proc'[me] = [proc[me] EXCEPT !.pc = p]
<1>1. proc[me] \in Processes /\ wellFormed(proc[me])
  BY ProcessTyped
<1>2. proc' = [proc EXCEPT ![me] = [proc[me] EXCEPT !.pc = p]]
  BY DEF Goto
<1>3. [proc[me] EXCEPT !.pc = p] \in Processes
  BY <1>1 DEF Processes
<1>4. wellFormed([proc[me] EXCEPT !.pc = p])
  BY <1>1 DEF wellFormed, Processes
<1> QED BY <1>2, <1>3, <1>4 DEF TypeOK

LEMMA IdleTyped == Idle \in Processes /\ wellFormed(Idle)
<1>1. Idle \in Processes
  BY BoundsAssumption DEF Idle, Processes, Owners
<1>2. ToSet(<<>>) = {}
  BY DEF ToSet
<1> QED BY <1>1, <1>2 DEF Idle, wellFormed

\* Losing an owner changes nothing else.
LEMMA OrphanedStep ==
    ASSUME TypeOK, Staged, NEW of, proc' = procOrphaned(of)
    PROVE  /\ proc' \in [{"op", "wh"} -> Processes] /\ Staged'
           /\ \A m \in {"op", "wh"} : proc'[m] = [proc[m] EXCEPT !.owner = orphaned(@, of)]
<1>1. ASSUME NEW m \in {"op", "wh"}
      PROVE  /\ proc'[m] = [proc[m] EXCEPT !.owner = orphaned(proc[m].owner, of)]
             /\ proc'[m] \in Processes /\ wellFormed(proc'[m])
  <2>1. proc[m] \in Processes /\ wellFormed(proc[m])
    BY ProcessTyped
  <2>2. orphaned(proc[m].owner, of) \in Owners
    BY <2>1 DEF orphaned, Owners, Processes
  <2>3. proc'[m] = [proc[m] EXCEPT !.owner = orphaned(proc[m].owner, of)]
    BY DEF procOrphaned
  <2>4. proc'[m] \in Processes
    BY <2>1, <2>2, <2>3 DEF Processes
  <2>5. /\ proc'[m].pc = proc[m].pc /\ proc'[m].i = proc[m].i /\ proc'[m].o = proc[m].o
        /\ proc'[m].todo = proc[m].todo /\ proc'[m].v = proc[m].v
        /\ proc'[m].after = proc[m].after
    BY <2>1, <2>3 DEF Processes
  <2>6. wellFormed(proc'[m])
    BY <2>1, <2>5 DEF wellFormed
  <2> QED BY <2>3, <2>4, <2>6
<1>2. proc' \in [{"op", "wh"} -> Processes]
  BY <1>1 DEF procOrphaned
<1> QED BY <1>1, <1>2 DEF Staged

\* A filter is ensured call by call, each with what it needs.
LEMMA CallStep ==
    ASSUME TypeOK, Staged, NEW me \in {"op", "wh"}, NEW x \in Filter, EnsureFilter(me, x)
    PROVE  /\ proc' \in [{"op", "wh"} -> Processes]
           /\ \A m \in {"op", "wh"} : m # me => proc'[m] = proc[m]
           /\ wellFormed(proc'[me])
           /\ proc[me].pc \in Calls /\ x = Head(proc[me].todo)
<1> USE DEF At
<1> DEFINE w == proc[me]
<1>0. w \in Processes /\ wellFormed(w) /\ src \in [Copied -> 0..MaxVersion]
  BY ProcessTyped DEF TypeOK
<1>1. CASE GetSource(me, x)
  <2>1. w.pc = "source" /\ x = Head(w.todo) /\ x \in Copied
    BY <1>0, <1>1 DEF GetSource, wellFormed
  <2>2. CASE sourcePlan(x) = "skipped"
    BY <1>1, <2>1, <2>2, DoneStep DEF GetSource
  <2>3. CASE sourcePlan(x) # "skipped"
    <3> DEFINE n == [w EXCEPT !.pc = sourcePlan(x), !.v = src[x]]
    <3>1. proc' = [proc EXCEPT ![me] = n]
      BY <1>1, <2>3 DEF GetSource
    <3>2. src[x] \in 0..MaxVersion /\ sourcePlan(x) \in {"get", "orphan"}
          /\ (sourcePlan(x) = "get" => src[x] > 0)
      BY <1>0, <2>1, <2>3 DEF sourcePlan
    <3>3. n \in Processes
      BY <1>0, <3>2 DEF Processes
    <3>4. /\ n.pc = sourcePlan(x) /\ n.v = src[x]
          /\ n.i = w.i /\ n.o = w.o /\ n.todo = w.todo
      BY <1>0 DEF Processes
    <3> HIDE DEF n
    <3>5. wellFormed(n)
      BY <1>0, <2>1, <3>2, <3>4 DEF wellFormed
    <3> QED BY <2>1, <3>1, <3>3, <3>5 DEF TypeOK
  <2> QED BY <2>2, <2>3
<1>2. CASE GetOrphan(me, x)
  BY <1>2, DoneStep, GotoStep DEF GetOrphan
<1>3. CASE DeleteOrphan(me, x)
  BY <1>3, DoneStep DEF DeleteOrphan
<1>4. CASE GetOwner(me, x)
  <2>1. w.pc = "owner" /\ x = Head(w.todo) /\ x \in Ing /\ x \notin Copied
    BY <1>0, <1>4, KindsAssumption DEF GetOwner, wellFormed
  <2>2. CASE route[x].st = "none"
    BY <1>4, <2>1, <2>2, DoneStep DEF GetOwner
  <2>3. CASE route[x].st # "none"
    <3> DEFINE n == [w EXCEPT !.pc = "get", !.owner = <<"route", x>>]
    <3>1. proc' = [proc EXCEPT ![me] = n]
      BY <1>4, <2>3 DEF GetOwner
    <3>2. <<"route", x>> \in Owners
      BY <2>1 DEF Owners
    <3>3. n \in Processes
      BY <1>0, <3>2 DEF Processes
    <3>4. /\ n.pc = "get" /\ n.i = w.i /\ n.o = w.o /\ n.todo = w.todo
      BY <1>0 DEF Processes
    <3> HIDE DEF n
    <3>5. wellFormed(n)
      BY <1>0, <2>1, <3>4 DEF wellFormed
    <3> QED BY <2>1, <3>1, <3>3, <3>5 DEF TypeOK
  <2> QED BY <2>2, <2>3
<1>5. CASE GetFilter(me, x)
  <2>1. obj[x].st \in {"none", "ours", "foreign"}
    BY DEF TypeOK, Objects
  <2> QED BY <1>5, <2>1, DoneStep, GotoStep DEF GetFilter
<1>6. CASE CreateFilter(me, x)
  BY <1>6, DoneStep DEF CreateFilter
<1>7. CASE UpdateFilter(me, x)
  BY <1>7, DoneStep DEF UpdateFilter
<1>8. CASE FilterFails(me, x)
  BY <1>8, DoneStep DEF FilterFails
<1> QED BY <1>1, <1>2, <1>3, <1>4, <1>5, <1>6, <1>7, <1>8 DEF EnsureFilter

\* A process that begins, or goes on to, the filters of an Ingress.
LEMMA BegunStep ==
    ASSUME TypeOK, Staged, NEW me \in {"op", "wh"}, NEW w \in Processes,
           NEW i \in Ing, w.i = {i}, w.o \in Contents, w.todo = filtersOf(me, i, w.o),
           proc' = [proc EXCEPT ![me] = started(w)]
    PROVE  /\ proc' \in [{"op", "wh"} -> Processes] /\ Staged'
           /\ \A m \in {"op", "wh"} : m # me => proc'[m] = proc[m]
           /\ proc'[me] = started(w)
           /\ proc'[me].pc \notin {"idle", "orphan", "delete", "create", "update"}
<1>1. ToSet(w.todo) \cap Ing \subseteq w.i
  BY FiltersListed
<1>2. /\ started(w) \in Processes /\ wellFormed(started(w))
      /\ started(w).pc \notin {"idle", "orphan", "delete", "create", "update"}
  BY <1>1, StartedFields, StartedWell
<1>3. /\ proc' \in [{"op", "wh"} -> Processes] /\ proc'[me] = started(w)
      /\ \A m \in {"op", "wh"} : m # me => proc'[m] = proc[m]
  BY <1>2 DEF TypeOK
<1> QED BY <1>2, <1>3 DEF Staged

\* The record that OpStart begins with.
opBegun(i) ==
    [Idle EXCEPT !.i = {i}, !.o = ing[i], !.todo = filtersOf("op", i, ing[i]), !.owner = <<"ingress", i>>]

LEMMA OpBegun ==
    ASSUME NEW i \in Ing, ing[i] \in Contents
    PROVE  /\ opBegun(i) \in Processes
           /\ opBegun(i).i = {i} /\ opBegun(i).o = ing[i] /\ opBegun(i).after = "apply"
           /\ opBegun(i).todo = filtersOf("op", i, ing[i]) /\ opBegun(i).refs = {}
           /\ opBegun(i).owner = <<"ingress", i>>
<1>1. filtersOf("op", i, ing[i]) \in Seq(Filter)
  BY FiltersListed
<1>2. <<"ingress", i>> \in Owners
  BY DEF Owners
<1>3. Idle \in Processes /\ Idle.after = "apply" /\ Idle.refs = {}
  BY IdleTyped DEF Idle
<1>4. opBegun(i) \in Processes
  BY <1>1, <1>2, <1>3 DEF opBegun, Processes
<1> QED BY <1>3, <1>4 DEF opBegun, Processes

\* The record that the webhook goes on with, in its first or second round.
whBegun(i, after) ==
    [proc["wh"] EXCEPT !.after = after, !.todo = filtersOf("wh", i, proc["wh"].o)]

LEMMA WHBegun ==
    ASSUME TypeOK, Staged, NEW i \in Ing, proc["wh"].i = {i}, NEW after \in {"apply", "answer"}
    PROVE  /\ whBegun(i, after) \in Processes
           /\ whBegun(i, after).i = {i} /\ whBegun(i, after).o = proc["wh"].o
           /\ whBegun(i, after).after = after /\ whBegun(i, after).refs = proc["wh"].refs
           /\ whBegun(i, after).todo = filtersOf("wh", i, proc["wh"].o)
           /\ whBegun(i, after).owner = proc["wh"].owner
           /\ proc["wh"].o \in Contents
<1>1. proc["wh"] \in Processes /\ proc["wh"].o \in Contents
  BY ProcessTyped DEF wellFormed
<1>2. filtersOf("wh", i, proc["wh"].o) \in Seq(Filter)
  BY <1>1, FiltersListed
<1> QED BY <1>1, <1>2 DEF whBegun, Processes

\* Every step leaves the processes well formed.
LEMMA StagedStep ==
    ASSUME TypeOK, Staged, Next
    PROVE  proc' \in [{"op", "wh"} -> Processes] /\ Staged'
<1>1. ASSUME UNCHANGED proc
      PROVE  proc' \in [{"op", "wh"} -> Processes] /\ Staged'
  BY <1>1 DEF TypeOK, Staged
<1>2. ASSUME NEW me \in {"op", "wh"}, proc' = [proc EXCEPT ![me] = Idle]
      PROVE  proc' \in [{"op", "wh"} -> Processes] /\ Staged'
  BY <1>2, IdleTyped DEF TypeOK, Staged
<1>3. ASSUME NEW i \in Ing, NEW o \in Contents, Admit(i, o)
      PROVE  proc' \in [{"op", "wh"} -> Processes] /\ Staged'
  <2> DEFINE n == [Idle EXCEPT !.pc = "gateway", !.i = {i}, !.o = o]
  <2>1. n \in Processes
    BY IdleTyped DEF Processes
  <2>2. n.pc = "gateway" /\ n.i = {i} /\ n.o = o /\ n.todo = <<>> /\ ToSet(<<>>) = {} /\ n.after = "apply"
    BY DEF Idle, ToSet
  <2>3. proc' = [proc EXCEPT !["wh"] = n] \/ UNCHANGED proc
    BY <1>3 DEF Admit
  <2> HIDE DEF n
  <2>4. wellFormed(n)
    BY <2>2 DEF wellFormed
  <2> QED BY <1>1, <2>1, <2>3, <2>4 DEF TypeOK, Staged
<1>4. ASSUME NEW i \in Ing, OpStart(i)
      PROVE  proc' \in [{"op", "wh"} -> Processes] /\ Staged'
  <2>1. CASE ing[i] # NoIngress /\ translated(ing[i]) /\ i \notin seen
    <3>1. ing[i] \in Contents
      BY <2>1 DEF TypeOK
    <3>2. proc' = [proc EXCEPT !["op"] = started(opBegun(i))]
      BY <1>4, <2>1 DEF OpStart, opBegun
    <3> DEFINE w == opBegun(i)
    <3>3. w \in Processes /\ w.i = {i} /\ w.o \in Contents /\ w.todo = filtersOf("op", i, w.o)
      BY <3>1, OpBegun
    <3> HIDE DEF w
    <3> QED BY <3>2, <3>3, BegunStep DEF w
  <2>2. CASE ~(ing[i] # NoIngress /\ translated(ing[i]) /\ i \notin seen)
    BY <1>1, <1>4, <2>2 DEF OpStart
  <2> QED BY <2>1, <2>2
<1>5. ASSUME NEW i \in Ing, WHGateway(i)
      PROVE  proc' \in [{"op", "wh"} -> Processes] /\ Staged'
  <2>1. proc' = [proc EXCEPT !["wh"] = started(whBegun(i, "apply"))] /\ proc["wh"].i = {i}
    BY <1>5 DEF WHGateway, whBegun, TypeOK
  <2> DEFINE w == whBegun(i, "apply")
  <2>2. w \in Processes /\ w.i = {i} /\ w.o \in Contents /\ w.todo = filtersOf("wh", i, w.o)
    BY <2>1, WHBegun
  <2> HIDE DEF w
  <2> QED BY <2>1, <2>2, BegunStep DEF w
<1>6. ASSUME NEW i \in Ing, WHApply(i)
      PROVE  proc' \in [{"op", "wh"} -> Processes] /\ Staged'
  <2>1. proc' = [proc EXCEPT !["wh"] = started(whBegun(i, "answer"))] /\ proc["wh"].i = {i}
    BY <1>6 DEF WHApply, whBegun, TypeOK
  <2> DEFINE w == whBegun(i, "answer")
  <2>2. w \in Processes /\ w.i = {i} /\ w.o \in Contents /\ w.todo = filtersOf("wh", i, w.o)
    BY <2>1, WHBegun
  <2> HIDE DEF w
  <2> QED BY <2>1, <2>2, BegunStep DEF w
<1>7. ASSUME NEW me \in {"op", "wh"}, NEW x \in Filter, EnsureFilter(me, x)
      PROVE  proc' \in [{"op", "wh"} -> Processes] /\ Staged'
  BY <1>7, CallStep DEF Staged
<1>8. CASE Environment
  <2>1. ASSUME NEW i \in Ing, NEW o \in Contents, Bypass(i, o)
        PROVE  UNCHANGED proc
    BY <2>1 DEF Bypass
  <2>2. ASSUME NEW i \in Ing, UserDelete(i)
        PROVE  proc' = procOrphaned(<<"ingress", i>>)
    BY <2>2 DEF UserDelete
  <2>3. ASSUME NEW i \in Ing, Expire(i)
        PROVE  UNCHANGED proc
    BY <2>3 DEF Expire
  <2>4. ASSUME NEW i \in Ing, CollectRoute(i)
        PROVE  proc' = procOrphaned(<<"route", i>>)
    BY <2>4 DEF CollectRoute
  <2>5. ASSUME NEW f \in Copied, UserSource(f)
        PROVE  UNCHANGED proc
    BY <2>5 DEF UserSource
  <2>6. ASSUME NEW x \in Filter, UserTakes(x) \/ CollectFilter(x)
        PROVE  UNCHANGED proc
    BY <2>6 DEF UserTakes, CollectFilter
  <2>7. ASSUME Restart \/ Timeout
        PROVE  \E me \in {"op", "wh"} : proc' = [proc EXCEPT ![me] = Idle]
    BY <2>7 DEF Restart, Timeout
  <2> QED BY <1>1, <1>2, <1>3, <1>8, <2>1, <2>2, <2>3, <2>4, <2>5, <2>6, <2>7, OrphanedStep
          DEF Environment
<1>9. CASE Work
  <2>1. ASSUME NEW i \in Ing, OpApply(i) \/ OpApplyFails(i) \/ WHAnswer(i)
        PROVE  \E me \in {"op", "wh"} : proc' = [proc EXCEPT ![me] = Idle]
    BY <2>1 DEF OpApply, OpApplyFails, WHAnswer
  <2> QED BY <1>2, <1>4, <1>5, <1>6, <1>7, <1>9, <2>1 DEF Work
<1> QED BY <1>8, <1>9 DEF Next

-----------------------------------------------------------------------------
(* The filters of the namespace.                                           *)

\* What may become of a filter in a step.
orphanedInStep(x) ==
    /\ obj'[x] = [obj[x] EXCEPT !.owner = Gone]
    /\ \E i \in Ing : \/ obj[x].owner = <<"ingress", i>> /\ i \in excused'
                      \/ obj[x].owner = <<"route", i>> /\ route[i].owner = Gone
takenInStep(x) == obj[x].st = "ours" /\ obj'[x] = [obj[x] EXCEPT !.st = "foreign"]
removedInStep(x) ==
    obj'[x] = NoObject /\ (obj[x].owner = Gone \/ \E me \in {"op", "wh"} : At(me, "delete", x))
writtenInStep(x) ==
    \E me \in {"op", "wh"} :
        /\ EnsureFilter(me, x)
        /\ obj'[x] = desired(proc[me], x)
        /\ \/ At(me, "create", x) /\ obj[x].st = "none"
           \/ At(me, "update", x) /\ me \in fresh

LEMMA ObjectStep ==
    ASSUME TypeOK, Next
    PROVE  /\ obj' = [y \in Filter |-> obj'[y]]
           /\ \A x \in Filter : \/ obj'[x] = obj[x]
                                \/ orphanedInStep(x) \/ takenInStep(x)
                                \/ removedInStep(x) \/ writtenInStep(x)
<1> DEFINE G == /\ obj' = [y \in Filter |-> obj'[y]]
                /\ \A x \in Filter : \/ obj'[x] = obj[x]
                                     \/ orphanedInStep(x) \/ takenInStep(x)
                                     \/ removedInStep(x) \/ writtenInStep(x)
<1> SUFFICES G
  OBVIOUS
<1>0. obj \in [Filter -> Objects] /\ DOMAIN obj = Filter
  BY DEF TypeOK
<1>1. ASSUME UNCHANGED obj
      PROVE  G
  BY <1>0, <1>1
<1>2. ASSUME NEW of, obj' = objOrphaned(of),
             NEW i \in Ing,
             \/ of = <<"ingress", i>> /\ i \in excused'
             \/ of = <<"route", i>> /\ route[i].owner = Gone
      PROVE  G
  <2>1. obj' = [y \in Filter |-> obj'[y]]
    BY <1>2 DEF objOrphaned
  <2>2. ASSUME NEW x \in Filter
        PROVE  obj'[x] = obj[x] \/ orphanedInStep(x)
    <3>1. obj'[x] = [obj[x] EXCEPT !.owner = orphaned(obj[x].owner, of)]
      BY <1>2 DEF objOrphaned
    <3>2. obj[x] \in Objects
      BY <1>0
    <3>3. CASE obj[x].owner = of
      <4>1. obj'[x] = [obj[x] EXCEPT !.owner = Gone]
        BY <3>1, <3>3 DEF orphaned
      <4>2. \/ obj[x].owner = <<"ingress", i>> /\ i \in excused'
            \/ obj[x].owner = <<"route", i>> /\ route[i].owner = Gone
        BY <1>2, <3>3
      <4>3. \E j \in Ing : \/ obj[x].owner = <<"ingress", j>> /\ j \in excused'
                           \/ obj[x].owner = <<"route", j>> /\ route[j].owner = Gone
        BY <1>2, <4>2, Zenon
      <4> QED BY <4>1, <4>3, Zenon DEF orphanedInStep
    <3>4. CASE obj[x].owner # of
      BY <3>1, <3>2, <3>4 DEF orphaned, Objects
    <3> QED BY <3>3, <3>4
  <2> QED BY <2>1, <2>2
<1>3. ASSUME NEW y \in Filter, NEW new, obj' = [obj EXCEPT ![y] = new],
             \/ new = [obj[y] EXCEPT !.st = "foreign"] /\ obj[y].st = "ours"
             \/ new = NoObject /\ (obj[y].owner = Gone \/ \E me \in {"op", "wh"} : At(me, "delete", y))
             \/ \E me \in {"op", "wh"} : /\ EnsureFilter(me, y) /\ new = desired(proc[me], y)
                                         /\ \/ At(me, "create", y) /\ obj[y].st = "none"
                                            \/ At(me, "update", y) /\ me \in fresh
      PROVE  G
  <2>1. obj' = [z \in Filter |-> obj'[z]] /\ obj'[y] = new /\ \A x \in Filter : x # y => obj'[x] = obj[x]
    BY <1>0, <1>3
  <2>2. takenInStep(y) \/ removedInStep(y) \/ writtenInStep(y)
    BY <1>3, <2>1 DEF takenInStep, removedInStep, writtenInStep
  <2> QED BY <2>1, <2>2
<1> HIDE DEF G
<1>4. ASSUME NEW me \in {"op", "wh"}, NEW x \in Filter, EnsureFilter(me, x)
      PROVE  G
  <2>1. CASE GetSource(me, x) \/ GetOrphan(me, x) \/ GetOwner(me, x) \/ GetFilter(me, x)
             \/ FilterFails(me, x)
    BY <1>1, <2>1 DEF GetSource, GetOrphan, GetOwner, GetFilter, FilterFails
  <2>2. CASE DeleteOrphan(me, x)
    BY <1>3, <2>2 DEF DeleteOrphan, Write
  <2>3. CASE CreateFilter(me, x)
    BY <1>1, <1>3, <1>4, <2>3 DEF CreateFilter, Write
  <2>4. CASE UpdateFilter(me, x)
    BY <1>1, <1>3, <1>4, <2>4 DEF UpdateFilter, UpdateAccepted, Write
  <2> QED BY <1>4, <2>1, <2>2, <2>3, <2>4 DEF EnsureFilter
<1>5. CASE Environment
  <2>1. ASSUME NEW i \in Ing, NEW o \in Contents, Bypass(i, o) \/ Admit(i, o)
        PROVE  G
    BY <1>1, <2>1 DEF Bypass, Admit
  <2>2. ASSUME NEW i \in Ing, UserDelete(i)
        PROVE  G
    BY <1>2, <2>2 DEF UserDelete
  <2>3. ASSUME NEW i \in Ing, Expire(i)
        PROVE  G
    BY <1>1, <2>3 DEF Expire
  <2>4. ASSUME NEW i \in Ing, CollectRoute(i)
        PROVE  G
    BY <1>2, <2>4 DEF CollectRoute
  <2>5. ASSUME NEW f \in Copied, UserSource(f)
        PROVE  G
    BY <1>1, <2>5 DEF UserSource
  <2>6. ASSUME NEW x \in Filter, UserTakes(x)
        PROVE  G
    BY <1>3, <2>6 DEF UserTakes
  <2>7. ASSUME NEW x \in Filter, CollectFilter(x)
        PROVE  G
    BY <1>3, <2>7 DEF CollectFilter
  <2>8. ASSUME Restart \/ Timeout
        PROVE  G
    BY <1>1, <2>8 DEF Restart, Timeout
  <2> QED BY <1>5, <2>1, <2>2, <2>3, <2>4, <2>5, <2>6, <2>7, <2>8 DEF Environment
<1>6. CASE Work
  <2>1. ASSUME NEW i \in Ing,
               \/ OpStart(i) \/ OpApply(i) \/ OpApplyFails(i)
               \/ WHGateway(i) \/ WHApply(i) \/ WHAnswer(i)
        PROVE  UNCHANGED obj
    BY <2>1 DEF OpStart, OpApply, OpApplyFails, WHGateway, WHApply, WHAnswer
  <2> QED BY <1>1, <1>4, <1>6, <2>1 DEF Work
<1> QED BY <1>5, <1>6 DEF Next

\* A filter keeps its type; a copy is of a version there was.
LEMMA ObjectType ==
    ASSUME TypeOK, Staged, Next
    PROVE  /\ obj' \in [Filter -> Objects]
           /\ \A f \in Copied : obj'[f].st # "none" => obj'[f].v > 0
<1>1. ASSUME NEW x \in Filter
      PROVE  obj'[x] \in Objects /\ (x \in Copied /\ obj'[x].st # "none" => obj'[x].v > 0)
  <2>0. obj[x] \in Objects /\ (x \in Copied /\ obj[x].st # "none" => obj[x].v > 0)
    BY DEF TypeOK
  <2>1. CASE obj'[x] = obj[x]
    BY <2>0, <2>1
  <2>2. CASE orphanedInStep(x)
    BY <2>0, <2>2 DEF orphanedInStep, Objects, Owners
  <2>3. CASE takenInStep(x)
    BY <2>0, <2>3 DEF takenInStep, Objects
  <2>4. CASE removedInStep(x)
    BY <2>4, BoundsAssumption DEF removedInStep, NoObject, Objects, Owners
  <2>5. CASE writtenInStep(x)
    <3>1. PICK me \in {"op", "wh"} :
             /\ obj'[x] = desired(proc[me], x)
             /\ At(me, "create", x) \/ At(me, "update", x)
      BY <2>5 DEF writtenInStep
    <3>2. proc[me] \in Processes /\ wellFormed(proc[me])
      BY ProcessTyped
    <3>3. /\ proc[me].v \in 0..MaxVersion /\ proc[me].owner \in Owners
          /\ x \in Copied => proc[me].v > 0
      BY <3>1, <3>2 DEF Processes, wellFormed, At
    <3> QED BY <3>1, <3>3, BoundsAssumption DEF desired, Objects, Owners
  <2> QED BY <2>1, <2>2, <2>3, <2>4, <2>5, ObjectStep
<1> QED BY <1>1, ObjectStep DEF Filter

-----------------------------------------------------------------------------
(* Types.                                                                  *)

\* The content of the shared Gateway, of the Ingresses and their routes, the
\* operator's sets and the histories keep their types.
restTyped ==
    /\ gw.of \in Contents \cup {NoIngress}
    /\ ing \in [Ing -> Contents \cup {NoIngress}]
    /\ src \in [Copied -> 0..MaxVersion]
    /\ route \in [Ing -> Routes]
    /\ queue \subseteq Ing /\ seen \subseteq Ing /\ held \subseteq Ing
    /\ denied \subseteq Ing \X Contents /\ unstored \subseteq Ing
    /\ fresh \subseteq {"op", "wh"}
    /\ excused \subseteq Filter
    /\ events \in 0..MaxEvents /\ fails \in 0..MaxFails

LEMMA StoreType ==
    ASSUME restTyped, NEW i \in Ing, NEW o \in Contents, Store(i, o)
    PROVE  /\ ing' \in [Ing -> Contents \cup {NoIngress}]
           /\ queue' \subseteq Ing /\ seen' \subseteq Ing /\ held' \subseteq Ing
BY DEF Store, restTyped

LEMMA StoreOrNotType ==
    ASSUME restTyped, NEW i \in Ing, NEW o \in Contents, StoreOrNot(i, o)
    PROVE  /\ ing' \in [Ing -> Contents \cup {NoIngress}]
           /\ queue' \subseteq Ing /\ seen' \subseteq Ing /\ held' \subseteq Ing
           /\ unstored' \subseteq Ing
<1>1. CASE Store(i, o) /\ UNCHANGED unstored
  BY <1>1, StoreType DEF restTyped
<1>2. CASE unstored' = unstored \cup {i} /\ UNCHANGED <<ing, opVars>>
  BY <1>2 DEF restTyped, opVars
<1> QED BY <1>1, <1>2 DEF StoreOrNot

LEMMA RouteType ==
    ASSUME restTyped, TypeOK, Staged, NEW me \in {"op", "wh"}, NEW i \in Ing,
           NEW owner \in Owners, route' = [route EXCEPT ![i] = applied(@, proc[me].refs, owner)]
    PROVE  route' \in [Ing -> Routes]
<1>1. route[i] \in Routes /\ proc[me].refs \subseteq Filter
  BY ProcessTyped DEF restTyped
<1>2. applied(route[i], proc[me].refs, owner) \in Routes
  <2>1. CASE route[i].st = "none"
    BY <1>1, <2>1 DEF applied, Routes
  <2>2. CASE route[i].st # "none"
    BY <1>1, <2>2 DEF applied, Routes
  <2> QED BY <2>1, <2>2
<1> QED BY <1>2 DEF restTyped

LEMMA RestStep ==
    ASSUME TypeOK, Staged, Next
    PROVE  restTyped'
<1>0. restTyped
  BY DEF TypeOK, restTyped
<1>b. MaxVersion \in Nat /\ MaxEvents \in Nat /\ MaxFails \in Nat
  BY BoundsAssumption
<1>e. Event => events' \in 0..MaxEvents /\ fails' = fails
  BY <1>0, <1>b DEF Event, restTyped
<1>f. fails < MaxFails /\ fails' = fails + 1 => fails' \in 0..MaxFails
  BY <1>0, <1>b DEF restTyped
<1>1. ASSUME NEW me \in {"op", "wh"}, NEW x \in Filter, EnsureFilter(me, x)
      PROVE  restTyped'
  <2>1. UNCHANGED unchangedByFilters
    BY <1>1 DEF EnsureFilter, GetSource, GetOrphan, DeleteOrphan, GetOwner, GetFilter,
                CreateFilter, UpdateFilter, FilterFails
  <2>2. fresh' \subseteq {"op", "wh"}
    <3>1. CASE GetFilter(me, x)
      <4>1. obj[x].st \in {"none", "ours", "foreign"}
        BY DEF TypeOK, Objects
      <4> QED BY <1>0, <3>1, <4>1 DEF GetFilter, restTyped
    <3>2. CASE ~GetFilter(me, x)
      BY <1>0, <1>1, <3>2 DEF EnsureFilter, GetSource, GetOrphan, DeleteOrphan, GetOwner,
                  CreateFilter, UpdateFilter, FilterFails, Write, restTyped
    <3> QED BY <3>1, <3>2
  <2>3. fails' \in 0..MaxFails
    BY <1>0, <1>1, <1>f DEF EnsureFilter, GetSource, GetOrphan, DeleteOrphan, GetOwner, GetFilter,
                CreateFilter, UpdateFilter, FilterFails, restTyped
  <2>4. x = Head(proc[me].todo)
    BY <1>1, CallStep
  <2>5. ASSUME NEW result, Done(me, result)
        PROVE  excused' \subseteq Filter
    BY <1>0, <2>4, <2>5 DEF Done, restTyped
  <2>6. ASSUME UNCHANGED excused
        PROVE  excused' \subseteq Filter
    BY <1>0, <2>6 DEF restTyped
  <2>7. excused' \subseteq Filter
    <3>1. CASE GetFilter(me, x)
      <4>1. obj[x].st \in {"none", "ours", "foreign"}
        BY DEF TypeOK, Objects
      <4> QED BY <2>5, <2>6, <3>1, <4>1 DEF GetFilter, Goto
    <3>2. CASE ~GetFilter(me, x)
      BY <1>1, <2>5, <2>6, <3>2 DEF EnsureFilter, GetSource, GetOrphan, DeleteOrphan, GetOwner,
                  CreateFilter, UpdateFilter, FilterFails, Goto
    <3> QED BY <3>1, <3>2
  <2> QED BY <1>0, <2>1, <2>2, <2>3, <2>7
          DEF restTyped, unchangedByFilters, gwVars, routeVars, opVars
<1>2. CASE Environment
  <2>1. ASSUME NEW i \in Ing, NEW o \in Contents, Bypass(i, o)
        PROVE  restTyped'
    BY <1>0, <1>e, <2>1, StoreType DEF Bypass, restTyped, gwVars
  <2>2. ASSUME NEW i \in Ing, NEW o \in Contents, Admit(i, o)
        PROVE  restTyped'
    BY <1>0, <1>e, <2>2, StoreType DEF Admit, restTyped, gwVars, opVars
  <2>3. ASSUME NEW i \in Ing, UserDelete(i)
        PROVE  restTyped'
    <3>1. route' = [route EXCEPT ![i] = [route[i] EXCEPT !.owner = orphaned(@, <<"ingress", i>>)]]
      BY <2>3 DEF UserDelete
    <3>2. route[i] \in Routes /\ orphaned(route[i].owner, <<"ingress", i>>) \in Owners
      BY <1>0 DEF restTyped, Routes, orphaned, Owners
    <3>3. [route[i] EXCEPT !.owner = orphaned(@, <<"ingress", i>>)] \in Routes
      BY <3>2 DEF Routes
    <3>4. route' \in [Ing -> Routes]
      BY <1>0, <3>1, <3>3 DEF restTyped
    <3> QED BY <1>0, <1>e, <2>3, <3>4 DEF UserDelete, restTyped, gwVars, Filter
  <2>4. ASSUME NEW i \in Ing, Expire(i)
        PROVE  restTyped'
    BY <1>0, <1>e, <2>4 DEF Expire, restTyped, gwVars, routeVars
  <2>5. ASSUME NEW i \in Ing, CollectRoute(i)
        PROVE  restTyped'
    <3>1. NoRoute \in Routes
      BY DEF NoRoute, Routes, Owners
    <3> QED BY <1>0, <2>5, <3>1 DEF CollectRoute, restTyped, gwVars, opVars, envVars
  <2>6. ASSUME NEW f \in Copied, UserSource(f)
        PROVE  restTyped'
    <3>1. src' \in [Copied -> 0..MaxVersion]
      BY <1>0, <1>b, <2>6 DEF UserSource, restTyped
    <3>2. queue' \subseteq Ing /\ excused' \subseteq Filter
      BY <1>0, <2>6 DEF UserSource, restTyped, enqueueFor, Filter
    <3> QED BY <1>0, <1>e, <2>6, <3>1, <3>2 DEF UserSource, restTyped, routeVars
  <2>7. ASSUME NEW x \in Filter, UserTakes(x)
        PROVE  restTyped'
    BY <1>0, <1>e, <2>7 DEF UserTakes, restTyped, gwVars, routeVars, opVars
  <2>8. ASSUME NEW x \in Filter, CollectFilter(x)
        PROVE  restTyped'
    BY <1>0, <2>8 DEF CollectFilter, restTyped, gwVars, routeVars, opVars, envVars
  <2>9. ASSUME Restart
        PROVE  restTyped'
    BY <1>0, <1>e, <2>9 DEF Restart, restTyped, gwVars, routeVars
  <2>10. ASSUME Timeout
         PROVE  restTyped'
    <3>1. proc["wh"] \in Processes /\ wellFormed(proc["wh"]) /\ proc["wh"].pc # "idle"
      BY <2>10, ProcessTyped DEF Timeout
    <3>2. PICK i \in Ing : proc["wh"].i = {i}
      BY <3>1 DEF wellFormed, Processes
    <3>3. StoreOrNot(i, proc["wh"].o) /\ proc["wh"].o \in Contents
      BY <2>10, <3>1, <3>2 DEF Timeout, wellFormed
    <3> QED BY <1>0, <1>e, <2>10, <3>3, StoreOrNotType DEF Timeout, restTyped, gwVars
  <2> QED BY <1>2, <2>1, <2>2, <2>3, <2>4, <2>5, <2>6, <2>7, <2>8, <2>9, <2>10 DEF Environment
<1>3. CASE Work
  <2>1. ASSUME NEW i \in Ing, OpStart(i)
        PROVE  restTyped'
    BY <1>0, <2>1 DEF OpStart, restTyped, gwVars, routeVars, envVars
  <2>2. ASSUME NEW i \in Ing, OpApply(i)
        PROVE  restTyped'
    <3>1. proc["op"].owner \in Owners
      BY ProcessTyped DEF Processes
    <3>2. route' \in [Ing -> Routes]
      BY <1>0, <2>2, <3>1, RouteType DEF OpApply
    <3> QED BY <1>0, <2>2, <3>2 DEF OpApply, restTyped, gwVars, envVars
  <2>3. ASSUME NEW i \in Ing, OpApplyFails(i)
        PROVE  restTyped'
    BY <1>0, <1>f, <2>3 DEF OpApplyFails, restTyped, gwVars, routeVars
  <2>4. ASSUME NEW i \in Ing, WHGateway(i)
        PROVE  restTyped'
    <3>1. proc["wh"].o \in Contents
      BY <2>4, ProcessTyped DEF WHGateway, wellFormed
    <3>2. gw'.of \in Contents \cup {NoIngress}
      BY <1>0, <2>4, <3>1 DEF WHGateway, restTyped
    <3> QED BY <1>0, <2>4, <3>2 DEF WHGateway, restTyped, routeVars, opVars, envVars
  <2>5. ASSUME NEW i \in Ing, WHApply(i)
        PROVE  restTyped'
    <3>1. NoOwner \in Owners
      BY DEF Owners
    <3>2. route' \in [Ing -> Routes]
      BY <1>0, <2>5, <3>1, RouteType DEF WHApply, restTyped
    <3>3. fails' \in 0..MaxFails
      BY <1>0, <1>f, <2>5 DEF WHApply, restTyped
    <3> QED BY <1>0, <2>5, <3>2, <3>3 DEF WHApply, restTyped, gwVars, opVars
  <2>6. ASSUME NEW i \in Ing, WHAnswer(i)
        PROVE  restTyped'
    <3>1. proc["wh"].o \in Contents
      BY <2>6, ProcessTyped DEF WHAnswer, wellFormed
    <3>2. CASE proc["wh"].o.allow
      BY <1>0, <2>6, <3>1, <3>2, StoreOrNotType DEF WHAnswer, restTyped, gwVars, envVars
    <3>3. CASE ~proc["wh"].o.allow
      BY <1>0, <2>6, <3>1, <3>3 DEF WHAnswer, restTyped, gwVars, opVars, envVars
    <3> QED BY <3>2, <3>3
  <2> QED BY <1>1, <1>3, <2>1, <2>2, <2>3, <2>4, <2>5, <2>6 DEF Work
<1> QED BY <1>2, <1>3 DEF Next

\* The types and the shape of the processes are preserved.
LEMMA TypeStep ==
    ASSUME TypeOK, Staged, [Next]_vars
    PROVE  TypeOK' /\ Staged'
<1>1. CASE Next
  BY <1>1, StagedStep, ObjectType, RestStep DEF TypeOK, restTyped
<1>2. CASE UNCHANGED vars
  BY <1>2 DEF TypeOK, Staged, vars, gwVars, routeVars, opVars, envVars
<1> QED BY <1>1, <1>2

LEMMA TypeInit ==
    ASSUME Init
    PROVE  TypeOK /\ Staged
<1>1. NoObject \in Objects /\ NoRoute \in Routes
  BY BoundsAssumption DEF NoObject, NoRoute, Objects, Routes, Owners
<1>2. gw.of \in Contents \cup {NoIngress}
  BY DEF Init, NoGateway
<1>3. Staged /\ proc \in [{"op", "wh"} -> Processes]
  BY IdleTyped DEF Init, Staged
<1>4. \A f \in Copied : obj[f].st = "none"
  BY DEF Init, NoObject, Filter
<1> QED BY <1>1, <1>2, <1>3, <1>4, BoundsAssumption DEF Init, TypeOK

\* Every variable keeps its type, and a copy is always one of a source that was there.
THEOREM TypeCorrect == Spec => []TypeOK
<1>1. Init => TypeOK /\ Staged
  BY TypeInit
<1>2. TypeOK /\ Staged /\ [Next]_vars => TypeOK' /\ Staged'
  BY TypeStep
<1> QED BY <1>1, <1>2, PTL DEF Spec

-----------------------------------------------------------------------------
(* Filters that are not the operator's.                                    *)

\* A process that writes holds a current copy, until somebody else writes.
LEMMA CurrentStep ==
    ASSUME TypeOK, Staged, Current, [Next]_vars
    PROVE  Current'
<1> DEFINE kept(m) == /\ proc'[m].pc = proc[m].pc /\ proc'[m].todo = proc[m].todo
                      /\ obj'[Head(proc[m].todo)].st = obj[Head(proc[m].todo)].st
<1>0. /\ fresh \subseteq {"op", "wh"} /\ obj \in [Filter -> Objects]
      /\ proc \in [{"op", "wh"} -> Processes]
      /\ \A m \in fresh : Head(proc[m].todo) \in Filter
  BY ProcessTyped DEF TypeOK, Current
<1>1. ASSUME fresh' \subseteq fresh, \A m \in fresh' : kept(m)
      PROVE  Current'
  BY <1>1 DEF Current
<1>2. ASSUME NEW of, proc' = procOrphaned(of), obj' = objOrphaned(of), UNCHANGED fresh
      PROVE  Current'
  <2>1. ASSUME NEW m \in {"op", "wh"}
        PROVE  proc'[m].pc = proc[m].pc /\ proc'[m].todo = proc[m].todo
    <3>1. proc'[m] = [proc[m] EXCEPT !.owner = orphaned(@, of)] /\ proc[m] \in Processes
      BY <1>0, <1>2 DEF procOrphaned
    <3> QED BY <3>1 DEF Processes
  <2>2. ASSUME NEW x \in Filter
        PROVE  obj'[x].st = obj[x].st
    <3>1. obj'[x] = [obj[x] EXCEPT !.owner = orphaned(@, of)] /\ obj[x] \in Objects
      BY <1>0, <1>2 DEF objOrphaned
    <3> QED BY <3>1 DEF Objects
  <2> QED BY <1>0, <1>1, <1>2, <2>1, <2>2
<1>3. ASSUME NEW x \in Filter, NEW new, obj' = [obj EXCEPT ![x] = new],
             fresh' = {m \in fresh : Head(proc[m].todo) # x},
             \A m \in fresh' : proc'[m] = proc[m]
      PROVE  Current'
  BY <1>0, <1>1, <1>3
<1>4. ASSUME NEW me \in {"op", "wh"}, fresh' \subseteq fresh \ {me}, UNCHANGED obj,
             \A m \in {"op", "wh"} : m # me => proc'[m] = proc[m]
      PROVE  Current'
  BY <1>0, <1>1, <1>4
<1>5. ASSUME NEW me \in {"op", "wh"}, NEW x \in Filter, EnsureFilter(me, x)
      PROVE  Current'
  <2>1. /\ \A m \in {"op", "wh"} : m # me => proc'[m] = proc[m]
        /\ x = Head(proc[me].todo)
    BY <1>5, CallStep
  <2>2. CASE GetSource(me, x) \/ GetOrphan(me, x) \/ GetOwner(me, x)
    <3>1. me \notin fresh /\ UNCHANGED <<obj, fresh>>
      BY <2>2 DEF GetSource, GetOrphan, GetOwner, At, Current
    <3> QED BY <1>4, <2>1, <3>1
  <2>3. CASE DeleteOrphan(me, x)
    BY <1>0, <1>3, <2>1, <2>3 DEF DeleteOrphan, Write
  <2>4. CASE GetFilter(me, x)
    <3>1. me \notin fresh /\ UNCHANGED obj /\ proc[me].pc = "get"
      BY <2>4 DEF GetFilter, At, Current
    <3>2. CASE obj[x].st = "ours"
      <4>1. Goto(me, "update") /\ fresh' = fresh \cup {me}
        BY <2>4, <3>2 DEF GetFilter
      <4>2. proc'[me].pc = "update" /\ proc'[me].todo = proc[me].todo
        <5>1. proc'[me] = [proc[me] EXCEPT !.pc = "update"] /\ proc[me] \in Processes
          BY <1>0, <4>1 DEF Goto
        <5> QED BY <5>1 DEF Processes
      <4> QED BY <1>0, <2>1, <3>1, <3>2, <4>1, <4>2 DEF Current
    <3>3. CASE obj[x].st # "ours"
      <4>1. UNCHANGED fresh
        <5>1. obj[x].st \in {"none", "foreign"}
          BY <1>0, <3>3 DEF Objects
        <5> QED BY <2>4, <3>3, <5>1 DEF GetFilter
      <4> QED BY <1>4, <2>1, <3>1, <4>1
    <3> QED BY <3>2, <3>3
  <2>5. CASE CreateFilter(me, x)
    <3>1. me \notin fresh
      BY <2>5 DEF CreateFilter, At, Current
    <3>2. CASE obj[x].st = "none"
      BY <1>0, <1>3, <2>1, <2>5, <3>1, <3>2 DEF CreateFilter, Write
    <3>3. CASE obj[x].st # "none"
      BY <1>4, <2>1, <2>5, <3>1, <3>3 DEF CreateFilter
    <3> QED BY <3>2, <3>3
  <2>6. CASE UpdateFilter(me, x)
    <3>1. CASE UpdateAccepted(me, x)
      BY <1>0, <1>3, <2>1, <2>6, <3>1 DEF UpdateFilter, Write
    <3>2. CASE ~UpdateAccepted(me, x)
      BY <1>4, <2>1, <2>6, <3>2 DEF UpdateFilter
    <3> QED BY <3>1, <3>2
  <2>7. CASE FilterFails(me, x)
    BY <1>4, <2>1, <2>7 DEF FilterFails
  <2> QED BY <1>5, <2>2, <2>3, <2>4, <2>5, <2>6, <2>7 DEF EnsureFilter
<1>6. ASSUME NEW me \in {"op", "wh"}, proc[me].pc # "update", UNCHANGED <<obj, fresh>>, NEW w,
             proc' = [proc EXCEPT ![me] = w]
      PROVE  Current'
  <2>1. me \notin fresh
    BY <1>6 DEF Current
  <2> QED BY <1>0, <1>4, <1>6, <2>1
<1>7. CASE Environment
  <2>1. ASSUME NEW i \in Ing, NEW o \in Contents, Bypass(i, o)
        PROVE  Current'
    BY <1>1, <2>1 DEF Bypass
  <2>2. ASSUME NEW i \in Ing, NEW o \in Contents, Admit(i, o)
        PROVE  Current'
    <3>1. CASE UNCHANGED proc
      BY <1>1, <2>2, <3>1 DEF Admit
    <3>2. CASE ~UNCHANGED proc
      BY <1>6, <2>2, <3>2 DEF Admit
    <3> QED BY <3>1, <3>2
  <2>3. ASSUME NEW i \in Ing, UserDelete(i)
        PROVE  Current'
    BY <1>2, <2>3 DEF UserDelete
  <2>4. ASSUME NEW i \in Ing, Expire(i)
        PROVE  Current'
    BY <1>1, <2>4 DEF Expire
  <2>5. ASSUME NEW i \in Ing, CollectRoute(i)
        PROVE  Current'
    BY <1>2, <2>5 DEF CollectRoute
  <2>6. ASSUME NEW f \in Copied, UserSource(f)
        PROVE  Current'
    BY <1>1, <2>6 DEF UserSource
  <2>7. ASSUME NEW x \in Filter, UserTakes(x)
        PROVE  Current'
    BY <1>3, <2>7 DEF UserTakes
  <2>8. ASSUME NEW x \in Filter, CollectFilter(x)
        PROVE  Current'
    BY <1>3, <2>8 DEF CollectFilter
  <2>9. ASSUME Restart \/ Timeout
        PROVE  Current'
    BY <1>0, <1>4, <2>9 DEF Restart, Timeout
  <2> QED BY <1>7, <2>1, <2>2, <2>3, <2>4, <2>5, <2>6, <2>7, <2>8, <2>9 DEF Environment
<1>8. CASE Work
  <2>1. ASSUME NEW i \in Ing, OpStart(i)
        PROVE  Current'
    <3>1. CASE UNCHANGED proc
      BY <1>1, <2>1, <3>1 DEF OpStart
    <3>2. CASE ~UNCHANGED proc
      BY <1>6, <2>1, <3>2 DEF OpStart
    <3> QED BY <3>1, <3>2
  <2>2. ASSUME NEW i \in Ing, OpApply(i) \/ OpApplyFails(i)
        PROVE  Current'
    BY <1>6, <2>2 DEF OpApply, OpApplyFails
  <2>3. ASSUME NEW i \in Ing, WHGateway(i) \/ WHApply(i) \/ WHAnswer(i)
        PROVE  Current'
    BY <1>6, <2>3 DEF WHGateway, WHApply, WHAnswer
  <2> QED BY <1>5, <1>8, <2>1, <2>2, <2>3 DEF Work
<1>9. CASE UNCHANGED vars
  BY <1>9 DEF Current, vars
<1> QED BY <1>7, <1>8, <1>9 DEF Next

\* Neither process rewrites a filter without the managed-by annotation: what it
\* updates is what it read, and that was the operator's.
THEOREM ForeignSafe == Spec => ForeignFilterUntouched
<1> DEFINE I == TypeOK /\ Staged /\ Current
           A == \A x \in Filter : obj[x].st = "foreign" /\ obj'[x].st # "none" =>
                  /\ obj'[x].st = "foreign" /\ obj'[x].v = obj[x].v
                  /\ obj'[x].owner \in {obj[x].owner, Gone}
<1>1. Init => I
  BY TypeInit DEF Init, Current
<1>2. I /\ [Next]_vars => I'
  BY TypeStep, CurrentStep
<1>3. I /\ [Next]_vars => [A]_vars
  <2> SUFFICES ASSUME TypeOK, Staged, Current, Next, NEW x \in Filter,
                      obj[x].st = "foreign", obj'[x].st # "none"
               PROVE  /\ obj'[x].st = "foreign" /\ obj'[x].v = obj[x].v
                      /\ obj'[x].owner \in {obj[x].owner, Gone}
    OBVIOUS
  <2>0. obj[x] \in Objects
    BY DEF TypeOK
  <2>1. CASE orphanedInStep(x)
    BY <2>0, <2>1 DEF orphanedInStep, Objects
  <2>2. ~takenInStep(x)
    BY DEF takenInStep
  <2>3. ~removedInStep(x)
    BY DEF removedInStep, NoObject
  <2>4. ~writtenInStep(x)
    BY DEF writtenInStep, At, Current
  <2> QED BY <2>1, <2>2, <2>3, <2>4, ObjectStep
<1> QED BY <1>1, <1>2, <1>3, PTL DEF Spec, ForeignFilterUntouched

-----------------------------------------------------------------------------
(* Steps of the processes, in summary.                                     *)

\* What may become of a process in a step, besides a call.
ownerLostInStep(me) ==
    /\ proc'[me] = [proc[me] EXCEPT !.owner = Gone]
    /\ \E i \in Ing : \/ proc[me].owner = <<"ingress", i>> /\ i \in excused'
                      \/ proc[me].owner = <<"route", i>> /\ route[i].owner = Gone
begunInStep(me) ==
    /\ proc'[me].pc \notin {"idle", "orphan", "delete", "create", "update"}
    /\ proc'[me].refs \subseteq proc[me].refs
    /\ \/ proc'[me].owner = proc[me].owner /\ proc'[me].i = proc[me].i
       \/ \E i \in Ing : proc'[me].i = {i} /\ proc'[me].owner \in {NoOwner, <<"ingress", i>>}
    /\ IF me = "wh" THEN ToSet(proc'[me].todo) \cap Auths = {}
       ELSE \E i \in Ing : OpStart(i) /\ ing[i] \in Contents /\ proc'[me] = started(opBegun(i))

LEMMA ProcessStep ==
    ASSUME TypeOK, Staged, Next, NEW me \in {"op", "wh"}
    PROVE  \/ proc'[me] = proc[me] \/ proc'[me] = Idle
           \/ ownerLostInStep(me) \/ begunInStep(me)
           \/ \E x \in Filter : EnsureFilter(me, x)
<1> DEFINE G == \/ proc'[me] = proc[me] \/ proc'[me] = Idle
                \/ ownerLostInStep(me) \/ begunInStep(me)
                \/ \E x \in Filter : EnsureFilter(me, x)
<1> SUFFICES G
  OBVIOUS
<1>0. proc \in [{"op", "wh"} -> Processes] /\ proc[me] \in Processes
  BY DEF TypeOK
<1>1. ASSUME UNCHANGED proc
      PROVE  G
  BY <1>1
<1>2. ASSUME NEW m \in {"op", "wh"}, proc' = [proc EXCEPT ![m] = Idle]
      PROVE  G
  BY <1>0, <1>2
<1>3. ASSUME NEW of, proc' = procOrphaned(of),
             NEW i \in Ing,
             \/ of = <<"ingress", i>> /\ i \in excused'
             \/ of = <<"route", i>> /\ route[i].owner = Gone
      PROVE  G
  <2>1. proc'[me] = [proc[me] EXCEPT !.owner = orphaned(proc[me].owner, of)]
    BY <1>3 DEF procOrphaned
  <2>2. CASE proc[me].owner = of
    <3>1. proc'[me] = [proc[me] EXCEPT !.owner = Gone]
      BY <2>1, <2>2 DEF orphaned
    <3>2. \/ proc[me].owner = <<"ingress", i>> /\ i \in excused'
          \/ proc[me].owner = <<"route", i>> /\ route[i].owner = Gone
      BY <1>3, <2>2
    <3> QED BY <1>3, <3>1, <3>2, Zenon DEF ownerLostInStep
  <2>3. CASE proc[me].owner # of
    BY <1>0, <2>1, <2>3 DEF orphaned, Processes
  <2> QED BY <2>2, <2>3
<1>4. ASSUME NEW m \in {"op", "wh"}, NEW n, proc' = [proc EXCEPT ![m] = n],
             n.pc \notin {"idle", "orphan", "delete", "create", "update"},
             n.refs \subseteq proc[m].refs,
             \/ n.owner = proc[m].owner /\ n.i = proc[m].i
             \/ \E i \in Ing : n.i = {i} /\ n.owner \in {NoOwner, <<"ingress", i>>},
             IF m = "wh" THEN ToSet(n.todo) \cap Auths = {}
             ELSE \E i \in Ing : OpStart(i) /\ ing[i] \in Contents /\ n = started(opBegun(i))
      PROVE  G
  <2>1. CASE m # me
    BY <1>0, <1>4, <2>1
  <2>2. CASE m = me
    <3>1. proc'[me] = n
      BY <1>0, <1>4, <2>2
    <3> QED BY <1>4, <2>2, <3>1 DEF begunInStep
  <2> QED BY <2>1, <2>2
<1> HIDE DEF G
<1>5. ASSUME NEW i \in Ing, NEW o \in Contents, Admit(i, o)
      PROVE  G
  <2> DEFINE n == [Idle EXCEPT !.pc = "gateway", !.i = {i}, !.o = o]
  <2>1. n.pc = "gateway" /\ n.refs = {} /\ n.i = {i} /\ n.owner = NoOwner /\ ToSet(n.todo) = {}
    BY DEF Idle, ToSet
  <2>2. UNCHANGED proc \/ proc' = [proc EXCEPT !["wh"] = n]
    BY <1>5 DEF Admit
  <2> HIDE DEF n
  <2>3. \E j \in Ing : n.i = {j} /\ n.owner \in {NoOwner, <<"ingress", j>>}
    BY <2>1, <1>5
  <2> QED BY <1>1, <1>4, <2>1, <2>2, <2>3
<1>6. ASSUME NEW i \in Ing, OpStart(i)
      PROVE  G
  <2>1. CASE ing[i] # NoIngress /\ translated(ing[i]) /\ i \notin seen
    <3> DEFINE n == started(opBegun(i))
    <3>1. ing[i] \in Contents
      BY <2>1 DEF TypeOK
    <3>2. proc' = [proc EXCEPT !["op"] = n]
      BY <1>6, <2>1 DEF OpStart, opBegun
    <3>3. /\ opBegun(i) \in Processes /\ opBegun(i).i = {i} /\ opBegun(i).o \in Contents
          /\ opBegun(i).todo = filtersOf("op", i, opBegun(i).o)
          /\ opBegun(i).refs = {} /\ opBegun(i).owner = <<"ingress", i>>
      BY <3>1, OpBegun
    <3>4. n.i = {i} /\ n.refs = {} /\ n.owner = <<"ingress", i>>
      BY <3>3, StartedFields
    <3>5. n.pc \notin {"idle", "orphan", "delete", "create", "update"}
      <4>1. ToSet(opBegun(i).todo) \cap Ing \subseteq opBegun(i).i
        BY <3>3, FiltersListed
      <4> QED BY <3>3, <4>1, StartedWell
    <3> HIDE DEF n
    <3>6. \E j \in Ing : n.i = {j} /\ n.owner \in {NoOwner, <<"ingress", j>>}
      BY <3>4
    <3>7. \E j \in Ing : OpStart(j) /\ ing[j] \in Contents /\ n = started(opBegun(j))
      BY <1>6, <3>1 DEF n
    <3> QED BY <1>4, <3>2, <3>4, <3>5, <3>6, <3>7
  <2>2. CASE ~(ing[i] # NoIngress /\ translated(ing[i]) /\ i \notin seen)
    BY <1>1, <1>6, <2>2 DEF OpStart
  <2> QED BY <2>1, <2>2
<1>7. ASSUME NEW i \in Ing, NEW after \in {"apply", "answer"}, proc["wh"].i = {i},
             proc' = [proc EXCEPT !["wh"] = started(whBegun(i, after))]
      PROVE  G
  <2> DEFINE n == started(whBegun(i, after))
  <2>1. /\ whBegun(i, after) \in Processes /\ whBegun(i, after).i = {i}
        /\ whBegun(i, after).o \in Contents
        /\ whBegun(i, after).todo = filtersOf("wh", i, whBegun(i, after).o)
        /\ whBegun(i, after).refs = proc["wh"].refs
        /\ whBegun(i, after).owner = proc["wh"].owner
    BY <1>7, WHBegun
  <2>2. n.i = proc["wh"].i /\ n.refs = proc["wh"].refs /\ n.owner = proc["wh"].owner
    BY <1>7, <2>1, StartedFields
  <2>3. n.pc \notin {"idle", "orphan", "delete", "create", "update"}
    <3>1. ToSet(whBegun(i, after).todo) \cap Ing \subseteq whBegun(i, after).i
      BY <2>1, FiltersListed
    <3> QED BY <2>1, <3>1, StartedWell
  <2>4. ToSet(n.todo) \cap Auths = {}
    BY <2>1, StartedFields, FiltersListed
  <2> HIDE DEF n
  <2> QED BY <1>4, <1>7, <2>2, <2>3, <2>4 DEF n
<1>8. CASE Environment
  <2>1. ASSUME NEW i \in Ing, NEW o \in Contents, Bypass(i, o)
        PROVE  G
    BY <1>1, <2>1 DEF Bypass
  <2>2. ASSUME NEW i \in Ing, UserDelete(i)
        PROVE  G
    BY <1>3, <2>2 DEF UserDelete
  <2>3. ASSUME NEW i \in Ing, Expire(i)
        PROVE  G
    BY <1>1, <2>3 DEF Expire
  <2>4. ASSUME NEW i \in Ing, CollectRoute(i)
        PROVE  G
    BY <1>3, <2>4 DEF CollectRoute
  <2>5. ASSUME NEW f \in Copied, UserSource(f)
        PROVE  G
    BY <1>1, <2>5 DEF UserSource
  <2>6. ASSUME NEW x \in Filter, UserTakes(x) \/ CollectFilter(x)
        PROVE  G
    BY <1>1, <2>6 DEF UserTakes, CollectFilter
  <2>7. ASSUME Restart \/ Timeout
        PROVE  G
    BY <1>2, <2>7 DEF Restart, Timeout
  <2> QED BY <1>5, <1>8, <2>1, <2>2, <2>3, <2>4, <2>5, <2>6, <2>7 DEF Environment
<1>9. CASE Work
  <2>1. ASSUME NEW i \in Ing, OpApply(i) \/ OpApplyFails(i) \/ WHAnswer(i)
        PROVE  G
    BY <1>2, <2>1 DEF OpApply, OpApplyFails, WHAnswer
  <2>2. ASSUME NEW i \in Ing, WHGateway(i)
        PROVE  G
    <3>1. proc' = [proc EXCEPT !["wh"] = started(whBegun(i, "apply"))] /\ proc["wh"].i = {i}
      BY <2>2 DEF WHGateway, whBegun, TypeOK
    <3> QED BY <1>7, <3>1
  <2>3. ASSUME NEW i \in Ing, WHApply(i)
        PROVE  G
    <3>1. proc' = [proc EXCEPT !["wh"] = started(whBegun(i, "answer"))] /\ proc["wh"].i = {i}
      BY <2>3 DEF WHApply, whBegun, TypeOK
    <3> QED BY <1>7, <3>1
  <2>4. ASSUME NEW m \in {"op", "wh"}, NEW x \in Filter, EnsureFilter(m, x)
        PROVE  G
    BY <2>4, CallStep DEF G
  <2> QED BY <1>6, <1>9, <2>1, <2>2, <2>3, <2>4 DEF Work
<1> QED BY <1>8, <1>9 DEF Next

\* What may become of the owner of a process, and of its Ingress, in a call.
LEMMA CallKeeps ==
    ASSUME TypeOK, Staged, NEW me \in {"op", "wh"}, NEW x \in Filter, EnsureFilter(me, x)
    PROVE  /\ proc'[me].i = proc[me].i /\ proc'[me].o = proc[me].o
           /\ proc'[me].after = proc[me].after
           /\ \/ proc'[me].owner = proc[me].owner
              \/ x \in Ing /\ proc[me].i = {x} /\ proc'[me].owner = <<"route", x>>
<1> DEFINE w == proc[me]
<1>0. /\ w \in Processes /\ wellFormed(w) /\ proc \in [{"op", "wh"} -> Processes]
      /\ w.pc \in Calls /\ x = Head(w.todo) /\ w.todo \in Seq(Filter)
  BY ProcessTyped, CallStep DEF TypeOK
<1>1. ASSUME NEW result, Done(me, result)
      PROVE  w.i = proc'[me].i /\ w.o = proc'[me].o /\ w.after = proc'[me].after
             /\ w.owner = proc'[me].owner
  BY <1>0, <1>1, DoneStep
<1>2. ASSUME NEW p, NEW v, proc' = [proc EXCEPT ![me] = [w EXCEPT !.pc = p, !.v = v]]
      PROVE  w.i = proc'[me].i /\ w.o = proc'[me].o /\ w.after = proc'[me].after
             /\ w.owner = proc'[me].owner
  BY <1>0, <1>2 DEF Processes
<1>3. ASSUME NEW p, Goto(me, p)
      PROVE  w.i = proc'[me].i /\ w.o = proc'[me].o /\ w.after = proc'[me].after
             /\ w.owner = proc'[me].owner
  BY <1>0, <1>3 DEF Goto, Processes
<1>4. CASE GetSource(me, x)
  <2>1. CASE sourcePlan(x) = "skipped"
    BY <1>1, <1>4, <2>1 DEF GetSource
  <2>2. CASE sourcePlan(x) # "skipped"
    <3>1. proc' = [proc EXCEPT ![me] = [w EXCEPT !.pc = sourcePlan(x), !.v = src[x]]]
      BY <1>4, <2>2 DEF GetSource
    <3> QED BY <1>2, <3>1
  <2> QED BY <2>1, <2>2
<1>5. CASE GetOwner(me, x)
  <2>1. CASE route[x].st = "none"
    BY <1>1, <1>5, <2>1 DEF GetOwner
  <2>2. CASE route[x].st # "none"
    <3>1. proc' = [proc EXCEPT ![me] = [w EXCEPT !.pc = "get", !.owner = <<"route", x>>]]
      BY <1>5, <2>2 DEF GetOwner
    <3>2. x \in Ing
      BY <1>0, <1>5 DEF GetOwner, At, wellFormed
    <3>3. x \in ToSet(w.todo)
      BY <1>0, HeadAndTail DEF wellFormed
    <3>4. w.i = {x}
      BY <1>0, <3>2, <3>3 DEF wellFormed, Processes
    <3> QED BY <1>0, <3>1, <3>2, <3>4 DEF Processes
  <2> QED BY <2>1, <2>2
<1>6. CASE GetFilter(me, x)
  <2>1. obj[x].st \in {"none", "ours", "foreign"}
    BY DEF TypeOK, Objects
  <2> QED BY <1>1, <1>3, <1>6, <2>1 DEF GetFilter
<1>7. CASE GetOrphan(me, x) \/ DeleteOrphan(me, x) \/ CreateFilter(me, x) \/ UpdateFilter(me, x)
           \/ FilterFails(me, x)
  BY <1>1, <1>3, <1>7 DEF GetOrphan, DeleteOrphan, CreateFilter, UpdateFilter, FilterFails
<1> QED BY <1>4, <1>5, <1>6, <1>7 DEF EnsureFilter

\* What is excused once is excused for good.
LEMMA ExcusedGrows ==
    ASSUME TypeOK, Next
    PROVE  excused \subseteq excused'
<1>1. ASSUME NEW me \in {"op", "wh"}, NEW x \in Filter, EnsureFilter(me, x)
      PROVE  excused \subseteq excused'
  <2>1. CASE GetFilter(me, x)
    <3>1. obj[x].st \in {"none", "ours", "foreign"}
      BY DEF TypeOK, Objects
    <3> QED BY <2>1, <3>1 DEF GetFilter, Goto, Done
  <2>2. CASE ~GetFilter(me, x)
    BY <1>1, <2>2 DEF EnsureFilter, GetSource, GetOrphan, DeleteOrphan, GetOwner, CreateFilter,
                      UpdateFilter, FilterFails, Goto, Done
  <2> QED BY <2>1, <2>2
<1>2. CASE Environment
  BY <1>2 DEF Environment, Bypass, Admit, UserDelete, Expire, CollectRoute, UserSource, UserTakes,
              CollectFilter, Restart, Timeout
<1>3. CASE Work
  <2>1. ASSUME NEW i \in Ing, \/ OpStart(i) \/ OpApply(i) \/ OpApplyFails(i)
                              \/ WHGateway(i) \/ WHApply(i) \/ WHAnswer(i)
        PROVE  excused \subseteq excused'
    BY <2>1 DEF OpStart, OpApply, OpApplyFails, WHGateway, WHApply, WHAnswer
  <2> QED BY <1>1, <1>3, <2>1 DEF Work
<1> QED BY <1>2, <1>3 DEF Next

\* What may become of a route in a step.
LEMMA RouteStep ==
    ASSUME TypeOK, Next, NEW i \in Ing
    PROVE  \/ route'[i] = route[i]
           \/ route'[i] = [route[i] EXCEPT !.owner = Gone] /\ i \in excused'
           \/ route'[i] = NoRoute
           \/ OpApply(i) /\ route'[i] = applied(route[i], proc["op"].refs, proc["op"].owner)
           \/ WHApply(i) /\ route'[i] = applied(route[i], proc["wh"].refs, NoOwner)
<1> DEFINE G == \/ route'[i] = route[i]
                \/ route'[i] = [route[i] EXCEPT !.owner = Gone] /\ i \in excused'
                \/ route'[i] = NoRoute
                \/ OpApply(i) /\ route'[i] = applied(route[i], proc["op"].refs, proc["op"].owner)
                \/ WHApply(i) /\ route'[i] = applied(route[i], proc["wh"].refs, NoOwner)
<1> SUFFICES G
  OBVIOUS
<1>0. route \in [Ing -> Routes] /\ route[i] \in Routes
  BY DEF TypeOK
<1>1. ASSUME UNCHANGED route
      PROVE  G
  BY <1>1
<1>2. ASSUME NEW me \in {"op", "wh"}, NEW x \in Filter, EnsureFilter(me, x)
      PROVE  UNCHANGED route
  BY <1>2 DEF EnsureFilter, GetSource, GetOrphan, DeleteOrphan, GetOwner, GetFilter, CreateFilter,
              UpdateFilter, FilterFails, unchangedByFilters, routeVars
<1>3. ASSUME NEW j \in Ing, NEW r, route' = [route EXCEPT ![j] = r]
      PROVE  IF i = j THEN route'[i] = r ELSE route'[i] = route[i]
  BY <1>0, <1>3
<1>4. ASSUME NEW j \in Ing, UserDelete(j)
      PROVE  G
  <2>1. route' = [route EXCEPT ![j] = [route[j] EXCEPT !.owner = orphaned(@, <<"ingress", j>>)]]
    BY <1>4 DEF UserDelete
  <2>2. CASE i = j
    <3>1. route'[i] = [route[i] EXCEPT !.owner = orphaned(@, <<"ingress", j>>)] /\ i \in excused'
      BY <1>0, <1>4, <2>1, <2>2 DEF UserDelete
    <3>2. CASE route[i].owner = <<"ingress", j>>
      BY <3>1, <3>2 DEF orphaned
    <3>3. CASE route[i].owner # <<"ingress", j>>
      BY <1>0, <3>1, <3>3 DEF orphaned, Routes
    <3> QED BY <3>2, <3>3
  <2>3. CASE i # j
    BY <1>0, <2>1, <2>3
  <2> QED BY <2>2, <2>3
<1>5. ASSUME NEW j \in Ing, CollectRoute(j)
      PROVE  G
  BY <1>3, <1>5 DEF CollectRoute
<1>6. ASSUME NEW j \in Ing, OpApply(j)
      PROVE  G
  <2>1. route' = [route EXCEPT ![j] = applied(route[j], proc["op"].refs, proc["op"].owner)]
    BY <1>6 DEF OpApply
  <2> QED BY <1>3, <1>6, <2>1
<1>7. ASSUME NEW j \in Ing, WHApply(j)
      PROVE  G
  <2>1. \/ route' = [route EXCEPT ![j] = applied(route[j], proc["wh"].refs, NoOwner)]
        \/ UNCHANGED route
    BY <1>7 DEF WHApply
  <2> QED BY <1>3, <1>7, <2>1
<1> HIDE DEF G
<1>8. CASE Environment
  <2>1. ASSUME NEW j \in Ing, NEW o \in Contents, Bypass(j, o) \/ Admit(j, o)
        PROVE  UNCHANGED route
    BY <2>1 DEF Bypass, Admit
  <2>2. ASSUME NEW j \in Ing, Expire(j)
        PROVE  UNCHANGED route
    BY <2>2 DEF Expire, routeVars
  <2>3. ASSUME NEW f \in Copied, UserSource(f)
        PROVE  UNCHANGED route
    BY <2>3 DEF UserSource, routeVars
  <2>4. ASSUME NEW x \in Filter, UserTakes(x) \/ CollectFilter(x)
        PROVE  UNCHANGED route
    BY <2>4 DEF UserTakes, CollectFilter, routeVars
  <2>5. ASSUME Restart \/ Timeout
        PROVE  UNCHANGED route
    BY <2>5 DEF Restart, Timeout, routeVars
  <2> QED BY <1>1, <1>4, <1>5, <1>8, <2>1, <2>2, <2>3, <2>4, <2>5 DEF Environment
<1>9. CASE Work
  <2>1. ASSUME NEW j \in Ing, OpStart(j) \/ OpApplyFails(j) \/ WHGateway(j) \/ WHAnswer(j)
        PROVE  UNCHANGED route
    BY <2>1 DEF OpStart, OpApplyFails, WHGateway, WHAnswer, routeVars
  <2> QED BY <1>1, <1>2, <1>6, <1>7, <1>9, <2>1 DEF Work
<1> QED BY <1>8, <1>9 DEF Next

-----------------------------------------------------------------------------
(* Filters that routes refer to exist.                                     *)

\* The values that stand for no owner are none of the owners.
LEMMA OwnersDiffer ==
    /\ NoOwner # Gone
    /\ \A i \in Ing : /\ NoOwner # <<"ingress", i>> /\ NoOwner # <<"route", i>>
                      /\ Gone # <<"ingress", i>> /\ Gone # <<"route", i>>
    /\ \A i, j \in Ing : /\ <<"ingress", i>> # <<"route", j>>
                         /\ <<"ingress", i>> = <<"ingress", j>> => i = j
                         /\ <<"route", i>> = <<"route", j>> => i = j
BY KindsAssumption

\* The owner of a filter, a route or a process is one that is there.
LEMMA OwnedStep ==
    ASSUME TypeOK, Staged, Owned, Next
    PROVE  Owned'
<1>0. excused \subseteq excused'
  BY ExcusedGrows
<1>1. ASSUME NEW f \in Copied
      PROVE  obj'[f].owner = NoOwner
  <2>0. f \in Filter /\ obj[f] \in Objects /\ obj[f].owner = NoOwner
    BY DEF Filter, TypeOK, Owned
  <2>1. ~orphanedInStep(f)
    BY <2>0, OwnersDiffer DEF orphanedInStep
  <2>2. CASE takenInStep(f)
    BY <2>0, <2>2 DEF takenInStep, Objects
  <2>3. CASE removedInStep(f)
    BY <2>3 DEF removedInStep, NoObject
  <2>4. CASE writtenInStep(f)
    BY <2>4 DEF writtenInStep, desired
  <2> QED BY <2>0, <2>1, <2>2, <2>3, <2>4, ObjectStep
<1>2. ASSUME NEW x \in Ing
      PROVE  \/ obj'[x].owner \in {NoOwner, <<"ingress", x>>, <<"route", x>>}
             \/ obj'[x].owner = Gone /\ x \in excused'
  <2>0. /\ x \in Filter /\ obj[x] \in Objects
        /\ \/ obj[x].owner \in {NoOwner, <<"ingress", x>>, <<"route", x>>}
           \/ obj[x].owner = Gone /\ x \in excused
    BY DEF Filter, TypeOK, Owned
  <2>1. CASE obj'[x] = obj[x]
    BY <1>0, <2>0, <2>1
  <2>2. CASE orphanedInStep(x)
    <3>1. obj'[x].owner = Gone
      BY <2>0, <2>2 DEF orphanedInStep, Objects
    <3>2. PICK i \in Ing : \/ obj[x].owner = <<"ingress", i>> /\ i \in excused'
                           \/ obj[x].owner = <<"route", i>> /\ route[i].owner = Gone
      BY <2>2 DEF orphanedInStep
    <3>3. i = x
      BY <2>0, <3>2, OwnersDiffer
    <3>4. x \in excused'
      BY <1>0, <3>2, <3>3 DEF Owned
    <3> QED BY <3>1, <3>4
  <2>3. CASE takenInStep(x)
    <3>1. obj'[x].owner = obj[x].owner
      BY <2>0, <2>3 DEF takenInStep, Objects
    <3> QED BY <1>0, <2>0, <3>1
  <2>4. CASE removedInStep(x)
    BY <2>4 DEF removedInStep, NoObject
  <2>5. CASE writtenInStep(x)
    <3>1. PICK me \in {"op", "wh"} :
            obj'[x] = desired(proc[me], x) /\ (At(me, "create", x) \/ At(me, "update", x))
      BY <2>5 DEF writtenInStep
    <3>2. x \notin Copied
      BY KindsAssumption
    <3>3. obj'[x].owner = proc[me].owner
      BY <3>1, <3>2 DEF desired
    <3>4. proc[me] \in Processes /\ wellFormed(proc[me]) /\ proc[me].todo \in Seq(Filter)
      BY ProcessTyped
    <3>5. x = Head(proc[me].todo) /\ proc[me].todo # <<>>
      BY <3>1, <3>4 DEF At, wellFormed
    <3>6. x \in proc[me].i
      BY <3>4, <3>5, HeadAndTail DEF wellFormed
    <3>7. proc[me].owner \in Owners
      BY <3>4 DEF Processes
    <3>8. CASE proc[me].owner = Gone
      BY <1>0, <3>3, <3>6, <3>8 DEF Owned
    <3>9. ASSUME NEW j \in Ing, proc[me].owner \in {<<"ingress", j>>, <<"route", j>>}
          PROVE  x = j
      BY <3>6, <3>9 DEF Owned
    <3> QED BY <3>3, <3>7, <3>8, <3>9 DEF Owners
  <2> QED BY <2>0, <2>1, <2>2, <2>3, <2>4, <2>5, ObjectStep
<1>3. ASSUME NEW i \in Ing, route'[i].owner = Gone
      PROVE  i \in excused'
  <2>0. route[i] \in Routes /\ (route[i].owner = Gone => i \in excused)
    BY DEF TypeOK, Owned
  <2>1. ASSUME NEW refs, NEW owner, route'[i] = applied(route[i], refs, owner)
        PROVE  route'[i].owner \in {route[i].owner, owner}
    BY <2>0, <2>1 DEF applied, Routes
  <2>2. CASE OpApply(i) /\ route'[i] = applied(route[i], proc["op"].refs, proc["op"].owner)
    <3>1. proc["op"].i = {i}
      BY <2>2 DEF OpApply
    <3>2. route[i].owner = Gone \/ proc["op"].owner = Gone
      BY <1>3, <2>1, <2>2
    <3> QED BY <1>0, <2>0, <3>1, <3>2 DEF Owned
  <2>3. CASE WHApply(i) /\ route'[i] = applied(route[i], proc["wh"].refs, NoOwner)
    BY <1>0, <1>3, <2>0, <2>1, <2>3, OwnersDiffer
  <2>4. CASE route'[i] = NoRoute
    BY <1>3, <2>4, OwnersDiffer DEF NoRoute
  <2> QED BY <1>0, <1>3, <2>0, <2>2, <2>3, <2>4, RouteStep
<1>4. ASSUME NEW me \in {"op", "wh"}
      PROVE  /\ proc'[me].owner = Gone => proc'[me].i \subseteq excused'
             /\ \A i \in Ing : proc'[me].owner \in {<<"ingress", i>>, <<"route", i>>} => proc'[me].i = {i}
  <2>0. /\ proc[me] \in Processes
        /\ proc[me].owner = Gone => proc[me].i \subseteq excused
        /\ \A i \in Ing : proc[me].owner \in {<<"ingress", i>>, <<"route", i>>} => proc[me].i = {i}
    BY DEF TypeOK, Owned
  <2>1. CASE proc'[me].owner = proc[me].owner /\ proc'[me].i = proc[me].i
    BY <1>0, <2>0, <2>1
  <2>2. CASE proc'[me] = Idle
    BY <2>2, OwnersDiffer DEF Idle
  <2>3. CASE ownerLostInStep(me)
    <3>1. proc'[me].owner = Gone /\ proc'[me].i = proc[me].i
      BY <2>0, <2>3 DEF ownerLostInStep, Processes
    <3>2. PICK i \in Ing : \/ proc[me].owner = <<"ingress", i>> /\ i \in excused'
                           \/ proc[me].owner = <<"route", i>> /\ route[i].owner = Gone
      BY <2>3 DEF ownerLostInStep
    <3>3. proc[me].i = {i} /\ i \in excused'
      BY <1>0, <2>0, <3>2 DEF Owned
    <3> QED BY <3>1, <3>3, OwnersDiffer
  <2>4. CASE begunInStep(me)
    <3>1. ASSUME NEW i \in Ing, proc'[me].i = {i}, proc'[me].owner \in {NoOwner, <<"ingress", i>>}
          PROVE  /\ proc'[me].owner # Gone
                 /\ \A j \in Ing : proc'[me].owner \in {<<"ingress", j>>, <<"route", j>>} => proc'[me].i = {j}
      BY <3>1, OwnersDiffer
    <3> QED BY <2>1, <2>4, <3>1 DEF begunInStep
  <2>5. ASSUME NEW x \in Filter, EnsureFilter(me, x)
        PROVE  /\ proc'[me].owner = Gone => proc'[me].i \subseteq excused'
               /\ \A i \in Ing : proc'[me].owner \in {<<"ingress", i>>, <<"route", i>>} => proc'[me].i = {i}
    <3>1. CASE x \in Ing /\ proc'[me].i = {x} /\ proc'[me].owner = <<"route", x>>
      BY <3>1, OwnersDiffer
    <3> QED BY <2>1, <2>5, <3>1, CallKeeps
  <2> QED BY <2>1, <2>2, <2>3, <2>4, <2>5, ProcessStep
<1> QED BY <1>1, <1>2, <1>3, <1>4 DEF Owned

\* A source is missing, or a copy deleted, only of a filter that is excused.
LEMMA MissingStep ==
    ASSUME TypeOK, Staged, Missing, Next
    PROVE  Missing'
<1>0. excused \subseteq excused'
  BY ExcusedGrows
<1>1. ASSUME NEW f \in Copied, src'[f] = 0
      PROVE  f \in excused'
  <2>1. CASE UNCHANGED src
    BY <1>0, <1>1, <2>1 DEF Missing
  <2>2. ASSUME NEW g \in Copied, UserSource(g)
        PROVE  f \in excused'
    <3>1. src \in [Copied -> 0..MaxVersion]
      BY DEF TypeOK
    <3> QED BY <1>0, <1>1, <2>2, <3>1 DEF UserSource, Missing
  <2>3. Work => UNCHANGED src
    BY DEF Work, EnsureFilter, GetSource, GetOrphan, DeleteOrphan, GetOwner, GetFilter, CreateFilter,
           UpdateFilter, FilterFails, unchangedByFilters, gwVars,
           OpStart, OpApply, OpApplyFails, WHGateway, WHApply, WHAnswer
  <2>4. Environment => UNCHANGED src \/ \E g \in Copied : UserSource(g)
    BY DEF Environment, Bypass, Admit, UserDelete, Expire, CollectRoute, UserTakes,
           CollectFilter, Restart, Timeout, gwVars
  <2> QED BY <2>1, <2>2, <2>3, <2>4 DEF Next
<1>2. ASSUME NEW me \in {"op", "wh"}, proc'[me].pc \in {"orphan", "delete"}
      PROVE  Head(proc'[me].todo) \in excused'
  <2>0. proc[me] \in Processes
    BY DEF TypeOK
  <2>1. ASSUME proc'[me].pc = proc[me].pc, proc'[me].todo = proc[me].todo
        PROVE  Head(proc'[me].todo) \in excused'
    BY <1>0, <1>2, <2>1 DEF Missing
  <2>2. ~(proc'[me] = Idle) /\ ~begunInStep(me)
    BY <1>2 DEF Idle, begunInStep
  <2>3. CASE ownerLostInStep(me)
    BY <2>0, <2>1, <2>3 DEF ownerLostInStep, Processes
  <2>4. ASSUME NEW x \in Filter, EnsureFilter(me, x)
        PROVE  Head(proc'[me].todo) \in excused'
    <3>0. proc[me].pc \in Calls /\ x = Head(proc[me].todo) /\ wellFormed(proc[me])
      BY <2>4, CallStep, ProcessTyped
    <3>1. \A result : ~Done(me, result)
      BY <1>2, <3>0, DoneStep
    <3>2. CASE GetSource(me, x)
      <4>1. proc' = [proc EXCEPT ![me] = [proc[me] EXCEPT !.pc = sourcePlan(x), !.v = src[x]]]
        BY <3>1, <3>2 DEF GetSource
      <4>2. proc'[me].pc = sourcePlan(x) /\ proc'[me].todo = proc[me].todo
        BY <2>0, <4>1 DEF Processes, TypeOK
      <4>3. x \in Copied
        BY <3>0, <3>2 DEF GetSource, At, wellFormed
      <4>4. src[x] = 0
        BY <1>2, <4>2, <4>3 DEF sourcePlan, TypeOK
      <4> QED BY <1>0, <3>0, <4>2, <4>3, <4>4 DEF Missing
    <3>3. CASE GetOrphan(me, x)
      <4>1. Goto(me, "delete") /\ proc[me].pc = "orphan"
        BY <3>1, <3>3 DEF GetOrphan, At
      <4>2. proc'[me].todo = proc[me].todo
        BY <2>0, <4>1 DEF Goto, Processes, TypeOK
      <4> QED BY <1>0, <4>1, <4>2 DEF Missing
    <3>4. ~(DeleteOrphan(me, x) \/ CreateFilter(me, x) \/ UpdateFilter(me, x) \/ FilterFails(me, x))
      BY <3>1 DEF DeleteOrphan, CreateFilter, UpdateFilter, FilterFails
    <3>5. ASSUME NEW w, w.pc \notin {"orphan", "delete"}, proc' = [proc EXCEPT ![me] = w]
          PROVE  FALSE
      BY <1>2, <3>5 DEF TypeOK
    <3>6. ~GetOwner(me, x)
      <4>1. [proc[me] EXCEPT !.pc = "get", !.owner = <<"route", x>>].pc = "get"
        BY <2>0 DEF Processes
      <4> QED BY <3>1, <3>5, <4>1 DEF GetOwner
    <3>7. ~GetFilter(me, x)
      <4>1. \A p \in {"create", "update"} : [proc[me] EXCEPT !.pc = p].pc = p
        BY <2>0 DEF Processes
      <4>2. \A p \in {"create", "update"} : ~Goto(me, p)
        BY <3>5, <4>1 DEF Goto
      <4>3. obj[x].st \in {"none", "ours", "foreign"}
        BY DEF TypeOK, Objects
      <4> QED BY <3>1, <4>2, <4>3 DEF GetFilter
    <3> QED BY <2>4, <3>2, <3>3, <3>4, <3>6, <3>7 DEF EnsureFilter
  <2> QED BY <2>1, <2>2, <2>3, <2>4, ProcessStep
<1> QED BY <1>1, <1>2 DEF Missing

\* A filter goes only when it is excused.
LEMMA ThereStep ==
    ASSUME TypeOK, Staged, Owned, Missing, Next, NEW x \in Filter, there(x)
    PROVE  there(x)'
<1>0. excused \subseteq excused'
  BY ExcusedGrows
<1>1. CASE x \in excused
  BY <1>0, <1>1 DEF there
<1>2. CASE obj[x].st # "none" /\ x \notin excused
  <2>0. obj[x] \in Objects
    BY DEF TypeOK
  <2>1. CASE orphanedInStep(x)
    BY <1>2, <2>0, <2>1 DEF orphanedInStep, Objects, there
  <2>2. CASE takenInStep(x)
    BY <2>0, <2>2 DEF takenInStep, Objects, there
  <2>3. ~removedInStep(x)
    <3>1. obj[x].owner # Gone
      BY <1>2, OwnersDiffer DEF Owned, Filter
    <3>2. \A me \in {"op", "wh"} : ~At(me, "delete", x)
      BY <1>2 DEF Missing, At
    <3> QED BY <3>1, <3>2 DEF removedInStep
  <2>4. CASE writtenInStep(x)
    BY <2>4 DEF writtenInStep, desired, there
  <2>5. CASE obj'[x] = obj[x]
    BY <1>2, <2>5 DEF there
  <2> QED BY <2>1, <2>2, <2>3, <2>4, <2>5, ObjectStep
<1> QED BY <1>1, <1>2 DEF there

\* What a process adds to its references is there.
LEMMA CallRefers ==
    ASSUME TypeOK, Staged, Owned, Missing, Existing, Next,
           NEW me \in {"op", "wh"}, NEW x \in Filter, EnsureFilter(me, x)
    PROVE  /\ \A y \in proc'[me].refs : there(y)'
           /\ proc'[me].pc = "update" => there(Head(proc[me].todo))'
<1> DEFINE w == proc[me]
<1>0. /\ w \in Processes /\ wellFormed(w) /\ w.pc \in Calls /\ x = Head(w.todo)
      /\ w.refs \subseteq Filter /\ excused \subseteq excused'
      /\ obj[x] \in Objects /\ proc \in [{"op", "wh"} -> Processes]
  BY CallStep, ProcessTyped, ExcusedGrows DEF TypeOK
<1>1. \A y \in w.refs : there(y)'
  BY <1>0, ThereStep DEF Existing
<1>2. ASSUME NEW result, Done(me, result),
             w.after = "apply" /\ refersTo(me, x, result) => there(x)'
      PROVE  /\ \A y \in proc'[me].refs : there(y)'
             /\ proc'[me].pc # "update"
  BY <1>0, <1>1, <1>2, DoneStep
<1>3. ASSUME NEW n, proc' = [proc EXCEPT ![me] = n], n.refs = w.refs
      PROVE  \A y \in proc'[me].refs : there(y)'
  BY <1>0, <1>1, <1>3
<1>4. CASE GetSource(me, x)
  <2>1. CASE sourcePlan(x) = "skipped"
    <3>1. x \in Copied
      BY <1>0, <1>4 DEF GetSource, At, wellFormed
    <3>2. src[x] = 0
      BY <2>1, <3>1 DEF sourcePlan, TypeOK
    <3>3. there(x)'
      BY <1>0, <3>1, <3>2 DEF Missing, there
    <3> QED BY <1>2, <1>4, <2>1, <3>3 DEF GetSource
  <2>2. CASE sourcePlan(x) # "skipped"
    <3> DEFINE n == [w EXCEPT !.pc = sourcePlan(x), !.v = src[x]]
    <3>1. proc' = [proc EXCEPT ![me] = n]
      BY <1>4, <2>2 DEF GetSource
    <3>2. n.refs = w.refs /\ n.pc = sourcePlan(x)
      BY <1>0 DEF Processes
    <3> HIDE DEF n
    <3>3. proc'[me].pc = sourcePlan(x)
      BY <1>0, <3>1, <3>2
    <3> QED BY <1>3, <3>1, <3>2, <3>3 DEF sourcePlan
  <2> QED BY <2>1, <2>2
<1>5. CASE GetOrphan(me, x)
  <2>1. there(x)'
    BY <1>0, <1>5 DEF GetOrphan, At, Missing, there
  <2>2. CASE obj[x].st = "ours"
    <3> DEFINE n == [w EXCEPT !.pc = "delete"]
    <3>1. proc' = [proc EXCEPT ![me] = n]
      BY <1>5, <2>2 DEF GetOrphan, Goto
    <3>2. n.refs = w.refs /\ n.pc = "delete"
      BY <1>0 DEF Processes
    <3> HIDE DEF n
    <3>3. proc'[me].pc = "delete"
      BY <1>0, <3>1, <3>2
    <3> QED BY <1>3, <3>1, <3>2, <3>3
  <2>3. CASE obj[x].st # "ours"
    BY <1>2, <1>5, <2>1, <2>3 DEF GetOrphan
  <2> QED BY <2>2, <2>3
<1>6. CASE DeleteOrphan(me, x)
  <2>1. there(x)'
    BY <1>0, <1>6 DEF DeleteOrphan, At, Missing, there
  <2> QED BY <1>2, <1>6, <2>1 DEF DeleteOrphan
<1>7. CASE GetOwner(me, x)
  <2>1. w.after = "answer"
    BY <1>0, <1>7 DEF GetOwner, At, wellFormed
  <2>2. CASE route[x].st = "none"
    BY <1>2, <1>7, <2>1, <2>2 DEF GetOwner
  <2>3. CASE route[x].st # "none"
    <3> DEFINE n == [w EXCEPT !.pc = "get", !.owner = <<"route", x>>]
    <3>1. proc' = [proc EXCEPT ![me] = n]
      BY <1>7, <2>3 DEF GetOwner
    <3>2. n.refs = w.refs /\ n.pc = "get"
      BY <1>0 DEF Processes
    <3> HIDE DEF n
    <3>3. proc'[me].pc = "get"
      BY <1>0, <3>1, <3>2
    <3> QED BY <1>3, <3>1, <3>2, <3>3
  <2> QED BY <2>2, <2>3
<1>8. CASE GetFilter(me, x)
  <2>0. UNCHANGED obj
    BY <1>8 DEF GetFilter
  <2>1. CASE obj[x].st = "foreign"
    BY <1>2, <1>8, <2>0, <2>1 DEF GetFilter, there
  <2>2. ASSUME NEW p \in {"create", "update"}, Goto(me, p), p = "update" => obj[x].st = "ours"
        PROVE  /\ \A y \in proc'[me].refs : there(y)'
               /\ proc'[me].pc = "update" => there(Head(proc[me].todo))'
    <3> DEFINE n == [w EXCEPT !.pc = p]
    <3>1. proc' = [proc EXCEPT ![me] = n]
      BY <2>2 DEF Goto
    <3>2. n.refs = w.refs /\ n.pc = p /\ n.todo = w.todo
      BY <1>0 DEF Processes
    <3> HIDE DEF n
    <3>3. proc'[me].pc = p /\ proc'[me].todo = w.todo
      BY <1>0, <3>1, <3>2
    <3>4. p = "update" => there(x)'
      BY <2>0, <2>2 DEF there
    <3>5. p = "update" => there(Head(proc[me].todo))'
      BY <1>0, <2>0, <2>2, <3>3 DEF there
    <3> QED BY <1>3, <3>1, <3>2, <3>3, <3>5
  <2>3. obj[x].st \in {"none", "ours", "foreign"}
    BY <1>0 DEF Objects
  <2> QED BY <1>8, <2>1, <2>2, <2>3 DEF GetFilter
<1>9. CASE CreateFilter(me, x)
  <2>1. CASE obj[x].st = "none"
    <3>1. obj'[x] = desired(proc[me], x)
      BY <1>9, <2>1 DEF CreateFilter, Write, TypeOK
    <3> QED BY <1>2, <1>9, <2>1, <3>1 DEF CreateFilter, desired, there
  <2>2. CASE obj[x].st # "none"
    BY <1>2, <1>9, <2>2 DEF CreateFilter, there
  <2> QED BY <2>1, <2>2
<1>10. CASE UpdateFilter(me, x)
  <2>1. there(x)'
    <3>1. there(x)
      BY <1>0, <1>10 DEF UpdateFilter, At, Existing
    <3> QED BY <3>1, ThereStep
  <2> QED BY <1>2, <1>10, <2>1 DEF UpdateFilter
<1>11. CASE FilterFails(me, x)
  <2>1. Done(me, "failed") /\ x \in excused'
    BY <1>0, <1>11 DEF FilterFails, Done
  <2> QED BY <1>2, <2>1 DEF there
<1> QED BY <1>4, <1>5, <1>6, <1>7, <1>8, <1>9, <1>10, <1>11 DEF EnsureFilter

LEMMA ExistingStep ==
    ASSUME TypeOK, Staged, Owned, Missing, Existing, Next
    PROVE  Existing'
<1>0. \A me \in {"op", "wh"} : proc[me] \in Processes /\ \A x \in proc[me].refs : x \in Filter /\ there(x)'
  <2>1. ASSUME NEW me \in {"op", "wh"}
        PROVE  proc[me] \in Processes /\ \A x \in proc[me].refs : x \in Filter /\ there(x)'
    <3>1. proc[me] \in Processes /\ proc[me].refs \subseteq Filter
      BY ProcessTyped
    <3> QED BY <3>1, ThereStep DEF Existing
  <2> QED BY <2>1
<1>1. ASSUME NEW i \in Ing, NEW x \in route'[i].refs
      PROVE  there(x)'
  <2>0. route[i] \in Routes /\ \A y \in route[i].refs : there(y)'
    <3>1. route[i] \in Routes /\ route[i].refs \subseteq Filter
      BY DEF TypeOK, Routes
    <3> QED BY <3>1, ThereStep DEF Existing
  <2>1. ASSUME NEW me \in {"op", "wh"}, NEW owner, route'[i] = applied(route[i], proc[me].refs, owner)
        PROVE  x \in proc[me].refs
    BY <1>1, <2>0, <2>1 DEF applied, Routes
  <2>2. CASE route'[i] = [route[i] EXCEPT !.owner = Gone]
    BY <1>1, <2>0, <2>2 DEF Routes
  <2>3. route'[i] # NoRoute
    BY <1>1 DEF NoRoute
  <2> QED BY <1>0, <1>1, <2>0, <2>1, <2>2, <2>3, RouteStep
<1>2. ASSUME NEW me \in {"op", "wh"}
      PROVE  /\ \A x \in proc'[me].refs : there(x)'
             /\ proc'[me].pc = "update" => there(Head(proc[me].todo))'
  <2>1. ASSUME proc'[me].refs = proc[me].refs, proc'[me].pc = proc[me].pc, proc'[me].todo = proc[me].todo
        PROVE  /\ \A x \in proc'[me].refs : there(x)'
               /\ proc'[me].pc = "update" => there(Head(proc[me].todo))'
    <3>1. ASSUME NEW y, y = Head(proc[me].todo), proc[me].pc = "update"
          PROVE  there(y)'
      <4>1. y \in Filter /\ there(y)
        BY <3>1, ProcessTyped DEF Existing
      <4> QED BY <4>1, ThereStep
    <3>2. ASSUME proc[me].pc = "update"
          PROVE  there(Head(proc[me].todo))'
      BY <2>1, <3>1, <3>2 DEF there
    <3> QED BY <1>0, <2>1, <3>2
  <2>2. CASE proc'[me] = Idle
    BY <2>2 DEF Idle
  <2>3. CASE ownerLostInStep(me)
    BY <1>0, <2>1, <2>3 DEF ownerLostInStep, Processes
  <2>4. CASE begunInStep(me)
    BY <1>0, <2>4 DEF begunInStep
  <2> QED BY <2>1, <2>2, <2>3, <2>4, ProcessStep, CallRefers
<1> QED BY <1>1, <1>2 DEF Existing

\* The invariant behind FiltersExist.
ExistInv == TypeOK /\ Staged /\ Owned /\ Missing /\ Existing

LEMMA ExistInit ==
    ASSUME Init
    PROVE  ExistInv
<1>1. TypeOK /\ Staged
  BY TypeInit
<1>2. Owned
  BY OwnersDiffer DEF Init, Owned, NoObject, NoRoute, Idle, Filter
<1>3. Missing
  BY DEF Init, Missing, Idle
<1>4. Existing
  BY DEF Init, Existing, NoRoute, Idle
<1> QED BY <1>1, <1>2, <1>3, <1>4 DEF ExistInv

LEMMA ExistStep ==
    ASSUME ExistInv, [Next]_vars
    PROVE  ExistInv'
<1>1. CASE Next
  BY <1>1, TypeStep, OwnedStep, MissingStep, ExistingStep DEF ExistInv
<1>2. CASE UNCHANGED vars
  <2>1. TypeOK' /\ Staged'
    BY <1>2, TypeStep DEF ExistInv
  <2>2. /\ UNCHANGED <<src, obj, route, proc, excused>>
    BY <1>2 DEF vars, gwVars, routeVars
  <2>3. Owned' /\ Missing'
    BY <2>2 DEF ExistInv, Owned, Missing
  <2>4. Existing'
    BY <2>2 DEF ExistInv, Existing, there
  <2> QED BY <2>1, <2>3, <2>4 DEF ExistInv
<1> QED BY <1>1, <1>2

\* A filter that a route refers to exists, but for the exceptions recorded: no
\* order of the calls of the two processes, of deletions and of the garbage
\* collector leaves a route with a reference to nothing.
THEOREM ReferencesExist == Spec => []FiltersExist
<1>1. Init => ExistInv
  BY ExistInit
<1>2. ExistInv /\ [Next]_vars => ExistInv'
  BY ExistStep
<1>3. ExistInv => FiltersExist
  BY DEF ExistInv, Existing, there, FiltersExist
<1> QED BY <1>1, <1>2, <1>3, PTL DEF Spec

-----------------------------------------------------------------------------
(* Extension filters are applied.                                          *)

\* A call that writes is the last one for its filter.
LEMMA WritesOnce ==
    ASSUME TypeOK, Staged, NEW me \in {"op", "wh"}, NEW x \in Filter, EnsureFilter(me, x),
           proc[me].pc \in {"delete", "create", "update"}
    PROVE  proc'[me].pc \notin {"delete", "create", "update"}
<1>1. PICK result : Done(me, result)
  <2>1. DeleteOrphan(me, x) \/ CreateFilter(me, x) \/ UpdateFilter(me, x) \/ FilterFails(me, x)
    BY DEF EnsureFilter, GetSource, GetOrphan, GetOwner, GetFilter, At
  <2> QED BY <2>1 DEF DeleteOrphan, CreateFilter, UpdateFilter, FilterFails
<1> QED BY <1>1, DoneStep

\* A copy that is not the operator's stays so, unless it is excused.
LEMMA ForeignStays ==
    ASSUME TypeOK, Staged, Owned, Missing, Current, Next, NEW f \in Copied, obj[f].st = "foreign"
    PROVE  obj'[f].st = "foreign" \/ f \in excused'
<1>0. f \in Filter /\ obj[f] \in Objects /\ obj[f].owner = NoOwner
  BY DEF Filter, TypeOK, Owned
<1>1. CASE orphanedInStep(f)
  BY <1>0, <1>1 DEF orphanedInStep, Objects
<1>2. ~takenInStep(f)
  BY DEF takenInStep
<1>3. CASE removedInStep(f)
  <2>1. PICK me \in {"op", "wh"} : At(me, "delete", f)
    BY <1>0, <1>3, OwnersDiffer DEF removedInStep
  <2>2. f \in excused
    BY <2>1 DEF Missing, At
  <2> QED BY <2>2, ExcusedGrows
<1>4. ~writtenInStep(f)
  BY DEF writtenInStep, At, Current
<1> QED BY <1>0, <1>1, <1>2, <1>3, <1>4, ObjectStep

\* Whatever happens to the Ingress the operator is translating, it is then not
\* held any longer.
LEMMA HeldStep ==
    ASSUME TypeOK, Staged, Held, Next
    PROVE  Held'
<1>0. /\ proc \in [{"op", "wh"} -> Processes] /\ proc["op"] \in Processes
      /\ ing \in [Ing -> Contents \cup {NoIngress}]
      /\ held \subseteq Ing /\ seen \subseteq Ing
  BY DEF TypeOK
<1> DEFINE kept == /\ proc'["op"].i = proc["op"].i /\ proc'["op"].o = proc["op"].o
                   /\ proc'["op"].after = proc["op"].after
<1>1. ASSUME kept, held' \subseteq held, seen' \subseteq seen, \A i \in held' : ing'[i] = ing[i]
      PROVE  Held'
  BY <1>1 DEF Held
<1>2. ASSUME proc' = [proc EXCEPT !["op"] = Idle], held' = {}
      PROVE  Held'
  <2>1. proc'["op"].i = {} /\ proc'["op"].after = "apply"
    BY <1>0, <1>2 DEF Idle
  <2> QED BY <1>2, <2>1 DEF Held
<1>3. ASSUME NEW i \in Ing, NEW o, Store(i, o), kept
      PROVE  Held'
  <2>1. \A j \in held' : ing'[j] = ing[j]
    BY <1>0, <1>3 DEF Store
  <2> QED BY <1>1, <1>3, <2>1 DEF Store
<1>4. ASSUME NEW of, proc' = procOrphaned(of)
      PROVE  kept
  <2>1. proc'["op"] = [proc["op"] EXCEPT !.owner = orphaned(@, of)]
    BY <1>4 DEF procOrphaned
  <2> QED BY <1>0, <2>1 DEF Processes
<1>5. ASSUME NEW w, proc' = [proc EXCEPT !["wh"] = w]
      PROVE  kept
  BY <1>0, <1>5
<1>6. ASSUME NEW me \in {"op", "wh"}, NEW x \in Filter, EnsureFilter(me, x)
      PROVE  Held'
  <2>1. kept
    BY <1>6, CallKeeps, CallStep
  <2>2. UNCHANGED <<held, seen, ing>>
    BY <1>6 DEF EnsureFilter, GetSource, GetOrphan, DeleteOrphan, GetOwner, GetFilter, CreateFilter,
              UpdateFilter, FilterFails, unchangedByFilters, routeVars, opVars
  <2> QED BY <1>1, <2>1, <2>2
<1>7. ASSUME NEW i \in Ing, OpStart(i)
      PROVE  Held'
  <2>1. CASE ing[i] # NoIngress /\ translated(ing[i]) /\ i \notin seen
    <3>1. ing[i] \in Contents
      BY <1>0, <2>1
    <3>2. /\ opBegun(i) \in Processes /\ opBegun(i).i = {i} /\ opBegun(i).o = ing[i]
          /\ opBegun(i).after = "apply"
      BY <3>1, OpBegun
    <3>3. proc' = [proc EXCEPT !["op"] = started(opBegun(i))]
      BY <1>7, <2>1 DEF OpStart, opBegun
    <3>4. proc'["op"].i = {i} /\ proc'["op"].o = ing[i] /\ proc'["op"].after = "apply"
      BY <1>0, <3>2, <3>3, StartedFields
    <3>5. held' = {i} /\ seen' = seen /\ ing' = ing
      BY <1>7, <2>1 DEF OpStart, routeVars
    <3> QED BY <2>1, <3>4, <3>5 DEF Held
  <2>2. CASE ~(ing[i] # NoIngress /\ translated(ing[i]) /\ i \notin seen)
    BY <1>1, <1>7, <2>2 DEF OpStart, routeVars
  <2> QED BY <2>1, <2>2
<1>8. ASSUME NEW i \in Ing, OpApply(i)
      PROVE  Held'
  <2>1. proc'["op"].i = {} /\ proc'["op"].after = "apply" /\ held' = {}
    BY <1>0, <1>8 DEF OpApply, Idle
  <2> QED BY <2>1 DEF Held
<1> HIDE DEF kept
<1>9. CASE Environment
  <2>1. ASSUME NEW i \in Ing, NEW o \in Contents, Bypass(i, o)
        PROVE  Held'
    BY <1>3, <2>1 DEF Bypass, kept
  <2>2. ASSUME NEW i \in Ing, NEW o \in Contents, Admit(i, o)
        PROVE  Held'
    <3>1. CASE translated(o)
      BY <1>1, <1>5, <2>2, <3>1 DEF Admit, opVars
    <3>2. CASE ~translated(o)
      BY <1>3, <2>2, <3>2 DEF Admit, kept
    <3> QED BY <3>1, <3>2
  <2>3. ASSUME NEW i \in Ing, UserDelete(i)
        PROVE  Held'
    <3>1. \A j \in held' : ing'[j] = ing[j]
      BY <1>0, <2>3 DEF UserDelete
    <3> QED BY <1>1, <1>4, <2>3, <3>1 DEF UserDelete
  <2>4. ASSUME NEW i \in Ing, Expire(i)
        PROVE  Held'
    BY <1>1, <2>4 DEF Expire, kept, routeVars
  <2>5. ASSUME NEW i \in Ing, CollectRoute(i)
        PROVE  Held'
    BY <1>1, <1>4, <2>5 DEF CollectRoute, opVars
  <2>6. ASSUME NEW f \in Copied, UserSource(f)
        PROVE  Held'
    BY <1>1, <2>6 DEF UserSource, kept, routeVars
  <2>7. ASSUME NEW x \in Filter, UserTakes(x) \/ CollectFilter(x)
        PROVE  Held'
    BY <1>1, <2>7 DEF UserTakes, CollectFilter, kept, routeVars, opVars
  <2>8. ASSUME Restart
        PROVE  Held'
    BY <1>2, <2>8 DEF Restart
  <2>9. ASSUME Timeout
        PROVE  Held'
    <3>1. PICK i \in Ing : proc["wh"].i = {i}
      BY <2>9, ProcessTyped DEF Timeout, wellFormed, Processes
    <3>2. StoreOrNot(i, proc["wh"].o) /\ kept
      BY <1>5, <2>9, <3>1 DEF Timeout
    <3> QED BY <1>1, <1>3, <3>2 DEF StoreOrNot, opVars
  <2> QED BY <1>9, <2>1, <2>2, <2>3, <2>4, <2>5, <2>6, <2>7, <2>8, <2>9 DEF Environment
<1>10. CASE Work
  <2>1. ASSUME NEW i \in Ing, OpApplyFails(i)
        PROVE  Held'
    BY <1>2, <2>1 DEF OpApplyFails
  <2>2. ASSUME NEW i \in Ing, WHGateway(i) \/ WHApply(i)
        PROVE  Held'
    BY <1>1, <1>5, <2>2 DEF WHGateway, WHApply, opVars, routeVars
  <2>3. ASSUME NEW i \in Ing, WHAnswer(i)
        PROVE  Held'
    <3>1. CASE proc["wh"].o.allow
      <4>1. StoreOrNot(i, proc["wh"].o) /\ kept
        BY <1>5, <2>3, <3>1 DEF WHAnswer
      <4> QED BY <1>1, <1>3, <4>1 DEF StoreOrNot, opVars
    <3>2. CASE ~proc["wh"].o.allow
      BY <1>1, <1>5, <2>3, <3>2 DEF WHAnswer, opVars
    <3> QED BY <3>1, <3>2
  <2> QED BY <1>6, <1>7, <1>8, <1>10, <2>1, <2>2, <2>3 DEF Work
<1> QED BY <1>9, <1>10 DEF Next

\* A call finishes a filter or keeps the list and the references.
LEMMA CallMoves ==
    ASSUME TypeOK, Staged, NEW me \in {"op", "wh"}, NEW x \in Filter, EnsureFilter(me, x)
    PROVE  \/ \E result : Done(me, result)
           \/ /\ proc'[me].todo = proc[me].todo /\ proc'[me].refs = proc[me].refs
              /\ proc'[me].pc = "create" => proc[me].pc = "get" /\ obj[x].st = "none" /\ UNCHANGED obj
              /\ proc'[me].pc = "update" => me \in fresh'
<1> DEFINE w == proc[me]
<1>0. w \in Processes /\ proc \in [{"op", "wh"} -> Processes]
  BY DEF TypeOK
<1>1. CASE GetSource(me, x)
  <2>1. CASE sourcePlan(x) = "skipped"
    BY <1>1, <2>1 DEF GetSource
  <2>2. CASE sourcePlan(x) # "skipped"
    <3>1. proc'[me] = [w EXCEPT !.pc = sourcePlan(x), !.v = src[x]]
      BY <1>0, <1>1, <2>2 DEF GetSource
    <3>2. proc'[me].todo = w.todo /\ proc'[me].refs = w.refs /\ proc'[me].pc = sourcePlan(x)
      BY <1>0, <3>1 DEF Processes
    <3> QED BY <3>2 DEF sourcePlan
  <2> QED BY <2>1, <2>2
<1>2. CASE GetOwner(me, x)
  <2>1. CASE route[x].st = "none"
    BY <1>2, <2>1 DEF GetOwner
  <2>2. CASE route[x].st # "none"
    <3>1. proc'[me] = [w EXCEPT !.pc = "get", !.owner = <<"route", x>>]
      BY <1>0, <1>2, <2>2 DEF GetOwner
    <3>2. proc'[me].todo = w.todo /\ proc'[me].refs = w.refs /\ proc'[me].pc = "get"
      BY <1>0, <3>1 DEF Processes
    <3> QED BY <3>2
  <2> QED BY <2>1, <2>2
<1>3. ASSUME NEW p, Goto(me, p)
      PROVE  proc'[me].todo = w.todo /\ proc'[me].refs = w.refs /\ proc'[me].pc = p
  <2>1. proc'[me] = [w EXCEPT !.pc = p]
    BY <1>0, <1>3 DEF Goto
  <2> QED BY <1>0, <2>1 DEF Processes
<1>4. CASE GetOrphan(me, x)
  BY <1>3, <1>4 DEF GetOrphan
<1>5. CASE GetFilter(me, x)
  <2>1. obj[x].st \in {"none", "ours", "foreign"}
    BY DEF TypeOK, Objects
  <2>2. CASE obj[x].st = "none"
    BY <1>3, <1>5, <2>2 DEF GetFilter, At
  <2>3. CASE obj[x].st = "ours"
    BY <1>3, <1>5, <2>3 DEF GetFilter
  <2>4. CASE obj[x].st = "foreign"
    BY <1>5, <2>4 DEF GetFilter
  <2> QED BY <2>1, <2>2, <2>3, <2>4
<1>6. CASE DeleteOrphan(me, x) \/ CreateFilter(me, x) \/ UpdateFilter(me, x) \/ FilterFails(me, x)
  BY <1>6 DEF DeleteOrphan, CreateFilter, UpdateFilter, FilterFails
<1> QED BY <1>1, <1>2, <1>4, <1>5, <1>6 DEF EnsureFilter

\* The webhook never comes to an extension filter.
LEMMA NotTheWebhooks ==
    ASSUME TypeOK, Staged, Alone, NEW x \in Filter, EnsureFilter("wh", x)
    PROVE  x \notin Auths
<1>1. /\ proc["wh"].todo \in Seq(Filter) /\ proc["wh"].todo # <<>> /\ x = Head(proc["wh"].todo)
  BY ProcessTyped, CallStep DEF wellFormed
<1>2. x \in ToSet(proc["wh"].todo)
  BY <1>1, HeadAndTail
<1> QED BY <1>2 DEF Alone

\* When the operator's copy of an extension filter is not current any longer,
\* the filter was taken by a user.
LEMMA FreshKept ==
    ASSUME TypeOK, Staged, Owned, Alone, Next, "op" \in fresh, proc["op"].pc = "update",
           proc'["op"].pc = "update", Head(proc["op"].todo) \in Auths
    PROVE  "op" \in fresh' \/ obj'[Head(proc["op"].todo)].st = "foreign"
<1> DEFINE x == Head(proc["op"].todo)
           G == "op" \in fresh' \/ obj'[x].st = "foreign"
<1> SUFFICES G
  OBVIOUS
<1>0. x \in Copied /\ x \in Filter /\ obj \in [Filter -> Objects] /\ proc \in [{"op", "wh"} -> Processes]
  BY DEF TypeOK, Filter, Copied
<1>1. ASSUME UNCHANGED fresh
      PROVE  G
  BY <1>1
<1>2. ASSUME NEW me \in {"op", "wh"}, NEW y \in Filter, EnsureFilter(me, y)
      PROVE  G
  <2>1. me = "wh"
    BY <1>2, WritesOnce
  <2>2. y # x
    BY <1>2, <2>1, NotTheWebhooks
  <2>3. CASE GetFilter(me, y)
    <3>1. obj[y].st \in {"none", "ours", "foreign"}
      BY <1>0 DEF Objects
    <3> QED BY <2>3, <3>1 DEF GetFilter
  <2>4. CASE ~GetFilter(me, y)
    BY <1>2, <2>1, <2>2, <2>4 DEF EnsureFilter, GetSource, GetOrphan, DeleteOrphan, GetOwner,
          CreateFilter, UpdateFilter, FilterFails, Write
  <2> QED BY <2>3, <2>4
<1>3. ASSUME NEW y \in Filter, UserTakes(y)
      PROVE  G
  <2>1. CASE y = x
    <3>1. obj'[x] = [obj[x] EXCEPT !.st = "foreign"]
      BY <1>0, <1>3, <2>1 DEF UserTakes
    <3> QED BY <1>0, <3>1 DEF Objects
  <2>2. CASE y # x
    BY <1>3, <2>2 DEF UserTakes
  <2> QED BY <2>1, <2>2
<1>4. ASSUME NEW y \in Filter, CollectFilter(y)
      PROVE  G
  <2>1. y # x
    BY <1>0, <1>4, OwnersDiffer DEF CollectFilter, Owned
  <2> QED BY <1>4, <2>1 DEF CollectFilter
<1>5. ~Restart
  <2>1. ASSUME Restart
        PROVE  proc'["op"].pc = "idle"
    BY <1>0, <2>1 DEF Restart, Idle
  <2> QED BY <2>1
<1>6. ASSUME Timeout
      PROVE  G
  BY <1>6 DEF Timeout
<1> HIDE DEF G
<1>7. CASE Environment
  <2>1. ASSUME NEW i \in Ing, NEW o \in Contents, Bypass(i, o) \/ Admit(i, o)
        PROVE  UNCHANGED fresh
    BY <2>1 DEF Bypass, Admit
  <2>2. ASSUME NEW i \in Ing, UserDelete(i) \/ Expire(i) \/ CollectRoute(i)
        PROVE  UNCHANGED fresh
    BY <2>2 DEF UserDelete, Expire, CollectRoute
  <2>3. ASSUME NEW f \in Copied, UserSource(f)
        PROVE  UNCHANGED fresh
    BY <2>3 DEF UserSource
  <2> QED BY <1>1, <1>3, <1>4, <1>5, <1>6, <1>7, <2>1, <2>2, <2>3 DEF Environment
<1>8. CASE Work
  <2>1. ASSUME NEW i \in Ing, \/ OpStart(i) \/ OpApply(i) \/ OpApplyFails(i)
                              \/ WHGateway(i) \/ WHApply(i) \/ WHAnswer(i)
        PROVE  UNCHANGED fresh
    BY <2>1 DEF OpStart, OpApply, OpApplyFails, WHGateway, WHApply, WHAnswer
  <2> QED BY <1>1, <1>2, <1>8, <2>1 DEF Work
<1> QED BY <1>7, <1>8 DEF Next

\* What the operator found of an extension filter stays so.
LEMMA AloneStep ==
    ASSUME TypeOK, Staged, Current, Owned, Missing, Alone, Next
    PROVE  Alone'
<1>0. /\ proc["op"] \in Processes /\ proc["wh"] \in Processes
      /\ proc["op"].todo \in Seq(Filter) /\ proc["wh"].todo \in Seq(Filter)
      /\ wellFormed(proc["op"]) /\ wellFormed(proc["wh"])
  BY ProcessTyped
<1>1. ToSet(proc'["wh"].todo) \cap Auths = {}
  <2>1. ASSUME proc'["wh"].todo = proc["wh"].todo
        PROVE  ToSet(proc'["wh"].todo) \cap Auths = {}
    BY <2>1 DEF Alone
  <2>2. CASE proc'["wh"] = Idle
    BY <2>2 DEF Idle, ToSet
  <2>3. CASE ownerLostInStep("wh")
    BY <1>0, <2>1, <2>3 DEF ownerLostInStep, Processes
  <2>4. CASE begunInStep("wh")
    BY <2>4 DEF begunInStep
  <2>5. ASSUME NEW x \in Filter, EnsureFilter("wh", x)
        PROVE  ToSet(proc'["wh"].todo) \cap Auths = {}
    <3>1. proc["wh"].pc \in Calls /\ proc["wh"].todo # <<>>
      BY <1>0, <2>5, CallStep DEF wellFormed
    <3>2. ASSUME NEW result, Done("wh", result)
          PROVE  ToSet(proc'["wh"].todo) \cap Auths = {}
      <4>1. proc'["wh"].todo = Tail(proc["wh"].todo)
        BY <3>1, <3>2, DoneStep
      <4>2. ToSet(Tail(proc["wh"].todo)) \subseteq ToSet(proc["wh"].todo)
        BY <1>0, <3>1, HeadAndTail
      <4> QED BY <4>1, <4>2 DEF Alone
    <3> QED BY <2>1, <2>5, <3>2, CallMoves
  <2> QED BY <2>1, <2>2, <2>3, <2>4, <2>5, ProcessStep
<1>2. ASSUME proc'["op"].pc = proc["op"].pc, proc'["op"].todo = proc["op"].todo,
             proc["op"].pc \in {"create", "update"}, NEW x, x = Head(proc["op"].todo), x \in Auths
      PROVE  /\ proc["op"].pc = "create" => obj'[x].st = "none"
             /\ proc["op"].pc = "update" => "op" \in fresh' \/ obj'[x].st = "foreign" \/ x \in excused'
  <2>0. x \in Filter /\ x \in Copied /\ obj[x] \in Objects
    BY <1>2 DEF Filter, Copied, TypeOK
  <2>1. CASE proc["op"].pc = "create"
    <3> SUFFICES obj'[x].st = "none"
      BY <2>1
    <3>0. obj[x].st = "none"
      BY <1>2, <2>1 DEF Alone
    <3>1. CASE orphanedInStep(x)
      BY <2>0, <3>0, <3>1 DEF orphanedInStep, Objects
    <3>2. ~takenInStep(x)
      BY <3>0 DEF takenInStep
    <3>3. CASE removedInStep(x)
      BY <3>3 DEF removedInStep, NoObject
    <3>4. ~writtenInStep(x)
      <4>1. ~EnsureFilter("op", x)
        BY <1>2, <2>0, WritesOnce
      <4>2. ~EnsureFilter("wh", x)
        BY <1>2, <2>0, NotTheWebhooks
      <4> QED BY <4>1, <4>2 DEF writtenInStep
    <3> QED BY <2>0, <3>0, <3>1, <3>2, <3>3, <3>4, ObjectStep
  <2>2. CASE proc["op"].pc = "update"
    <3>1. CASE "op" \in fresh
      BY <1>2, <2>2, <3>1, FreshKept
    <3>2. CASE obj[x].st = "foreign"
      BY <2>0, <2>2, <3>2, ForeignStays
    <3>3. CASE x \in excused
      BY <2>2, <3>3, ExcusedGrows
    <3> QED BY <1>2, <2>2, <3>1, <3>2, <3>3 DEF Alone
  <2> QED BY <1>2, <2>1, <2>2
<1>3. ASSUME proc'["op"].pc \in {"create", "update"}, NEW x, x = Head(proc'["op"].todo), x \in Auths
      PROVE  /\ proc'["op"].pc = "create" => obj'[x].st = "none"
             /\ proc'["op"].pc = "update" => "op" \in fresh' \/ obj'[x].st = "foreign" \/ x \in excused'
  <2>1. CASE proc'["op"] = proc["op"]
    BY <1>2, <1>3, <2>1
  <2>2. CASE ownerLostInStep("op")
    <3>1. proc'["op"].pc = proc["op"].pc /\ proc'["op"].todo = proc["op"].todo
      BY <1>0, <2>2 DEF ownerLostInStep, Processes
    <3> QED BY <1>2, <1>3, <3>1
  <2>3. ~(proc'["op"] = Idle) /\ ~begunInStep("op")
    BY <1>3 DEF Idle, begunInStep
  <2>4. ASSUME NEW y \in Filter, EnsureFilter("op", y)
        PROVE  /\ proc'["op"].pc = "create" => obj'[x].st = "none"
               /\ proc'["op"].pc = "update" => "op" \in fresh'
    <3>1. proc["op"].pc \in Calls /\ y = Head(proc["op"].todo)
      BY <2>4, CallStep
    <3>2. \A result : ~Done("op", result)
      BY <1>3, <3>1, DoneStep
    <3> QED BY <1>3, <2>4, <3>1, <3>2, CallMoves
  <2> QED BY <2>1, <2>2, <2>3, <2>4, ProcessStep
<1>4. \/ ~(proc'["op"].pc \in {"create", "update"} /\ Head(proc'["op"].todo) \in Auths)
      \/ /\ proc'["op"].pc = "create" => obj'[Head(proc'["op"].todo)].st = "none"
         /\ proc'["op"].pc = "update" => \/ "op" \in fresh' \/ obj'[Head(proc'["op"].todo)].st = "foreign"
                                         \/ Head(proc'["op"].todo) \in excused'
  BY <1>3
<1> QED BY <1>1, <1>4 DEF Alone

\* The operator refers to an extension filter when it is done with it, unless
\* the filter is a user's or excused.
LEMMA OpSettles ==
    ASSUME TypeOK, Staged, Current, Owned, Missing, Held, Alone, Next,
           NEW x \in Auths, EnsureFilter("op", x)
    PROVE  \/ proc'["op"].todo = proc["op"].todo \/ x \in proc'["op"].refs
           \/ obj'[x].st = "foreign" \/ x \in excused'
<1> DEFINE w == proc["op"]
<1>0. /\ x \in Copied /\ x \in Filter /\ obj[x] \in Objects /\ w \in Processes /\ wellFormed(w)
      /\ proc \in [{"op", "wh"} -> Processes] /\ src \in [Copied -> 0..MaxVersion]
  BY ProcessTyped DEF Copied, Filter, TypeOK
<1>1. w.pc \in Calls /\ x = Head(w.todo) /\ excused \subseteq excused' /\ w.after = "apply"
  BY <1>0, CallStep, ExcusedGrows DEF Held
<1>2. Done("op", "ready") => x \in proc'["op"].refs
  BY <1>1, DoneStep DEF refersTo
<1>3. ASSUME NEW p, Goto("op", p)
      PROVE  proc'["op"].todo = w.todo
  <2>1. proc'["op"] = [w EXCEPT !.pc = p]
    BY <1>0, <1>3 DEF Goto
  <2> QED BY <1>0, <2>1 DEF Processes
<1>4. CASE GetSource("op", x)
  <2>1. CASE sourcePlan(x) = "skipped"
    <3>1. src[x] = 0
      BY <1>0, <2>1 DEF sourcePlan
    <3> QED BY <1>0, <1>1, <3>1 DEF Missing
  <2>2. CASE sourcePlan(x) # "skipped"
    <3>1. proc'["op"] = [w EXCEPT !.pc = sourcePlan(x), !.v = src[x]]
      BY <1>0, <1>4, <2>2 DEF GetSource
    <3> QED BY <1>0, <3>1 DEF Processes
  <2> QED BY <2>1, <2>2
<1>5. CASE GetOrphan("op", x) \/ DeleteOrphan("op", x)
  BY <1>1, <1>5 DEF GetOrphan, DeleteOrphan, At, Missing
<1>6. ~GetOwner("op", x)
  BY <1>0, KindsAssumption DEF GetOwner, At, wellFormed
<1>7. CASE GetFilter("op", x)
  <2>1. obj[x].st \in {"none", "ours", "foreign"}
    BY <1>0 DEF Objects
  <2> QED BY <1>3, <1>7, <2>1 DEF GetFilter
<1>8. CASE CreateFilter("op", x)
  <2>1. obj[x].st = "none"
    BY <1>1, <1>8 DEF CreateFilter, At, Alone
  <2> QED BY <1>2, <1>8, <2>1 DEF CreateFilter
<1>9. CASE UpdateFilter("op", x)
  <2>1. CASE "op" \in fresh
    BY <1>2, <1>9, <2>1 DEF UpdateFilter, UpdateAccepted
  <2>2. CASE "op" \notin fresh
    <3>1. UNCHANGED obj
      BY <1>9, <2>2 DEF UpdateFilter, UpdateAccepted
    <3>2. obj[x].st = "foreign" \/ x \in excused
      BY <1>1, <1>9, <2>2 DEF UpdateFilter, At, Alone
    <3> QED BY <1>1, <3>1, <3>2
  <2> QED BY <2>1, <2>2
<1>10. CASE FilterFails("op", x)
  BY <1>1, <1>10 DEF FilterFails, Done
<1> QED BY <1>4, <1>5, <1>6, <1>7, <1>8, <1>9, <1>10 DEF EnsureFilter

LEMMA PursuedStep ==
    ASSUME TypeOK, Staged, Current, Owned, Missing, Held, Alone, Pursued, Next
    PROVE  Pursued'
<1> SUFFICES ASSUME proc'["op"].pc # "idle", NEW f \in proc'["op"].o.auths, f \notin excused'
             PROVE  f \in ToSet(proc'["op"].todo) \/ f \in proc'["op"].refs \/ obj'[f].st = "foreign"
  BY DEF Pursued, settled
<1>0. /\ proc["op"] \in Processes /\ wellFormed(proc["op"]) /\ f \notin excused
      /\ proc["op"].todo \in Seq(Filter)
  BY ProcessTyped, ExcusedGrows
<1>1. ASSUME proc["op"].pc # "idle", proc'["op"].o = proc["op"].o
      PROVE  /\ f \in Auths /\ f \in Copied
             /\ f \in ToSet(proc["op"].todo) \/ f \in proc["op"].refs \/ obj'[f].st = "foreign"
  <2>1. f \in Auths /\ f \in Copied
    BY <1>0, <1>1, ContentsAssumption DEF wellFormed, Copied
  <2>2. f \in ToSet(proc["op"].todo) \/ f \in proc["op"].refs \/ obj[f].st = "foreign"
    BY <1>0, <1>1 DEF Pursued, settled
  <2> QED BY <2>1, <2>2, ForeignStays
<1>2. CASE proc'["op"] = proc["op"]
  BY <1>1, <1>2
<1>3. CASE ownerLostInStep("op")
  <2>1. /\ proc'["op"].pc = proc["op"].pc /\ proc'["op"].o = proc["op"].o
        /\ proc'["op"].todo = proc["op"].todo /\ proc'["op"].refs = proc["op"].refs
    BY <1>0, <1>3 DEF ownerLostInStep, Processes
  <2> QED BY <1>1, <2>1
<1>4. ~(proc'["op"] = Idle)
  BY DEF Idle
<1>5. CASE begunInStep("op")
  <2>1. PICK i \in Ing : ing[i] \in Contents /\ proc'["op"] = started(opBegun(i))
    BY <1>5 DEF begunInStep
  <2>2. /\ opBegun(i) \in Processes /\ opBegun(i).o = ing[i]
        /\ opBegun(i).todo = filtersOf("op", i, ing[i])
    BY <2>1, OpBegun
  <2>3. proc'["op"].o = ing[i] /\ proc'["op"].todo = filtersOf("op", i, ing[i])
    BY <2>1, <2>2, StartedFields
  <2>4. ing[i].auths \subseteq ToSet(filtersOf("op", i, ing[i]))
    BY <2>1, FiltersListed
  <2> QED BY <2>3, <2>4
<1>6. ASSUME NEW x \in Filter, EnsureFilter("op", x)
      PROVE  f \in ToSet(proc'["op"].todo) \/ f \in proc'["op"].refs \/ obj'[f].st = "foreign"
  <2>1. /\ proc["op"].pc \in Calls /\ x = Head(proc["op"].todo) /\ proc["op"].todo # <<>>
        /\ proc'["op"].o = proc["op"].o
    BY <1>0, <1>6, CallStep, CallKeeps DEF wellFormed
  <2>2. /\ f \in Auths
        /\ f \in ToSet(proc["op"].todo) \/ f \in proc["op"].refs \/ obj'[f].st = "foreign"
    BY <1>1, <2>1
  <2>3. ASSUME NEW result, Done("op", result)
        PROVE  f \in ToSet(proc'["op"].todo) \/ f \in proc'["op"].refs \/ obj'[f].st = "foreign"
    <3>1. proc'["op"].todo = Tail(proc["op"].todo) /\ proc["op"].refs \subseteq proc'["op"].refs
      BY <2>1, <2>3, DoneStep
    <3>2. ToSet(proc["op"].todo) = {x} \cup ToSet(Tail(proc["op"].todo))
      BY <1>0, <2>1, HeadAndTail
    <3>3. CASE f = x
      <4>1. \/ proc'["op"].todo = proc["op"].todo \/ x \in proc'["op"].refs
            \/ obj'[x].st = "foreign"
        BY <1>6, <2>2, <3>3, OpSettles
      <4>2. proc'["op"].todo = proc["op"].todo => f \in ToSet(proc'["op"].todo)
        BY <3>2, <3>3
      <4> QED BY <3>3, <4>1, <4>2
    <3>4. CASE f # x
      BY <2>2, <3>1, <3>2, <3>4
    <3> QED BY <3>3, <3>4
  <2> QED BY <1>6, <2>2, <2>3, CallMoves
<1> QED BY <1>2, <1>3, <1>4, <1>5, <1>6, ProcessStep

\* An Ingress is in the cache because it was and has not changed, or because the
\* operator applies its route.
LEMMA SeenStep ==
    ASSUME TypeOK, Staged, Held, Next, NEW i \in seen'
    PROVE  (i \in seen /\ ing'[i] = ing[i]) \/ (i \in held /\ OpApply(i) /\ ing'[i] = ing[i])
<1> DEFINE G == (i \in seen /\ ing'[i] = ing[i]) \/ (i \in held /\ OpApply(i) /\ ing'[i] = ing[i])
<1> SUFFICES G
  OBVIOUS
<1>0. ing \in [Ing -> Contents \cup {NoIngress}] /\ seen \subseteq Ing /\ held \subseteq Ing
  BY DEF TypeOK
<1>1. ASSUME UNCHANGED <<seen, ing>>
      PROVE  G
  BY <1>1
<1>2. ASSUME NEW j \in Ing, NEW o, Store(j, o)
      PROVE  G
  BY <1>0, <1>2 DEF Store
<1>3. ASSUME NEW j \in Ing, OpApply(j)
      PROVE  G
  <2>1. seen' = seen \cup held /\ proc["op"].i = {j} /\ UNCHANGED ing
    BY <1>3 DEF OpApply
  <2>2. i \in held => i = j
    BY <2>1 DEF Held
  <2> QED BY <1>3, <2>1, <2>2
<1> HIDE DEF G
<1>4. CASE Environment
  <2>1. ASSUME NEW j \in Ing, NEW o \in Contents, Bypass(j, o)
        PROVE  G
    BY <1>2, <2>1 DEF Bypass
  <2>2. ASSUME NEW j \in Ing, NEW o \in Contents, Admit(j, o)
        PROVE  G
    BY <1>1, <1>2, <2>2 DEF Admit, opVars
  <2>3. ASSUME NEW j \in Ing, UserDelete(j)
        PROVE  G
    BY <1>0, <2>3 DEF UserDelete, G
  <2>4. ASSUME NEW j \in Ing, Expire(j)
        PROVE  G
    BY <2>4 DEF Expire, routeVars, G
  <2>5. ASSUME NEW j \in Ing, CollectRoute(j)
        PROVE  G
    BY <1>1, <2>5 DEF CollectRoute, opVars
  <2>6. ASSUME NEW f \in Copied, UserSource(f)
        PROVE  G
    BY <1>1, <2>6 DEF UserSource, routeVars
  <2>7. ASSUME NEW x \in Filter, UserTakes(x) \/ CollectFilter(x)
        PROVE  G
    BY <1>1, <2>7 DEF UserTakes, CollectFilter, routeVars, opVars
  <2>8. ASSUME Restart
        PROVE  G
    BY <1>1, <2>8 DEF Restart, routeVars
  <2>9. ASSUME Timeout
        PROVE  G
    <3>1. PICK j \in Ing : proc["wh"].i = {j}
      BY <2>9, ProcessTyped DEF Timeout, wellFormed, Processes
    <3>2. StoreOrNot(j, proc["wh"].o)
      BY <2>9, <3>1 DEF Timeout
    <3> QED BY <1>1, <1>2, <3>2 DEF StoreOrNot, opVars
  <2> QED BY <1>4, <2>1, <2>2, <2>3, <2>4, <2>5, <2>6, <2>7, <2>8, <2>9 DEF Environment
<1>5. CASE Work
  <2>1. ASSUME NEW me \in {"op", "wh"}, NEW x \in Filter, EnsureFilter(me, x)
        PROVE  UNCHANGED <<seen, ing>>
    BY <2>1 DEF EnsureFilter, GetSource, GetOrphan, DeleteOrphan, GetOwner, GetFilter, CreateFilter,
              UpdateFilter, FilterFails, unchangedByFilters, routeVars, opVars
  <2>2. ASSUME NEW j \in Ing, OpStart(j) \/ OpApplyFails(j) \/ WHGateway(j) \/ WHApply(j)
        PROVE  UNCHANGED <<seen, ing>>
    BY <2>2 DEF OpStart, OpApplyFails, WHGateway, WHApply, routeVars, opVars
  <2>3. ASSUME NEW j \in Ing, WHAnswer(j)
        PROVE  G
    BY <1>1, <1>2, <2>3 DEF WHAnswer, StoreOrNot, opVars
  <2> QED BY <1>1, <1>3, <1>5, <2>1, <2>2, <2>3 DEF Work
<1> QED BY <1>4, <1>5 DEF Next

\* The webhook that wrote a route answers: the Ingress is stored, and is not in
\* the cache any longer, or it is not.
LEMMA AnswerStep ==
    ASSUME TypeOK, Staged, Next, NEW i \in Ing, proc["wh"].i = {i}, proc["wh"].after = "answer"
    PROVE  (proc'["wh"].i = {i} /\ proc'["wh"].after = "answer") \/ i \notin seen' \/ i \in unstored'
<1> DEFINE G == (proc'["wh"].i = {i} /\ proc'["wh"].after = "answer") \/ i \notin seen' \/ i \in unstored'
<1> SUFFICES G
  OBVIOUS
<1>0. /\ proc \in [{"op", "wh"} -> Processes] /\ proc["wh"] \in Processes /\ wellFormed(proc["wh"])
  BY ProcessTyped DEF TypeOK
<1>1. ASSUME proc'["wh"].i = proc["wh"].i, proc'["wh"].after = proc["wh"].after
      PROVE  G
  BY <1>1
<1>2. ASSUME NEW w, proc' = [proc EXCEPT !["op"] = w]
      PROVE  G
  BY <1>0, <1>1, <1>2
<1>3. ASSUME NEW of, proc' = procOrphaned(of)
      PROVE  G
  <2>1. proc'["wh"] = [proc["wh"] EXCEPT !.owner = orphaned(@, of)]
    BY <1>3 DEF procOrphaned
  <2>2. proc'["wh"].i = proc["wh"].i /\ proc'["wh"].after = proc["wh"].after
    BY <1>0, <2>1 DEF Processes
  <2> QED BY <1>1, <2>2
<1>4. ASSUME NEW j \in Ing, WHAnswer(j)
      PROVE  G
  <2>1. j = i
    BY <1>4 DEF WHAnswer
  <2> QED BY <1>4, <2>1 DEF WHAnswer, StoreOrNot, Store
<1>5. ASSUME NEW j \in Ing, WHApply(j)
      PROVE  G
  <2>1. j = i
    BY <1>5 DEF WHApply
  <2>2. proc'["wh"] = started(whBegun(i, "answer"))
    BY <1>0, <1>5, <2>1 DEF WHApply, whBegun
  <2>3. /\ whBegun(i, "answer") \in Processes
        /\ whBegun(i, "answer").i = {i} /\ whBegun(i, "answer").after = "answer"
    BY WHBegun
  <2> QED BY <2>2, <2>3, StartedFields
<1> HIDE DEF G
<1>6. CASE Environment
  <2>1. ASSUME NEW j \in Ing, NEW o \in Contents, Bypass(j, o) \/ Admit(j, o)
        PROVE  G
    <3>1. UNCHANGED proc
      BY <1>0, <2>1 DEF Bypass, Admit, wellFormed
    <3> QED BY <1>1, <3>1
  <2>2. ASSUME NEW j \in Ing, UserDelete(j) \/ CollectRoute(j)
        PROVE  G
    BY <1>3, <2>2 DEF UserDelete, CollectRoute
  <2>3. ASSUME NEW j \in Ing, Expire(j)
        PROVE  G
    BY <1>1, <2>3 DEF Expire
  <2>4. ASSUME NEW f \in Copied, UserSource(f)
        PROVE  G
    BY <1>1, <2>4 DEF UserSource
  <2>5. ASSUME NEW x \in Filter, UserTakes(x) \/ CollectFilter(x)
        PROVE  G
    BY <1>1, <2>5 DEF UserTakes, CollectFilter
  <2>6. ASSUME Restart
        PROVE  G
    BY <1>2, <2>6 DEF Restart
  <2>7. ASSUME Timeout
        PROVE  G
    BY <2>7 DEF Timeout, StoreOrNot, Store, G
  <2> QED BY <1>6, <2>1, <2>2, <2>3, <2>4, <2>5, <2>6, <2>7 DEF Environment
<1>7. CASE Work
  <2>1. ASSUME NEW me \in {"op", "wh"}, NEW x \in Filter, EnsureFilter(me, x)
        PROVE  G
    <3>1. proc'["wh"].i = proc["wh"].i /\ proc'["wh"].after = proc["wh"].after
      BY <2>1, CallKeeps, CallStep
    <3> QED BY <1>1, <3>1
  <2>2. ASSUME NEW j \in Ing, OpStart(j)
        PROVE  G
    BY <1>1, <1>2, <2>2 DEF OpStart
  <2>3. ASSUME NEW j \in Ing, OpApply(j) \/ OpApplyFails(j)
        PROVE  G
    BY <1>2, <2>3 DEF OpApply, OpApplyFails
  <2>4. ASSUME NEW j \in Ing
        PROVE  ~WHGateway(j)
    BY <1>0 DEF WHGateway, wellFormed
  <2> QED BY <1>4, <1>5, <1>7, <2>1, <2>2, <2>3, <2>4 DEF Work
<1> QED BY <1>6, <1>7 DEF Next

\* Only the operator makes up for a request that was not stored.
LEMMA UnstoredKept ==
    ASSUME TypeOK, Staged, Next, NEW i \in unstored, ~OpApply(i)
    PROVE  i \in unstored'
<1>1. Environment => unstored \subseteq unstored'
  <2>1. ASSUME Timeout
        PROVE  unstored \subseteq unstored'
    <3>1. PICK j \in Ing : proc["wh"].i = {j}
      BY <2>1, ProcessTyped DEF Timeout, wellFormed, Processes
    <3> QED BY <2>1, <3>1 DEF Timeout, StoreOrNot
  <2> QED BY <2>1 DEF Environment, Bypass, Admit, UserDelete, Expire, CollectRoute, UserSource,
         UserTakes, CollectFilter, Restart
<1>2. ASSUME NEW me \in {"op", "wh"}, NEW x \in Filter, EnsureFilter(me, x)
      PROVE  UNCHANGED unstored
  BY <1>2 DEF EnsureFilter, GetSource, GetOrphan, DeleteOrphan, GetOwner, GetFilter, CreateFilter,
              UpdateFilter, FilterFails, unchangedByFilters
<1>3. ASSUME NEW j \in Ing, \/ OpStart(j) \/ OpApplyFails(j)
                            \/ WHGateway(j) \/ WHApply(j) \/ WHAnswer(j)
      PROVE  unstored \subseteq unstored'
  BY <1>3 DEF OpStart, OpApplyFails, WHGateway, WHApply, WHAnswer, StoreOrNot
<1>4. ASSUME NEW j \in Ing, OpApply(j)
      PROVE  i \in unstored'
  BY <1>4 DEF OpApply
<1> QED BY <1>1, <1>2, <1>3, <1>4 DEF Next, Work

\* The route of an Ingress in the cache keeps its extension filters.
LEMMA ServedStep ==
    ASSUME TypeOK, Staged, Current, Owned, Missing, Held, Pursued, Served, Next
    PROVE  Served'
<1> SUFFICES ASSUME NEW i \in seen', ing'[i] # NoIngress, route'[i].st = "live",
                    i \notin unstored', ~(proc'["wh"].i = {i} /\ proc'["wh"].after = "answer"),
                    NEW f \in ing'[i].auths, f \notin excused'
             PROVE  f \in route'[i].refs \/ obj'[f].st = "foreign"
  BY DEF Served, settled
<1>0. /\ i \in Ing /\ ing'[i] = ing[i] /\ ing[i] \in Contents /\ f \in Copied /\ f \notin excused
      /\ route[i] \in Routes
  <2>1. i \in Ing /\ ing'[i] = ing[i]
    BY SeenStep DEF TypeOK
  <2>2. ing[i] \in Contents /\ route[i] \in Routes
    BY <2>1 DEF TypeOK
  <2>3. f \in Copied
    BY <2>1, <2>2, ContentsAssumption DEF Copied
  <2> QED BY <2>1, <2>2, <2>3, ExcusedGrows
<1>1. obj[f].st = "foreign" => obj'[f].st = "foreign"
  BY <1>0, ForeignStays
<1>2. CASE OpApply(i) /\ i \in held
  <2>1. proc["op"].pc = "apply" /\ proc["op"].o = ing[i]
    BY <1>2 DEF OpApply, Held
  <2>2. proc["op"].todo = <<>> /\ ToSet(<<>>) = {}
    BY <2>1, ProcessTyped DEF wellFormed, ToSet
  <2>3. f \in proc["op"].refs \/ obj[f].st = "foreign"
    BY <1>0, <2>1, <2>2 DEF Pursued, settled
  <2>4. route'[i] = applied(route[i], proc["op"].refs, proc["op"].owner)
    BY <1>0, <1>2 DEF OpApply, TypeOK
  <2>5. route'[i].refs = proc["op"].refs
    BY <1>0, <2>4 DEF applied, Routes
  <2> QED BY <1>1, <2>3, <2>5
<1>3. CASE i \in seen
  <2>1. ~OpApply(i)
    BY <1>3 DEF OpApply, Held
  <2>2. ~WHApply(i)
    <3>1. ASSUME WHApply(i)
          PROVE  proc'["wh"].i = {i} /\ proc'["wh"].after = "answer"
      <4>1. proc'["wh"] = started(whBegun(i, "answer")) /\ proc["wh"].i = {i}
        BY <3>1 DEF WHApply, whBegun, TypeOK
      <4>2. /\ whBegun(i, "answer") \in Processes
            /\ whBegun(i, "answer").i = {i} /\ whBegun(i, "answer").after = "answer"
        BY <1>0, <4>1, WHBegun
      <4> QED BY <4>1, <4>2, StartedFields
    <3> QED BY <3>1
  <2>3. route'[i] # NoRoute
    BY DEF NoRoute
  <2>4. route'[i].refs = route[i].refs /\ route[i].st = "live"
    BY <1>0, <2>1, <2>2, <2>3, RouteStep DEF Routes
  <2>5. i \notin unstored
    BY <2>1, UnstoredKept
  <2>6. ~(proc["wh"].i = {i} /\ proc["wh"].after = "answer")
    BY <1>0, AnswerStep
  <2>7. f \in route[i].refs \/ obj[f].st = "foreign"
    BY <1>0, <1>3, <2>4, <2>5, <2>6 DEF Served, settled
  <2> QED BY <1>1, <2>4, <2>7
<1> QED BY <1>2, <1>3, SeenStep

\* The invariant behind FiltersApplied.
ApplyInv == ExistInv /\ Current /\ Held /\ Alone /\ Pursued /\ Served

LEMMA ApplyInit ==
    ASSUME Init
    PROVE  ApplyInv
<1>1. ExistInv
  BY ExistInit
<1>2. ToSet(<<>>) = {}
  BY DEF ToSet
<1>3. proc["op"] = Idle /\ proc["wh"] = Idle /\ held = {} /\ seen = {} /\ fresh = {}
  BY DEF Init
<1>4. Idle.pc = "idle" /\ Idle.i = {} /\ Idle.after = "apply" /\ Idle.todo = <<>>
  BY DEF Idle
<1> QED BY <1>1, <1>2, <1>3, <1>4 DEF ApplyInv, Current, Held, Alone, Pursued, Served

LEMMA ApplyStep ==
    ASSUME ApplyInv, [Next]_vars
    PROVE  ApplyInv'
<1>1. ExistInv'
  BY ExistStep DEF ApplyInv
<1>2. CASE Next
  BY <1>1, <1>2, CurrentStep, HeldStep, AloneStep, PursuedStep, ServedStep DEF ApplyInv, ExistInv
<1>3. CASE UNCHANGED vars
  <2>1. UNCHANGED <<ing, obj, route, seen, held, proc, fresh, unstored, excused>>
    BY <1>3 DEF vars, routeVars, opVars
  <2>2. Current' /\ Held' /\ Alone'
    BY <2>1 DEF ApplyInv, Current, Held, Alone
  <2>3. Pursued' /\ Served'
    BY <2>1 DEF ApplyInv, Pursued, Served, settled
  <2> QED BY <1>1, <2>2, <2>3 DEF ApplyInv
<1> QED BY <1>2, <1>3

\* When nothing is left to do, the route of a translated Ingress refers to every
\* extension filter it asks for and the operator has a copy of: what the webhook
\* wrote without them was written again, whoever came first.  That does not
\* hold for a request that was not stored after the webhook served it.
THEOREM AuthenticationApplied == Spec => []FiltersApplied
<1>1. Init => ApplyInv
  BY ApplyInit
<1>2. ApplyInv /\ [Next]_vars => ApplyInv'
  BY ApplyStep
<1>3. ApplyInv => FiltersApplied
  <2> SUFFICES ASSUME ApplyInv, Quiet, NEW i \in Ing, ing[i] # NoIngress, i \notin unstored, i \in seen,
                      route[i].st = "live", NEW f \in ing[i].auths \ excused, obj[f].st = "ours"
               PROVE  f \in route[i].refs
    BY DEF FiltersApplied
  <2>1. proc["wh"].pc = "idle"
    BY DEF Quiet, ApplyInv, ExistInv, TypeOK
  <2>2. proc["wh"].i = {}
    BY <2>1, ProcessTyped DEF wellFormed, ApplyInv, ExistInv
  <2> QED BY <2>2 DEF ApplyInv, Served, settled
<1> QED BY <1>1, <1>2, <1>3, PTL DEF Spec

=============================================================================
